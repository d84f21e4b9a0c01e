---------------------------- MODULE PaperTrading ----------------------------
(***************************************************************************)
(* The paper-trading core: the one-shot processes that share the SQLite    *)
(* ledger (data/trader.db) and the IBKR paper gateway.                     *)
(*                                                                         *)
(*   entry     trader/paper/entry_pipeline.py   nightly                    *)
(*   guardian  trader/paper/guardian.py         every five minutes         *)
(*   reconcile trader/paper/reconcile.py        every minute               *)
(*   owner     trader/paper/owner_close.py      by hand                    *)
(*                                                                         *)
(* A step of a process is one committed ledger call, one gateway call, or  *)
(* one group of reads nothing else can separate; between two steps every   *)
(* other process may run, and the run itself may die (CrashPoints) and     *)
(* lose its local variables.  A process never overlaps itself: the         *)
(* schedulers refuse to start a second instance.                           *)
(*                                                                         *)
(* Prices, fees and P&L are abstracted: whether an exit condition fires,   *)
(* which symbols signal and how many shares are bought are free choices.   *)
(***************************************************************************)
EXTENDS Integers, Sequences, FiniteSets, FiniteSetsExt

CONSTANTS
  Processes,        \* the processes that are scheduled in this instance
  Symbols,
  Profiles,         \* exit-profile configs: the strategy_id of the ledger
  Family,           \* [Profiles -> signal family]
  AssignProfile,    \* the hash: <<symbol, live profiles of a family>> -> profile
  ExitReasons,      \* the guardian's exit intents
  Quantities,       \* share counts the sizer may produce
  LastDay,          \* market dates are 0..LastDay (bound)
  TradingDays,      \* those on which the exchange is open
  CrashPoints,      \* <<process, pc>> at which a run may die
  BreakerOutcomes,  \* what the guardian's breaker evaluation may conclude
  Killable,         \* profiles the guardian's kill conditions may retire
  Retirable,        \* profiles the tournament may retire
  MayReject,        \* may the gateway reject an order it has accepted?
  FillsMayExpire,   \* may executions of past days vanish from fills()?
  NoRef             \* no order

Days    == 0..LastDay
Intents == {"entry", "exit_owner_close"} \cup ExitReasons

\* idempotency.build_order_ref: strategy, symbol, date and intent (the side
\* is a function of the intent), one key per tuple.
Ref == [profile : Profiles, symbol : Symbols, day : Days, intent : Intents]
OrderRef(p, s, d, i) == [profile |-> p, symbol |-> s, day |-> d, intent |-> i]
Side(r) == IF r.intent = "entry" THEN "buy" ELSE "sell"

EntryPCs    == {"idle", "step0", "step0_open", "loop", "step1", "step1_open",
                "persist", "place", "mark", "open"}
GuardianPCs == {"idle", "snapshot", "loop", "heal_close",
                "persist", "place", "mark", "close"}
ReconPCs    == {"idle", "pending", "snapshot", "record"}
OwnerPCs    == {"idle", "persist", "place", "mark", "close"}

ASSUME ConstantsAssumption ==
  /\ Processes \subseteq {"entry", "guardian", "reconcile", "owner"}
  /\ AssignProfile \in [Symbols \X ((SUBSET Profiles) \ {{}}) -> Profiles]
  /\ \A s \in Symbols, P \in (SUBSET Profiles) \ {{}} : AssignProfile[<<s, P>>] \in P
  /\ Quantities \subseteq Nat \ {0}
  /\ LastDay \in Nat
  /\ BreakerOutcomes \subseteq BOOLEAN
  /\ ExitReasons \cap {"entry", "exit_owner_close"} = {}
  /\ MayReject \in BOOLEAN /\ FillsMayExpire \in BOOLEAN
  /\ NoRef \notin Ref
  /\ IsFiniteSet(Ref)

VARIABLES
  day,          \* the market date
  orders,       \* paper_orders: Ref -> row ("none" where there is no row)
  positions,    \* paper_positions, by position_id
  trades,       \* paper_trades, in insertion order
  registry,     \* profiles in state probation/full in strategy_registry
  killed,       \* strategy_kill_state
  halt,         \* reconciliation_halt_state
  tripped,      \* is any breaker's current action 'trip'?
  broker,       \* gateway: what became of the orders it was sent, by Ref
  held,         \* gateway: net shares held, by symbol
  fills,        \* gateway: executions that fills() still reports
  entry, guardian, recon, owner,   \* the local state of the processes
  issuedFor,    \* history: the position a sell order was recorded for
  lateBuys      \* history: BUY orders sent since the standing halt began

ledger   == <<orders, positions, trades>>
gateway  == <<broker, held, fills>>
control  == <<registry, killed, halt, tripped>>
history  == <<issuedFor, lateBuys>>
vars == <<day, ledger, control, gateway, entry, guardian, recon, owner, history>>

-----------------------------------------------------------------------------
(* Ledger queries.                                                         *)

\* Mutant: a resolved row no longer blocks its reference (INSERT OR REPLACE).
RecordedUnlessResolved(r) == orders[r].status \in {"pending_submit", "submitted"}

Recorded(r)   == orders[r].status # "none"
Unresolved(r) == orders[r].status \in {"pending_submit", "submitted"}

\* Mutant: the lookup is scoped to one date's reference.
UnresolvedToday(p, s, side) ==
  {r \in Ref : /\ r.profile = p /\ r.symbol = s /\ Side(r) = side
               /\ Unresolved(r) /\ r.day = day}

\* ledger.get_unresolved_orders: scoped, whatever the date in the ref.
UnresolvedOrders(p, s, side) ==
  {r \in Ref : r.profile = p /\ r.symbol = s /\ Side(r) = side /\ Unresolved(r)}

\* idempotency.find_unresolved_match over orders S and snapshot f: the oldest
\* local order whose own ref has a fill.
Matches(S, f) == S \cap f
Oldest(S) == CHOOSE r \in S : \A q \in S : orders[r].row <= orders[q].row

\* Mutant: the query forgets WHERE status = 'open'.
AllPositions == DOMAIN positions

OpenPositions == {i \in DOMAIN positions : positions[i].status = "open"}
OpenIn(s)     == {i \in OpenPositions : positions[i].ref.symbol = s}

\* Mutant: only positions entered today count.
SymbolsOpenedToday == {positions[i].ref.symbol : i \in {j \in OpenPositions : positions[j].ref.day = day}}
HasPositionOpenedTodayFor(r) == r.day = day /\ \E i \in OpenPositions : positions[i].ref = r

OpenSymbols == {positions[i].ref.symbol : i \in OpenPositions}
HasOpenPositionFor(r) == \E i \in OpenPositions : positions[i].ref = r

LocalQty(s)   == MapThenSumSet(LAMBDA i : positions[i].qty, OpenIn(s))
\* ledger.get_pending_order_qty: buys and sells alike, 'submitted' only.
PendingQty(s) == MapThenSumSet(LAMBDA r : orders[r].qty,
                   {r \in Ref : r.symbol = s /\ orders[r].status = "submitted"})

\* reconcile.is_entry_halted
Halted == tripped \/ halt = "halt"

-----------------------------------------------------------------------------
(* Ledger writes, each its own commit.                                     *)

\* Mutant: the row is born 'submitted'.
RecordOrderAsSubmitted(r, q) ==
  orders' = [orders EXCEPT ![r] = [status |-> "submitted", qty |-> q,
               row |-> Cardinality({x \in Ref : Recorded(x)}) + 1]]

RecordOrder(r, q) ==
  orders' = [orders EXCEPT ![r] = [status |-> "pending_submit", qty |-> q,
               row |-> Cardinality({x \in Ref : Recorded(x)}) + 1]]

\* Mutant: the gateway's spelling of a status goes into the ledger.
SetGatewayStatus(r, status) == orders' = [orders EXCEPT ![r].status = "Submitted"]

SetStatus(r, status) == orders' = [orders EXCEPT ![r].status = status]

OpenPosition(r, q) ==
  positions' = Append(positions, [ref |-> r, qty |-> q, status |-> "open"])

\* ledger.close_position: never looks at the position's current status.
ClosePosition(i, r) ==
  /\ positions' = [positions EXCEPT ![i].status = "closed"]
  /\ trades' = Append(trades, [position |-> i, exitRef |-> r])

(* IBKRBrokerAdapter.place_order: the gateway accepts what it is sent,     *)
(* without looking at the orderRef.                                        *)
PlaceOrder(r) == broker' = [broker EXCEPT ![r].placed = @ + 1]

-----------------------------------------------------------------------------
IdleEntry    == [pc |-> "idle", asOf |-> 0, fills |-> {}, todo |-> {},
                 cands |-> {}, pool |-> {}, ref |-> NoRef]
IdleGuardian == [pc |-> "idle", asOf |-> 0, fills |-> {}, todo |-> {},
                 pos |-> 0, ref |-> NoRef]
IdleRecon    == [pc |-> "idle", local |-> [s \in Symbols |-> 0],
                 pending |-> [s \in Symbols |-> 0], unexplained |-> {}]
IdleOwner    == [pc |-> "idle", pos |-> 0, ref |-> NoRef]

Init ==
  /\ day = 0
  /\ orders = [r \in Ref |-> [status |-> "none", qty |-> 0, row |-> 0]]
  /\ positions = <<>> /\ trades = <<>>
  /\ registry = Profiles /\ killed = {}
  /\ halt = "none" /\ tripped = FALSE
  /\ broker = [r \in Ref |-> [placed |-> 0, executed |-> 0, rejected |-> 0]]
  /\ held = [s \in Symbols |-> 0]
  /\ fills = {}
  /\ entry = IdleEntry /\ guardian = IdleGuardian
  /\ recon = IdleRecon /\ owner = IdleOwner
  /\ issuedFor = [r \in Ref |-> 0]
  /\ lateBuys = 0

-----------------------------------------------------------------------------
(* The entry pipeline.                                                     *)

EntryOnly == UNCHANGED <<day, trades, control, held, fills,
                         guardian, recon, owner, issuedFor>>

\* Mutant: STEP 0 waits for the halt to end.
EntryStartUnlessHalted ==
  /\ "entry" \in Processes /\ entry.pc = "idle"
  /\ entry' = [IdleEntry EXCEPT
       !.pc = "step0", !.asOf = day, !.fills = fills,
       !.todo = {r \in Ref : /\ r.intent = "entry" /\ Unresolved(r) /\ ~Halted
                             /\ r \in fills /\ r.profile \in registry}]
  /\ UNCHANGED <<orders, positions, broker, lateBuys>> /\ EntryOnly

\* Mutant: nothing is healed while the exchange is closed.
EntryStartUnlessClosed ==
  /\ "entry" \in Processes /\ entry.pc = "idle"
  /\ entry' = [IdleEntry EXCEPT
       !.pc = "step0", !.asOf = day, !.fills = fills,
       !.todo = {r \in Ref : /\ r.intent = "entry" /\ Unresolved(r) /\ day \in TradingDays
                             /\ r \in fills /\ r.profile \in registry}]
  /\ UNCHANGED <<orders, positions, broker, lateBuys>> /\ EntryOnly

\* run_entry_pipeline_once: one snapshot, then STEP 0's list.  todo is the
\* part of get_all_unresolved_orders that STEP 0 will heal: entry orders with
\* a fill whose profile the registry still knows.  Only this process writes
\* entry orders, so reading the list with the snapshot loses nothing.
EntryStart ==
  /\ "entry" \in Processes /\ entry.pc = "idle"
  /\ entry' = [IdleEntry EXCEPT
       !.pc = "step0", !.asOf = day, !.fills = fills,
       !.todo = {r \in Ref : /\ r.intent = "entry" /\ Unresolved(r)
                             /\ r \in fills /\ r.profile \in registry}]
  /\ UNCHANGED <<orders, positions, broker, lateBuys>> /\ EntryOnly

EntryUnresolved == UnresolvedOrders(entry.ref.profile, entry.ref.symbol, "buy")

\* heal_order, from STEP 0 (unscoped) or from STEP 1 (this candidate).
EntryHeal ==
  LET due == IF entry.pc = "step0" THEN entry.todo
             ELSE Matches(EntryUnresolved, entry.fills)
      r   == Oldest(due)
  IN  /\ entry.pc \in {"step0", "step1"}
      /\ due # {}
      /\ SetStatus(r, "filled")
      /\ entry' = [entry EXCEPT
           !.pc = IF @ = "step0" THEN "step0_open" ELSE "step1_open",
           !.todo = @ \ {r}, !.ref = r]
      /\ UNCHANGED <<positions, broker, lateBuys>> /\ EntryOnly

\* The second half of a heal: open the position unless one is open for it.
\* fills() carries no price, so STEP 0 asks latest_price between the halves;
\* it may raise, which ends the run: a crash at step0_open.
EntryHealOpen ==
  /\ entry.pc \in {"step0_open", "step1_open"}
  /\ IF HasOpenPositionFor(entry.ref)
       THEN UNCHANGED positions
       ELSE OpenPosition(entry.ref, orders[entry.ref].qty)
  /\ entry' = [entry EXCEPT !.pc = IF @ = "step0_open" THEN "step0" ELSE "loop"]
  /\ UNCHANGED <<orders, broker, lateBuys>> /\ EntryOnly

\* Not a trading day, or RuntimeError: no live config at all.
EntryNothingToScan ==
  /\ entry.pc = "step0" /\ entry.todo = {}
  /\ entry.asOf \notin TradingDays \/ registry = {}
  /\ entry' = IdleEntry
  /\ UNCHANGED <<orders, positions, broker, lateBuys>> /\ EntryOnly

\* Mutant: the exclusion of killed profiles is dropped.
WholePool == registry

\* The exit profiles new entries may be assigned to.
LivePool == registry \ killed

\* scan_candidates, the risk gate, the sizer, the nightly budget and
\* round_shares_down: any symbols without an open position, each claimed by
\* one live family, survive with at least one share.  The code reads the
\* registry, then the kill state, then the registry again within the scan; a
\* retirement in between only shrinks the pool or ends the run, as a crash
\* here does, so one read stands for the three.
EntryScan ==
  /\ entry.pc = "step0" /\ entry.todo = {}
  /\ entry.asOf \in TradingDays /\ registry # {}
  /\ \E S \in SUBSET (Symbols \ OpenSymbols) :
     \E claim \in [S -> {Family[p] : p \in registry}] :
       entry' = [entry EXCEPT !.pc = "loop", !.pool = LivePool,
                              !.cands = {<<s, claim[s]>> : s \in S}]
  /\ UNCHANGED <<orders, positions, broker, lateBuys>> /\ EntryOnly

\* Next position: assign_exit_profile within the family.  A family whose
\* profiles are all killed raises KeyError (or, with every profile killed,
\* RuntimeError) and ends the run.
EntryPick(c) ==
  LET live == {p \in entry.pool : Family[p] = c[2]} IN
  /\ entry.pc = "loop" /\ c \in entry.cands
  /\ entry' = IF live = {} THEN IdleEntry
              ELSE [entry EXCEPT !.pc = "step1", !.cands = @ \ {c},
                     !.ref = OrderRef(AssignProfile[<<c[1], live>>],
                                      c[1], entry.asOf, "entry")]
  /\ UNCHANGED <<orders, positions, broker, lateBuys>> /\ EntryOnly

\* STEP 2: still in flight; STEP 3: halted.  Next candidate.
EntryBlocked ==
  /\ entry.pc = "step1"
  /\ \/ EntryUnresolved # {} /\ Matches(EntryUnresolved, entry.fills) = {}
     \/ EntryUnresolved = {} /\ Halted
  /\ entry' = [entry EXCEPT !.pc = "loop"]
  /\ UNCHANGED <<orders, positions, broker, lateBuys>> /\ EntryOnly

\* Mutants: STEP 3 is skipped; STEP 4 is skipped.
EntryGateWithoutHaltCheck ==
  /\ entry.pc = "step1"
  /\ EntryUnresolved = {}
  /\ entry' = [entry EXCEPT !.pc = "persist"]
  /\ UNCHANGED <<orders, positions, broker, lateBuys>> /\ EntryOnly
EntryGateStraightToBroker ==
  /\ entry.pc = "step1"
  /\ EntryUnresolved = {} /\ ~Halted
  /\ entry' = [entry EXCEPT !.pc = "place"]
  /\ UNCHANGED <<orders, positions, broker, lateBuys>> /\ EntryOnly

EntryGate ==
  /\ entry.pc = "step1"
  /\ EntryUnresolved = {} /\ ~Halted
  /\ entry' = [entry EXCEPT !.pc = "persist"]
  /\ UNCHANGED <<orders, positions, broker, lateBuys>> /\ EntryOnly

\* STEP 4.  The ref is UNIQUE: a second order of the same day raises
\* IntegrityError, which nothing catches, and the run ends.
EntryPersist ==
  /\ entry.pc = "persist"
  /\ IF Recorded(entry.ref)
       THEN entry' = IdleEntry /\ UNCHANGED orders
       ELSE /\ \E q \in Quantities : RecordOrder(entry.ref, q)
            /\ entry' = [entry EXCEPT !.pc = "place"]
  /\ UNCHANGED <<positions, broker, lateBuys>> /\ EntryOnly

\* STEP 5: the gateway call, the order's status, then the position.
EntryPlace ==
  /\ entry.pc = "place"
  /\ PlaceOrder(entry.ref)
  /\ lateBuys' = IF Halted THEN lateBuys + 1 ELSE lateBuys
  /\ entry' = [entry EXCEPT !.pc = "mark"]
  /\ UNCHANGED <<orders, positions>> /\ EntryOnly

\* Mutant: a market order is taken as filled when it is sent.
EntryMarkFilled ==
  /\ entry.pc = "mark"
  /\ SetStatus(entry.ref, "filled")
  /\ entry' = [entry EXCEPT !.pc = "open"]
  /\ UNCHANGED <<positions, broker, lateBuys>> /\ EntryOnly

EntryMark ==
  /\ entry.pc = "mark"
  /\ SetStatus(entry.ref, "submitted")
  /\ entry' = [entry EXCEPT !.pc = "open"]
  /\ UNCHANGED <<positions, broker, lateBuys>> /\ EntryOnly

EntryOpen ==
  /\ entry.pc = "open"
  /\ OpenPosition(entry.ref, orders[entry.ref].qty)
  /\ entry' = [entry EXCEPT !.pc = "loop"]
  /\ UNCHANGED <<orders, broker, lateBuys>> /\ EntryOnly

EntryDone ==
  /\ entry.pc = "loop" /\ entry.cands = {}
  /\ entry' = IdleEntry
  /\ UNCHANGED <<orders, positions, broker, lateBuys>> /\ EntryOnly

EntryStep ==
  \/ EntryStart \/ EntryHeal \/ EntryHealOpen \/ EntryNothingToScan \/ EntryScan
  \/ \E c \in entry.cands : EntryPick(c)
  \/ EntryBlocked \/ EntryGate \/ EntryPersist \/ EntryPlace \/ EntryMark
  \/ EntryOpen \/ EntryDone

-----------------------------------------------------------------------------
(* The guardian.                                                           *)

GuardianOnly == UNCHANGED <<day, registry, halt, held, fills, entry, recon, owner>>

\* run_guardian_once reads the open positions once, then the fills once.
GuardianStart ==
  /\ "guardian" \in Processes /\ guardian.pc = "idle"
  /\ guardian' = [IdleGuardian EXCEPT !.pc = "snapshot", !.asOf = day,
                                      !.todo = OpenPositions]
  /\ UNCHANGED <<ledger, killed, tripped, broker, history>> /\ GuardianOnly

GuardianSnapshot ==
  /\ guardian.pc = "snapshot"
  /\ guardian' = [guardian EXCEPT !.pc = "loop", !.fills = fills]
  /\ UNCHANGED <<ledger, killed, tripped, broker, history>> /\ GuardianOnly

\* No exit this tick: closed exchange, no usable price, or no condition met.
GuardianHold(i) ==
  /\ guardian.pc = "loop" /\ i \in guardian.todo
  /\ guardian' = [guardian EXCEPT !.todo = @ \ {i}]
  /\ UNCHANGED <<ledger, killed, tripped, broker, history>> /\ GuardianOnly

\* Mutant: only today's exit orders block a new one.
ExitsOfToday(i) == {r \in UnresolvedOrders(positions[i].ref.profile, positions[i].ref.symbol, "sell") :
                      r.day = guardian.asOf}

ExitsOf(i) == UnresolvedOrders(positions[i].ref.profile, positions[i].ref.symbol, "sell")

ExitFires(i) == /\ guardian.pc = "loop" /\ i \in guardian.todo
                /\ guardian.asOf \in TradingDays

\* _submit_exit (3): an unresolved sell of this profile and symbol has a fill.
GuardianHealExit(i) ==
  LET r == Oldest(Matches(ExitsOf(i), guardian.fills)) IN
  /\ ExitFires(i)
  /\ Matches(ExitsOf(i), guardian.fills) # {}
  /\ SetStatus(r, "filled")
  /\ guardian' = [guardian EXCEPT !.pc = "heal_close", !.pos = i, !.ref = r]
  /\ UNCHANGED <<positions, trades, killed, tripped, broker, history>> /\ GuardianOnly

GuardianNext == [guardian EXCEPT !.pc = "loop", !.todo = @ \ {guardian.pos},
                                 !.pos = 0, !.ref = NoRef]

\* ... and the position, read again, is still open.
GuardianHealClose ==
  /\ guardian.pc = "heal_close"
  /\ IF positions[guardian.pos].status = "open"
       THEN ClosePosition(guardian.pos, guardian.ref)
       ELSE UNCHANGED <<positions, trades>>
  /\ guardian' = GuardianNext
  /\ UNCHANGED <<orders, killed, tripped, broker, history>> /\ GuardianOnly

\* _submit_exit (4): an unresolved sell without a fill.
GuardianInFlight(i) ==
  /\ ExitFires(i)
  /\ ExitsOf(i) # {} /\ Matches(ExitsOf(i), guardian.fills) = {}
  /\ guardian' = [guardian EXCEPT !.todo = @ \ {i}]
  /\ UNCHANGED <<ledger, killed, tripped, broker, history>> /\ GuardianOnly

\* _submit_exit (5): nothing unresolved, so a new exit order is due.
GuardianExit(i, reason) ==
  /\ ExitFires(i)
  /\ ExitsOf(i) = {}
  /\ guardian' = [guardian EXCEPT !.pc = "persist", !.pos = i,
       !.ref = OrderRef(positions[i].ref.profile, positions[i].ref.symbol,
                        guardian.asOf, reason)]
  /\ UNCHANGED <<ledger, killed, tripped, broker, history>> /\ GuardianOnly

\* record_order; a ref already used today raises IntegrityError, which ends
\* the tick for every remaining position, the breakers and the kill conditions.
GuardianPersist ==
  /\ guardian.pc = "persist"
  /\ IF Recorded(guardian.ref)
       THEN guardian' = IdleGuardian /\ UNCHANGED <<orders, issuedFor>>
       ELSE /\ RecordOrder(guardian.ref, positions[guardian.pos].qty)
            /\ issuedFor' = [issuedFor EXCEPT ![guardian.ref] = guardian.pos]
            /\ guardian' = [guardian EXCEPT !.pc = "place"]
  /\ UNCHANGED <<positions, trades, killed, tripped, broker, lateBuys>> /\ GuardianOnly

GuardianPlace ==
  /\ guardian.pc = "place"
  /\ PlaceOrder(guardian.ref)
  /\ guardian' = [guardian EXCEPT !.pc = "mark"]
  /\ UNCHANGED <<ledger, killed, tripped, history>> /\ GuardianOnly

GuardianMark ==
  /\ guardian.pc = "mark"
  /\ SetStatus(guardian.ref, "submitted")
  /\ guardian' = [guardian EXCEPT !.pc = "close"]
  /\ UNCHANGED <<positions, trades, killed, tripped, broker, history>> /\ GuardianOnly

GuardianClose ==
  /\ guardian.pc = "close"
  /\ ClosePosition(guardian.pos, guardian.ref)
  /\ guardian' = GuardianNext
  /\ UNCHANGED <<orders, killed, tripped, broker, history>> /\ GuardianOnly

\* evaluate_account_breakers, then evaluate_kill_conditions: one step for
\* their commits, which no other step of a process distinguishes.
GuardianFinish ==
  /\ guardian.pc = "loop" /\ guardian.todo = {}
  /\ tripped' \in BreakerOutcomes
  /\ \E K \in SUBSET (Killable \cap (registry \ killed)) : killed' = killed \cup K
  /\ lateBuys' = IF tripped' \/ halt = "halt" THEN lateBuys ELSE 0
  /\ guardian' = IdleGuardian
  /\ UNCHANGED <<ledger, broker, issuedFor>> /\ GuardianOnly

GuardianStep ==
  \/ GuardianStart \/ GuardianSnapshot
  \/ \E i \in guardian.todo :
       \/ GuardianHold(i) \/ GuardianHealExit(i) \/ GuardianInFlight(i)
       \/ \E reason \in ExitReasons : GuardianExit(i, reason)
  \/ GuardianHealClose \/ GuardianPersist \/ GuardianPlace \/ GuardianMark
  \/ GuardianClose \/ GuardianFinish

-----------------------------------------------------------------------------
(* Reconciliation: three reads at three moments, then the log rows.        *)

ReconOnly == UNCHANGED <<day, ledger, registry, killed, tripped, gateway,
                         entry, guardian, owner, issuedFor>>

ReconcileReadLocal ==
  /\ "reconcile" \in Processes /\ recon.pc = "idle"
  /\ recon' = [recon EXCEPT !.pc = "pending", !.local = [s \in Symbols |-> LocalQty(s)]]
  /\ UNCHANGED <<halt, lateBuys>> /\ ReconOnly

\* Mutant: orders never marked submitted count as pending too.
ReconcileReadUnresolved ==
  /\ recon.pc = "pending"
  /\ recon' = [recon EXCEPT !.pc = "snapshot", !.pending = [s \in Symbols |->
       MapThenSumSet(LAMBDA r : orders[r].qty, {r \in Ref : r.symbol = s /\ Unresolved(r)})]]
  /\ UNCHANGED <<halt, lateBuys>> /\ ReconOnly

ReconcileReadPending ==
  /\ recon.pc = "pending"
  /\ recon' = [recon EXCEPT !.pc = "snapshot", !.pending = [s \in Symbols |-> PendingQty(s)]]
  /\ UNCHANGED <<halt, lateBuys>> /\ ReconOnly

Abs(n) == IF n < 0 THEN -n ELSE n

\* classify_divergence: a difference that is not exactly the pending
\* quantity is unexplained.
Explained(diff, pending) == diff = 0 \/ Abs(diff) = pending

ReconcileSnapshot ==
  /\ recon.pc = "snapshot"
  /\ recon' = [IdleRecon EXCEPT !.pc = "record",
       !.unexplained = {s \in Symbols :
          ~Explained(held[s] - recon.local[s], recon.pending[s])}]
  /\ UNCHANGED <<halt, lateBuys>> /\ ReconOnly

\* record_reconciliation per symbol: any unexplained one halts, and a log
\* row never ends a halt.
ReconcileRecord ==
  /\ recon.pc = "record"
  /\ halt' = IF recon.unexplained # {} THEN "halt" ELSE halt
  /\ recon' = IdleRecon
  /\ UNCHANGED lateBuys /\ ReconOnly

ReconcileStep == ReconcileReadLocal \/ ReconcileReadPending
                 \/ ReconcileSnapshot \/ ReconcileRecord

\* clear_halt.clear_entry_halt, run by a human who saw a halt.
HumanClear ==
  /\ "reconcile" \in Processes /\ halt = "halt"
  /\ halt' = "clear"
  /\ lateBuys' = IF tripped THEN lateBuys ELSE 0
  /\ UNCHANGED <<day, ledger, registry, killed, tripped, gateway,
                 entry, guardian, recon, owner, issuedFor>>

-----------------------------------------------------------------------------
(* owner_close: the guardian's sequence without its unresolved check.      *)

OwnerOnly == UNCHANGED <<day, control, held, fills, entry, guardian, recon, lateBuys>>

OwnerStart(s) ==
  LET i == Min(OpenIn(s)) IN
  /\ "owner" \in Processes /\ owner.pc = "idle"
  /\ OpenIn(s) # {}
  /\ owner' = [pc |-> "persist", pos |-> i,
               ref |-> OrderRef(positions[i].ref.profile, s, day, "exit_owner_close")]
  /\ UNCHANGED <<ledger, broker, issuedFor>> /\ OwnerOnly

OwnerPersist ==
  /\ owner.pc = "persist"
  /\ IF Recorded(owner.ref)
       THEN owner' = IdleOwner /\ UNCHANGED <<orders, issuedFor>>
       ELSE /\ RecordOrder(owner.ref, positions[owner.pos].qty)
            /\ issuedFor' = [issuedFor EXCEPT ![owner.ref] = owner.pos]
            /\ owner' = [owner EXCEPT !.pc = "place"]
  /\ UNCHANGED <<positions, trades, broker>> /\ OwnerOnly

\* latest_price (which may raise: a crash point) and place_order.
OwnerPlace ==
  /\ owner.pc = "place"
  /\ PlaceOrder(owner.ref)
  /\ owner' = [owner EXCEPT !.pc = "mark"]
  /\ UNCHANGED <<ledger, issuedFor>> /\ OwnerOnly

OwnerMark ==
  /\ owner.pc = "mark"
  /\ SetStatus(owner.ref, "submitted")
  /\ owner' = [owner EXCEPT !.pc = "close"]
  /\ UNCHANGED <<positions, trades, broker, issuedFor>> /\ OwnerOnly

OwnerClose ==
  /\ owner.pc = "close"
  /\ ClosePosition(owner.pos, owner.ref)
  /\ owner' = IdleOwner
  /\ UNCHANGED <<orders, broker, issuedFor>> /\ OwnerOnly

OwnerStep == (\E s \in Symbols : OwnerStart(s))
             \/ OwnerPersist \/ OwnerPlace \/ OwnerMark \/ OwnerClose

-----------------------------------------------------------------------------
(* The gateway, the calendar, the tournament, and the death of a run.      *)

Working(r) == broker[r].placed > broker[r].executed + broker[r].rejected

BrokerOnly == UNCHANGED <<day, ledger, control, entry, guardian, recon, owner, history>>

BrokerFill(r) ==
  /\ Working(r)
  /\ broker' = [broker EXCEPT ![r].executed = @ + 1]
  /\ held' = [held EXCEPT ![r.symbol] =
                IF Side(r) = "buy" THEN @ + orders[r].qty ELSE @ - orders[r].qty]
  /\ fills' = fills \cup {r}
  /\ BrokerOnly

BrokerReject(r) ==
  /\ MayReject /\ Working(r)
  /\ broker' = [broker EXCEPT ![r].rejected = @ + 1]
  /\ UNCHANGED <<held, fills>> /\ BrokerOnly

NextDay ==
  /\ day < LastDay
  /\ day' = day + 1
  /\ fills' \in (IF FillsMayExpire THEN SUBSET fills ELSE {fills})
  /\ UNCHANGED <<ledger, control, broker, held, entry, guardian, recon, owner, history>>

\* tournament pipeline.retire: registry state and kill state (two commits;
\* either one alone already keeps the profile out of LivePool).
Retire(p) ==
  /\ p \in Retirable \cap registry
  /\ registry' = registry \ {p} /\ killed' = killed \cup {p}
  /\ UNCHANGED <<day, ledger, halt, tripped, gateway,
                 entry, guardian, recon, owner, history>>

\* Killed, timed out, or ended by an exception no caller handles.
Crash ==
  /\ \/ /\ <<"entry", entry.pc>> \in CrashPoints
        /\ entry' = IdleEntry /\ UNCHANGED <<guardian, recon, owner>>
     \/ /\ <<"guardian", guardian.pc>> \in CrashPoints
        /\ guardian' = IdleGuardian /\ UNCHANGED <<entry, recon, owner>>
     \/ /\ <<"reconcile", recon.pc>> \in CrashPoints
        /\ recon' = IdleRecon /\ UNCHANGED <<entry, guardian, owner>>
     \/ /\ <<"owner", owner.pc>> \in CrashPoints
        /\ owner' = IdleOwner /\ UNCHANGED <<entry, guardian, recon>>
  /\ UNCHANGED <<day, ledger, control, gateway, history>>

-----------------------------------------------------------------------------
Next ==
  \/ EntryStep \/ GuardianStep \/ ReconcileStep \/ OwnerStep
  \/ HumanClear \/ NextDay \/ Crash
  \/ \E r \in Ref : BrokerFill(r) \/ BrokerReject(r)
  \/ \E p \in Profiles : Retire(p)

Spec == Init /\ [][Next]_vars
=============================================================================
