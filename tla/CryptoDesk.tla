------------------------------ MODULE CryptoDesk ------------------------------
(***************************************************************************)
(* The simulated crypto book and everything that trades on it:             *)
(*                                                                         *)
(*   entry     trader/paper/crypto_entry_pipeline.py  hourly               *)
(*   snipe     trader/paper/snipe_experiment.py       hourly               *)
(*   guardian  trader/paper/guardian.py (crypto_sim venue), every 5 min    *)
(*   human     trader/risk/clear_breaker.py                                *)
(*                                                                         *)
(* and the loop that closes over them: entries open positions, closed      *)
(* positions are trades, trades trip breakers and kill strategies, a trip  *)
(* halts entries.  Fills are simulated, so an order is "filled" by the     *)
(* process that recorded it, and nothing outside ever reports it: an order *)
(* left pending stays pending.                                             *)
(*                                                                         *)
(* A step is one committed ledger call or one group of reads.  Which       *)
(* symbols signal, which exits fire and what a trade earns are free; the   *)
(* reconciliation half of is_entry_halted is in PaperTrading.              *)
(***************************************************************************)
EXTENDS Breakers, FiniteSets

CONSTANTS
  Profiles,      \* live profiles of crypto families
  Hourly,        \* those of families on hourly bars
  Symbols,       \* the crypto universe
  Tickers,       \* coins the ground-truth poller may see: the snipe's targets
  Snipe,         \* owner_snipe_experiment, the strategy of its own
  ExitReasons,   \* the guardian's exit intents
  Pnls,          \* what a closed trade may earn
  LastHour,      \* hours are 0..LastHour (bound)
  Midnights,     \* the hours that begin a day
  CrashPoints,   \* <<process, pc>> at which a run may die
  MaxRestarts,   \* manual restarts of the drawdown breaker (bound)
  Never          \* a coin not seen yet

Hours == 0..LastHour
Day(h) == Cardinality({m \in Midnights : m <= h})
Stamps == [unit : {"hour"}, at : Hours] \cup [unit : {"day"}, at : {Day(h) : h \in Hours}]
HourStamp(h) == [unit |-> "hour", at |-> h]
DayStamp(h)  == [unit |-> "day", at |-> Day(h)]

\* idempotency.build_order_ref
Ref == [strategy : Profiles \cup {Snipe}, symbol : Symbols \cup Tickers,
        stamp : Stamps, intent : {"entry", "exit_time_stop"} \cup ExitReasons]
OrderRef(p, s, at, i) == [strategy |-> p, symbol |-> s, stamp |-> at, intent |-> i]

ASSUME DeskAssumption ==
  /\ Hourly \subseteq Profiles /\ Snipe \notin Profiles
  /\ Symbols \cap Tickers = {}
  /\ "entry" \notin ExitReasons
  /\ Pnls \subseteq Int \ {0}
  /\ {LastHour, MaxRestarts} \subseteq Nat /\ Midnights \subseteq Hours \ {0}
  /\ Never \notin Hours

VARIABLES
  hour,
  listed,        \* first_seen of a coin in snapshots
  orders,        \* paper_orders: the status of each reference recorded
  positions,     \* paper_positions
  trades,        \* paper_trades: the position closed and what it earned
  killed,        \* strategy_kill_state
  entry, guardian, snipe     \* locals of a run; entry.asked is a history: the
                             \* breaker events there were when the gate was passed

vars == <<hour, listed, orders, positions, trades, events, killed,
          entry, guardian, snipe>>

Recorded(r) == r \in DOMAIN orders
Unresolved(p, s, intents) ==
  {r \in DOMAIN orders : /\ r.strategy = p /\ r.symbol = s /\ r.intent \in intents
                         /\ orders[r] = "pending_submit"}
OpenPositions == {i \in DOMAIN positions : positions[i].status = "open"}

\* Mutant: what was entered in an earlier hour is forgotten.
SymbolsOpenedThisHour ==
  {positions[i].ref.symbol : i \in {j \in OpenPositions : positions[j].hour = hour}}
OpenSymbols   == {positions[i].ref.symbol : i \in OpenPositions}
PnlsOf(T)     == [k \in DOMAIN T |-> T[k].pnl]
TradesOf(p)   == SelectSeq(trades, LAMBDA t : positions[t.pos].ref.strategy = p)

\* Mutant: a simulated order is left where the stock leg leaves its own.
SetGatewayStatus(r, s) ==
  orders' = [q \in DOMAIN orders \cup {r} |->
               IF q # r THEN orders[q] ELSE IF s = "filled" THEN "submitted" ELSE s]

\* record_order, update_order_status
SetStatus(r, s) ==
  orders' = [q \in DOMAIN orders \cup {r} |-> IF q = r THEN s ELSE orders[q]]

OpenPosition(r) ==
  positions' = Append(positions, [ref |-> r, hour |-> hour, status |-> "open"])

\* close_position: the position and its trade in one commit.
ClosePosition(i) ==
  /\ positions' = [positions EXCEPT ![i].status = "closed"]
  /\ \E pnl \in Pnls : trades' = Append(trades, [pos |-> i, pnl |-> pnl])

IdleEntry    == [pc |-> "idle", day |-> 0, cands |-> {}, ref |-> Never, asked |-> 0]
IdleGuardian == [pc |-> "idle", day |-> 0, todo |-> {}, pos |-> 0, ref |-> Never,
                 seen |-> 0, rows |-> [t \in BreakerTypes |-> "none"]]
IdleSnipe    == [pc |-> "idle", hour |-> 0, todo |-> {}, pos |-> 0, ref |-> Never]

Init ==
  /\ hour = 0 /\ listed \in [Tickers -> {0, Never}]
  /\ orders = <<>>
  /\ positions = <<>> /\ trades = <<>> /\ events = <<>> /\ killed = {}
  /\ entry = IdleEntry /\ guardian = IdleGuardian /\ snipe = IdleSnipe

-----------------------------------------------------------------------------
(* The entry pipeline.                                                     *)

EntryOnly == UNCHANGED <<hour, listed, trades, events, killed, guardian, snipe>>

\* _live_crypto_families, scan_crypto_candidates, gate and sizer: symbols
\* without an open position of any strategy, each claimed by one profile that
\* is not killed.  (No family, or no candidate: the run ends as it began.)
EntryScan ==
  /\ entry.pc = "idle"
  /\ \E C \in (SUBSET (Profiles \X Symbols)) \ {{}} :
       /\ \A c \in C : c[1] \notin killed /\ c[2] \notin OpenSymbols
       /\ \A c, d \in C : c[2] = d[2] => c = d
       /\ entry' = [IdleEntry EXCEPT !.pc = "loop", !.day = Day(hour), !.cands = C]
  /\ UNCHANGED <<orders, positions>> /\ EntryOnly

\* An unresolved BUY of the profile and symbol, or the halt.
EntryBlocked(c) ==
  /\ entry.pc = "loop" /\ c \in entry.cands
  /\ Unresolved(c[1], c[2], {"entry"}) # {} \/ AnyTripped
  /\ entry' = [entry EXCEPT !.cands = @ \ {c}]
  /\ UNCHANGED <<orders, positions>> /\ EntryOnly

\* Hourly families stamp the hour of the decision, daily ones the run's day.
EntryRef(c) ==
  OrderRef(c[1], c[2], IF c[1] \in Hourly THEN HourStamp(hour)
                       ELSE [unit |-> "day", at |-> entry.day], "entry")

\* Mutant: the halt is not asked for each candidate.
EntryGateWithoutHalt(c) ==
  /\ entry.pc = "loop" /\ c \in entry.cands
  /\ Unresolved(c[1], c[2], {"entry"}) = {}
  /\ entry' = [entry EXCEPT !.pc = "persist", !.cands = @ \ {c}, !.ref = EntryRef(c),
                            !.asked = Len(events)]
  /\ UNCHANGED <<orders, positions>> /\ EntryOnly

\* Past the gate the price is fetched over the network; it may raise (Crash).
EntryGate(c) ==
  /\ entry.pc = "loop" /\ c \in entry.cands
  /\ Unresolved(c[1], c[2], {"entry"}) = {} /\ ~AnyTripped
  /\ entry' = [entry EXCEPT !.pc = "persist", !.cands = @ \ {c}, !.ref = EntryRef(c),
                            !.asked = Len(events)]
  /\ UNCHANGED <<orders, positions>> /\ EntryOnly

\* record_order; IntegrityError at a reference already used ends the run.
EntryPersist ==
  /\ entry.pc = "persist"
  /\ IF Recorded(entry.ref)
       THEN entry' = IdleEntry /\ UNCHANGED orders
       ELSE SetStatus(entry.ref, "pending_submit") /\ entry' = [entry EXCEPT !.pc = "fill"]
  /\ UNCHANGED <<positions>> /\ EntryOnly

EntryFill ==
  /\ entry.pc = "fill"
  /\ SetStatus(entry.ref, "filled") /\ entry' = [entry EXCEPT !.pc = "open"]
  /\ UNCHANGED <<positions>> /\ EntryOnly

EntryOpen ==
  /\ entry.pc = "open"
  /\ OpenPosition(entry.ref)
  /\ entry' = [entry EXCEPT !.pc = "loop", !.ref = Never, !.asked = 0]
  /\ UNCHANGED orders /\ EntryOnly

EntryDone ==
  /\ entry.pc = "loop" /\ entry.cands = {}
  /\ entry' = IdleEntry
  /\ UNCHANGED <<orders, positions>> /\ EntryOnly

EntryStep == \/ EntryScan \/ EntryPersist \/ EntryFill \/ EntryOpen \/ EntryDone
             \/ \E c \in entry.cands : EntryBlocked(c) \/ EntryGate(c)

-----------------------------------------------------------------------------
(* The guardian on this book.                                              *)

GuardianOnly == UNCHANGED <<hour, listed, entry, snipe>>

GuardianStart ==
  /\ guardian.pc = "idle"
  /\ guardian' = [IdleGuardian EXCEPT !.pc = "loop", !.day = Day(hour),
       !.todo = {i \in OpenPositions : positions[i].ref.symbol \in Symbols}]
  /\ UNCHANGED <<orders, positions, trades, events, killed>> /\ GuardianOnly

\* An exit fires and no sell of the strategy and symbol is pending.  Any other
\* position is passed over: it has no price (a coin of the snipe never has one,
\* Binance does not list it), no exit condition, or a sell still pending.
GuardianExit(i, reason) ==
  LET r == positions[i].ref IN
  /\ guardian.pc = "loop" /\ i \in guardian.todo
  /\ Unresolved(r.strategy, r.symbol, ExitReasons) = {}
  /\ guardian' = [guardian EXCEPT !.pc = "persist", !.pos = i,
       !.ref = OrderRef(r.strategy, r.symbol, [unit |-> "day", at |-> guardian.day], reason)]
  /\ UNCHANGED <<orders, positions, trades, events, killed>> /\ GuardianOnly

\* record_order; IntegrityError ends the tick before breakers and kills.
GuardianPersist ==
  /\ guardian.pc = "persist"
  /\ IF Recorded(guardian.ref)
       THEN guardian' = IdleGuardian /\ UNCHANGED orders
       ELSE /\ SetStatus(guardian.ref, "pending_submit")
            /\ guardian' = [guardian EXCEPT !.pc = "fill"]
  /\ UNCHANGED <<positions, trades, events, killed>> /\ GuardianOnly

GuardianFill ==
  /\ guardian.pc = "fill"
  /\ SetStatus(guardian.ref, "filled") /\ guardian' = [guardian EXCEPT !.pc = "close"]
  /\ UNCHANGED <<positions, trades, events, killed>> /\ GuardianOnly

GuardianClose ==
  /\ guardian.pc = "close"
  /\ ClosePosition(guardian.pos)
  /\ guardian' = [guardian EXCEPT !.pc = "loop", !.todo = @ \ {guardian.pos},
                                  !.pos = 0, !.ref = Never]
  /\ UNCHANGED <<orders, events, killed>> /\ GuardianOnly

\* evaluate_account_breakers: the trades and the breakers' state are read ...
GuardianEvaluate ==
  LET due == Breached(PnlsOf(trades)) IN
  /\ guardian.pc = "loop"
  /\ guardian' = [guardian EXCEPT !.pc = "record", !.todo = {}, !.seen = Len(trades),
                     !.rows = [t \in BreakerTypes |-> Transition(t, Tripped(t), due[t])]]
  /\ UNCHANGED <<orders, positions, trades, events, killed>> /\ GuardianOnly

\* ... and each row is a commit of its own: daily_loss before consecutive_loss
\* before drawdown.
GuardianRecord ==
  LET left == {t \in BreakerTypes : guardian.rows[t] # "none"} IN
  /\ guardian.pc = "record"
  /\ IF left = {}
       THEN UNCHANGED events /\ guardian' = [guardian EXCEPT !.pc = "kill"]
       ELSE LET t == CHOOSE u \in left : \A w \in left : Rank[u] <= Rank[w] IN
            /\ AppendEvent(t, guardian.rows[t], guardian.seen)
            /\ guardian' = [guardian EXCEPT !.rows[t] = "none"]
  /\ UNCHANGED <<orders, positions, trades, killed>> /\ GuardianOnly

\* evaluate_kill_conditions; one commit per strategy, which only an entry
\* run's scan reads.
GuardianKill ==
  /\ guardian.pc = "kill"
  /\ killed' = killed \cup {p \in Profiles : KillDue(PnlsOf(TradesOf(p)))}
  /\ guardian' = IdleGuardian
  /\ UNCHANGED <<orders, positions, trades, events>> /\ GuardianOnly

GuardianStep ==
  \/ GuardianStart \/ GuardianPersist \/ GuardianFill \/ GuardianClose
  \/ GuardianEvaluate \/ GuardianRecord \/ GuardianKill
  \/ \E i \in guardian.todo, reason \in ExitReasons : GuardianExit(i, reason)

-----------------------------------------------------------------------------
(* The snipe experiment.  It asks neither the halt nor the kill state.     *)

SnipeOnly == UNCHANGED <<hour, listed, events, killed, entry, guardian>>

\* Mutant: every position that is old enough, whoever holds it.
RipeOfAnyone == {i \in OpenPositions : positions[i].hour < hour}

Ripe == {i \in OpenPositions : /\ positions[i].ref.strategy = Snipe
                               /\ positions[i].hour < hour}

\* _close_ripe_snipes: MIN_HOLD_MINUTES is "bought in an earlier hour".
SnipeStart ==
  /\ snipe.pc = "idle"
  /\ snipe' = [IdleSnipe EXCEPT !.pc = "close", !.hour = hour, !.todo = Ripe]
  /\ UNCHANGED <<orders, positions, trades>> /\ SnipeOnly

SnipeSellRef(i) == OrderRef(Snipe, positions[i].ref.symbol,
                            HourStamp(snipe.hour), "exit_time_stop")

\* record_order; a sell a run of this hour has recorded before ends the run.
SnipeSell(i) ==
  /\ snipe.pc = "close" /\ i \in snipe.todo
  /\ IF Recorded(SnipeSellRef(i))
       THEN snipe' = IdleSnipe /\ UNCHANGED orders
       ELSE /\ SetStatus(SnipeSellRef(i), "pending_submit")
            /\ snipe' = [snipe EXCEPT !.pc = "sold", !.pos = i, !.ref = SnipeSellRef(i)]
  /\ UNCHANGED <<positions, trades>> /\ SnipeOnly

\* Nothing reads the status of the snipe's orders: it is set with the next
\* commit, here and in SnipeOpen.
SnipeBook ==
  /\ snipe.pc = "sold"
  /\ SetStatus(snipe.ref, "filled") /\ ClosePosition(snipe.pos)
  /\ snipe' = [snipe EXCEPT !.pc = "close", !.todo = @ \ {snipe.pos}, !.pos = 0, !.ref = Never]
  /\ SnipeOnly

\* Mutant: only open positions are remembered.
NotHeld(t) == t \notin OpenSymbols

\* "never sniped before (order history is the dedupe)"
NeverSniped(t) == ~\E r \in DOMAIN orders : r.strategy = Snipe /\ r.symbol = t

\* FRESH_LIMIT_MINUTES since the coin was first seen, in which an hour may end.
Fresh(t) == listed[t] \in {snipe.hour, snipe.hour - 1}

\* _pick_fresh_target and record_order (a coin stops being fresh at any time:
\* SnipeNoTarget).
SnipeBuy(t) ==
  LET r == OrderRef(Snipe, t, HourStamp(snipe.hour), "entry") IN
  /\ snipe.pc = "close" /\ snipe.todo = {}
  /\ Fresh(t) /\ NeverSniped(t)
  /\ SetStatus(r, "pending_submit")
  /\ snipe' = [snipe EXCEPT !.pc = "bought", !.ref = r]
  /\ UNCHANGED <<positions, trades>> /\ SnipeOnly

SnipeNoTarget ==
  /\ snipe.pc = "close" /\ snipe.todo = {}
  /\ snipe' = IdleSnipe
  /\ UNCHANGED <<orders, positions, trades>> /\ SnipeOnly

SnipeOpen ==
  /\ snipe.pc = "bought"
  /\ SetStatus(snipe.ref, "filled") /\ OpenPosition(snipe.ref) /\ snipe' = IdleSnipe
  /\ UNCHANGED trades /\ SnipeOnly

SnipeStep ==
  \/ SnipeStart \/ SnipeBook \/ SnipeNoTarget \/ SnipeOpen
  \/ \E i \in snipe.todo : SnipeSell(i)
  \/ \E t \in Tickers : SnipeBuy(t)

-----------------------------------------------------------------------------
(* Everything else.                                                        *)

\* clear_breaker, run by a human; it does not ask whether there is a trip.
HumanRestart ==
  /\ Cardinality(HumanRestarts) < MaxRestarts
  /\ ClearManualRestart(Len(trades))
  /\ UNCHANGED <<hour, listed, orders, positions, trades, killed, entry, guardian, snipe>>

\* The next hour, with the coins the poller first sees in it.
NextHour ==
  /\ hour < LastHour /\ hour' = hour + 1
  /\ \E S \in SUBSET {t \in Tickers : listed[t] = Never} :
       listed' = [t \in Tickers |-> IF t \in S THEN hour + 1 ELSE listed[t]]
  /\ UNCHANGED <<orders, positions, trades, events, killed, entry, guardian, snipe>>

Crash ==
  /\ \/ /\ <<"entry", entry.pc>> \in CrashPoints
        /\ entry' = IdleEntry /\ UNCHANGED <<guardian, snipe>>
     \/ /\ <<"guardian", guardian.pc>> \in CrashPoints
        /\ guardian' = IdleGuardian /\ UNCHANGED <<entry, snipe>>
     \/ /\ <<"snipe", snipe.pc>> \in CrashPoints
        /\ snipe' = IdleSnipe /\ UNCHANGED <<entry, guardian>>
  /\ UNCHANGED <<hour, listed, orders, positions, trades, events, killed>>

Next == EntryStep \/ GuardianStep \/ SnipeStep \/ HumanRestart \/ NextHour \/ Crash

Spec == Init /\ [][Next]_vars
=============================================================================
