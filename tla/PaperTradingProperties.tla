----------------------- MODULE PaperTradingProperties -----------------------
(***************************************************************************)
(* What the paper-trading core should guarantee.  The first group holds of *)
(* the code; the second group states what its comments and documents say   *)
(* and is refuted in the configurations named in the README.               *)
(***************************************************************************)
EXTENDS PaperTrading

OrderRow == [status : {"none", "pending_submit", "submitted", "filled"},
             qty : Nat, row : Nat]
Position == [ref : Ref, qty : Nat, status : {"open", "closed"}]
Trade    == [position : Nat, exitRef : Ref]
Sendings == [placed : Nat, executed : Nat, rejected : Nat]

LedgerType ==
  /\ orders \in [Ref -> OrderRow]
  /\ positions \in Seq(Position)
  /\ trades \in Seq(Trade)

ControlType ==
  /\ registry \subseteq Profiles /\ killed \subseteq Profiles
  /\ halt \in {"none", "halt", "clear"} /\ tripped \in BOOLEAN

GatewayType ==
  /\ broker \in [Ref -> Sendings]
  /\ held \in [Symbols -> Int]
  /\ fills \subseteq Ref

\* A process that has a reference or a position in hand has a valid one.
EntryType ==
  /\ entry \in [pc : EntryPCs, asOf : Days, fills : SUBSET Ref, todo : SUBSET Ref,
                cands : SUBSET (Symbols \X {Family[p] : p \in Profiles}),
                pool : SUBSET Profiles, ref : Ref \cup {NoRef}]
  /\ entry.pc \notin {"idle", "step0", "loop"} => entry.ref \in Ref

GuardianType ==
  /\ guardian \in [pc : GuardianPCs, asOf : Days, fills : SUBSET Ref,
                   todo : SUBSET DOMAIN positions, pos : Nat, ref : Ref \cup {NoRef}]
  /\ guardian.pc \notin {"idle", "snapshot", "loop"}
       => guardian.pos \in DOMAIN positions /\ guardian.ref \in Ref

ReconType ==
  /\ recon.pc \in ReconPCs
  /\ recon.unexplained \subseteq Symbols

OwnerType ==
  /\ owner \in [pc : OwnerPCs, pos : Nat, ref : Ref \cup {NoRef}]
  /\ owner.pc # "idle" => owner.pos \in DOMAIN positions /\ owner.ref \in Ref

\* Every variable has its type, and no process acts on a position or an order
\* reference that does not exist.
TypeOK ==
  /\ day \in Days
  /\ LedgerType /\ ControlType /\ GatewayType
  /\ EntryType /\ GuardianType /\ ReconType /\ OwnerType
  /\ issuedFor \in [Ref -> Nat]
  /\ lateBuys \in Nat

-----------------------------------------------------------------------------
(* Order submission.                                                       *)

\* The gateway never receives an order the ledger has no row for, whichever
\* process sends it and wherever a run dies (persist BEFORE submit).
PersistBeforeSubmit == \A r \in Ref : broker[r].placed > 0 => Recorded(r)

\* The gateway never receives the same order reference twice: a repeated
\* run, a retry after a crash or a second process cannot double-submit.
SubmittedAtMostOnce == \A r \in Ref : broker[r].placed <= 1

\* Every step of every process records, sends or executes at most one order,
\* in that order: the whole system implements the submission protocol.
Protocol == INSTANCE OrderProtocol WITH
  Refs     <- Ref,
  known    <- {r \in Ref : Recorded(r)},
  sent     <- [r \in Ref |-> broker[r].placed],
  executed <- [r \in Ref |-> broker[r].executed]
ImplementsProtocol == Protocol!Spec

\* Why it holds: references of different processes differ by their intent,
\* and a process about to send one has recorded it itself, unsent.
OwnIntent ==
  /\ entry.pc \in {"step1", "persist", "place", "mark"} => entry.ref.intent = "entry"
  /\ guardian.pc \in {"persist", "place", "mark"} => guardian.ref.intent \in ExitReasons
  /\ owner.pc # "idle" => owner.ref.intent = "exit_owner_close"

ReadyToSend(r) == Recorded(r) /\ broker[r].placed = 0

SubmissionInv ==
  /\ PersistBeforeSubmit /\ SubmittedAtMostOnce /\ OwnIntent
  /\ entry.pc = "place"    => ReadyToSend(entry.ref)
  /\ guardian.pc = "place" => ReadyToSend(guardian.ref)
  /\ owner.pc = "place"    => ReadyToSend(owner.ref)

\* An order the ledger calls submitted or filled did reach the gateway, and
\* one it calls filled was executed there: status never runs ahead.
StatusNeverAhead ==
  \A r \in Ref :
    /\ orders[r].status \in {"submitted", "filled"} => broker[r].placed > 0
    /\ orders[r].status = "filled" => broker[r].executed > 0

\* Why it holds: whatever a run takes for an execution is one, an execution is
\* of an order that was sent, and so is an order about to be marked.
Executed == {r \in Ref : broker[r].executed > 0}
StatusInv ==
  /\ StatusNeverAhead
  /\ fills \cup entry.fills \cup entry.todo \cup guardian.fills \subseteq Executed
  /\ \A r \in Executed : broker[r].placed > 0
  /\ entry.pc = "mark"    => broker[entry.ref].placed > 0
  /\ guardian.pc = "mark" => broker[guardian.ref].placed > 0
  /\ owner.pc = "mark"    => broker[owner.ref].placed > 0

EntryRefs == {r \in Ref : r.intent = "entry"}

\* A profile never has two unresolved BUY orders for one symbol: STEP 1 and
\* STEP 2 hold whatever the date in the order reference.
OneUnresolvedBuy ==
  \A r, q \in EntryRefs :
    /\ Unresolved(r) /\ Unresolved(q)
    /\ r.profile = q.profile /\ r.symbol = q.symbol
    => r = q

\* Why it holds: past the gate nothing is unresolved for the candidate but
\* the order of this run.
BuyInv ==
  /\ OneUnresolvedBuy
  /\ entry.pc = "persist" => EntryUnresolved = {}
  /\ entry.pc \in {"place", "mark"} => Unresolved(entry.ref)

\* After a halt is recorded (or a breaker trips) at most one BUY still
\* reaches the gateway until the halt ends: the one past the gate.
HaltLetsOneBuyThrough == lateBuys <= 1

\* Why it holds: no late BUY without a halt, and none while the run that may
\* send one is still past the gate.
HaltInv ==
  /\ HaltLetsOneBuyThrough
  /\ ~Halted => lateBuys = 0
  /\ entry.pc \in {"persist", "place"} => lateBuys = 0

\* A profile that is killed or retired while no entry run is under way never
\* sends another BUY: no later run assigns a candidate to it, and none sends
\* a BUY it had recorded before.
KilledStopsBuying ==
  \A r \in EntryRefs :
    [](/\ r.profile \in killed
       /\ entry.pc = "idle" /\ broker[r].placed = 0
       => [](broker[r].placed = 0))

-----------------------------------------------------------------------------
(* Positions.                                                              *)

\* Entry orders and open positions correspond one to one: healing never
\* opens a second position for an order that has one open.
OneOpenPositionPerOrder ==
  \A i, j \in OpenPositions : positions[i].ref = positions[j].ref => i = j

\* A symbol has at most one open position (while every profile of the book
\* stays live, so that a symbol keeps its profile).
OneOpenPositionPerSymbol ==
  \A i, j \in OpenPositions : positions[i].ref.symbol = positions[j].ref.symbol => i = j

BookedFor(i) == {t \in DOMAIN trades : trades[t].position = i}

\* Every closed position is booked as exactly one trade, and only closed
\* positions are.
BookedOnce ==
  \A i \in DOMAIN positions :
    Cardinality(BookedFor(i)) = (IF positions[i].status = "closed" THEN 1 ELSE 0)

\* The shares the gateway was sent, one by one.
Sent(s, side) ==
  UNION {{r} \X (1..(broker[r].placed * orders[r].qty)) :
           r \in {q \in Ref : q.symbol = s /\ Side(q) = side}}

\* The system never sends SELL orders for more shares than it sent BUYs.
NeverOversells ==
  \A s \in Symbols : Cardinality(Sent(s, "sell")) <= Cardinality(Sent(s, "buy"))

\* A BUY the gateway received leaves a local trace a later run will find: an
\* unresolved order, or a position opened for it.
BuysStayTracked ==
  \A r \in EntryRefs : broker[r].placed > 0 /\ entry.pc \notin {"step0_open", "step1_open"}
    => Unresolved(r) \/ \E i \in DOMAIN positions : positions[i].ref = r

-----------------------------------------------------------------------------
(* Claims the code does not keep in general.                               *)

\* guardian.py (4): a position skipped because of an unresolved sell has an
\* exit of its own in flight.  Asked of a position entered anew, by an order that
\* opened no other one, and of sells that are over: executed at the gateway, and
\* no longer among the executions it reports, so that every later tick skips too.
SkippedExitIsOwn ==
  \A i \in guardian.todo :
    /\ guardian.pc = "loop" /\ positions[i].status = "open"
    /\ \A j \in DOMAIN positions \ {i} : positions[j].ref # positions[i].ref
    /\ ExitsOf(i) # {} /\ ExitsOf(i) \subseteq Executed \ (fills \cup guardian.fills)
    => \E r \in ExitsOf(i) : issuedFor[r] = i

\* An entry order opens one position, once: healing does not re-open a
\* position the guardian has closed.
NoPhantomPosition ==
  \A i, j \in DOMAIN positions : positions[i].ref = positions[j].ref => i = j

-----------------------------------------------------------------------------
(* Reconciliation.                                                         *)

Unexcused(s) == held[s] # LocalQty(s) /\ Abs(held[s] - LocalQty(s)) # PendingQty(s)

\* The scheduler starts the entry pipeline and reconciliation again and
\* again, and a started run goes on until it ends or dies.
Fairness == WF_vars(ReconcileStep) /\ WF_vars(EntryStep)

FairSpec == Spec /\ Fairness

\* A difference that lasts and is not exactly the quantity of submitted
\* orders is answered by a halt, again and again if a human clears it.
LastingDivergenceHalts ==
  \A s \in Symbols : <>[]Unexcused(s) => []<>(halt = "halt")

Orphan(r) == Unresolved(r) /\ r \in fills /\ r.profile \in registry

\* An entry order whose executed fill the gateway still reports is healed
\* sooner or later, halted or not and whatever the calendar says, unless its
\* profile is retired meanwhile.
OrphansHealed == \A r \in EntryRefs : Orphan(r) ~> ~Orphan(r)
=============================================================================
