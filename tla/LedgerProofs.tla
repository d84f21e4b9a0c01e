---------------------------- MODULE LedgerProofs ----------------------------
(***************************************************************************)
(* The ledger's view of orders, for every instance of PaperTrading: a      *)
(* status never runs ahead of the gateway, a profile has at most one       *)
(* unresolved BUY for a symbol, an order at most one open position, a      *)
(* killed profile sends no further BUY, and, under a condition each, a     *)
(* closed position exactly one trade, a BUY that was sent a local trace,   *)
(* a symbol at most one open position, and no share is sold twice.         *)
(***************************************************************************)
EXTENDS PaperTradingProofs

-----------------------------------------------------------------------------
(* One unresolved BUY.                                                     *)

\* The rows of entry orders keep their status.
BuyRowsKept == \A r \in EntryRefs : orders'[r].status = orders[r].status

LEMMA InitBuy == Init => BuyInv
BY DEF Init, BuyInv, OneUnresolvedBuy, EntryRefs, Unresolved, IdleEntry

\* A step elsewhere that keeps the rows of entry orders keeps the invariant.
LEMMA KeptBuys ==
  ASSUME TypeOK, BuyInv, OwnIntent, BuyRowsKept, entry' = entry \/ entry' = IdleEntry
  PROVE  BuyInv'
<1>1. \A r \in EntryRefs : Unresolved(r)' = Unresolved(r)
  BY DEF BuyRowsKept, Unresolved
<1>2. OneUnresolvedBuy'
  BY <1>1 DEF BuyInv, OneUnresolvedBuy, EntryRefs
<1>3. CASE entry' = IdleEntry
  BY <1>2, <1>3 DEF BuyInv, IdleEntry
<1>4. CASE entry' = entry
  <2>1. entry.pc \in {"place", "mark"} => entry.ref \in EntryRefs
    BY DEF OwnIntent, EntryRefs, TypeOK, EntryType
  <2>2. entry.pc \in {"place", "mark"} => Unresolved(entry.ref)'
    BY <1>1, <1>4, <2>1 DEF BuyInv
  <2>3. EntryUnresolved' \subseteq EntryUnresolved
    BY <1>1, <1>4 DEF EntryUnresolved, UnresolvedOrders, Side, EntryRefs
  <2> QED  BY <1>2, <1>4, <2>2, <2>3 DEF BuyInv
<1> QED  BY <1>3, <1>4

\* Another process writes rows of its own intents only.
LEMMA SetStatusKeepsBuys ==
  ASSUME orders \in [Ref -> OrderRow], NEW x \in Ref, x.intent # "entry", NEW status,
         SetStatus(x, status)
  PROVE  BuyRowsKept
BY DEF SetStatus, BuyRowsKept, EntryRefs

LEMMA RecordOrderKeepsBuys ==
  ASSUME orders \in [Ref -> OrderRow], NEW x \in Ref, x.intent # "entry", NEW q,
         RecordOrder(x, q)
  PROVE  BuyRowsKept
BY DEF RecordOrder, BuyRowsKept, EntryRefs

LEMMA GuardianStepBuys ==
  ASSUME TypeOK, OwnIntent, GuardianStep
  PROVE  BuyRowsKept /\ entry' = entry
<1>a. orders \in [Ref -> OrderRow]
  BY DEF TypeOK, LedgerType
<1>b. entry' = entry
  BY DEF GuardianStep, GuardianStart, GuardianSnapshot, GuardianHold, GuardianHealExit,
         GuardianInFlight, GuardianExit, GuardianHealClose, GuardianPersist, GuardianPlace,
         GuardianMark, GuardianClose, GuardianFinish, GuardianOnly
<1>1. CASE orders' = orders
  BY <1>b, <1>1 DEF BuyRowsKept
<1>2. ASSUME NEW i \in guardian.todo, GuardianHealExit(i) PROVE BuyRowsKept
  <2>1. PICK r \in Ref : SetStatus(r, "filled") /\ r.intent # "entry"
    BY <1>2, HealExitIn
  <2> QED  BY <2>1, <1>a, SetStatusKeepsBuys
<1>3. ASSUME GuardianPersist \/ GuardianMark
      PROVE  guardian.ref \in Ref /\ guardian.ref.intent # "entry"
  <2>1. guardian.pc \in {"persist", "mark"}
    BY <1>3 DEF GuardianPersist, GuardianMark
  <2> QED  BY <2>1, ConstantsAssumption DEF OwnIntent, TypeOK, GuardianType
<1>4. CASE GuardianPersist /\ ~Recorded(guardian.ref)
  <2>1. RecordOrder(guardian.ref, positions[guardian.pos].qty)
    BY <1>4 DEF GuardianPersist
  <2> QED  BY <1>3, <1>4, <2>1, <1>a, <1>b, RecordOrderKeepsBuys
<1>5. CASE GuardianMark
  <2>1. SetStatus(guardian.ref, "submitted")
    BY <1>5 DEF GuardianMark
  <2> QED  BY <1>3, <1>5, <2>1, <1>a, <1>b, SetStatusKeepsBuys
<1>6. \/ orders' = orders \/ \E i \in guardian.todo : GuardianHealExit(i)
      \/ (GuardianPersist /\ ~Recorded(guardian.ref)) \/ GuardianMark
  BY DEF GuardianStep, GuardianStart, GuardianSnapshot, GuardianHold, GuardianHealClose,
         GuardianInFlight, GuardianExit, GuardianPersist, GuardianPlace, GuardianClose,
         GuardianFinish, ledger
<1> QED  BY <1>b, <1>1, <1>2, <1>4, <1>5, <1>6

LEMMA OwnerStepBuys ==
  ASSUME TypeOK, OwnIntent, OwnerStep
  PROVE  BuyRowsKept /\ entry' = entry
<1>a. orders \in [Ref -> OrderRow]
  BY DEF TypeOK, LedgerType
<1>b. entry' = entry
  BY DEF OwnerStep, OwnerStart, OwnerPersist, OwnerPlace, OwnerMark, OwnerClose, OwnerOnly
<1>1. CASE orders' = orders
  BY <1>b, <1>1 DEF BuyRowsKept
<1>2. ASSUME OwnerPersist \/ OwnerMark
      PROVE  owner.ref \in Ref /\ owner.ref.intent # "entry"
  BY <1>2 DEF OwnerPersist, OwnerMark, OwnIntent, TypeOK, OwnerType
<1>3. CASE OwnerPersist /\ ~Recorded(owner.ref)
  <2>1. RecordOrder(owner.ref, positions[owner.pos].qty)
    BY <1>3 DEF OwnerPersist
  <2> QED  BY <1>2, <1>3, <2>1, <1>a, <1>b, RecordOrderKeepsBuys
<1>4. CASE OwnerMark
  <2>1. SetStatus(owner.ref, "submitted")
    BY <1>4 DEF OwnerMark
  <2> QED  BY <1>2, <1>4, <2>1, <1>a, <1>b, SetStatusKeepsBuys
<1>5. orders' = orders \/ (OwnerPersist /\ ~Recorded(owner.ref)) \/ OwnerMark
  BY DEF OwnerStep, OwnerStart, OwnerPersist, OwnerPlace, OwnerClose, ledger
<1> QED  BY <1>b, <1>1, <1>3, <1>4, <1>5

LEMMA EntryStepBuys ==
  ASSUME TypeOK, OwnIntent, BuyInv, EntryStep
  PROVE  BuyInv'
<1>a. entry \in [pc : EntryPCs, asOf : Days, fills : SUBSET Ref, todo : SUBSET Ref,
                 cands : SUBSET (Symbols \X {Family[p] : p \in Profiles}),
                 pool : SUBSET Profiles, ref : Ref \cup {NoRef}]
  BY DEF TypeOK, EntryType
<1>b. orders \in [Ref -> OrderRow]
  BY DEF TypeOK, LedgerType
<1>1. ASSUME \A r \in Ref : Unresolved(r)' => Unresolved(r),
             entry' = IdleEntry \/ entry'.pc \notin {"persist", "place", "mark"}
      PROVE  BuyInv'
  BY <1>1 DEF BuyInv, OneUnresolvedBuy, EntryRefs, IdleEntry
<1>2. ASSUME orders' = orders PROVE \A r \in Ref : Unresolved(r)' = Unresolved(r)
  BY <1>2 DEF Unresolved
<1>3. CASE EntryStart \/ EntryHealOpen \/ EntryNothingToScan \/ EntryScan
           \/ EntryBlocked \/ EntryOpen \/ EntryDone
  <2>1. orders' = orders
    BY <1>3 DEF EntryStart, EntryHealOpen, EntryNothingToScan, EntryScan, EntryBlocked,
                EntryOpen, EntryDone
  <2>2. entry' = IdleEntry \/ entry'.pc \notin {"persist", "place", "mark"}
    BY <1>3, <1>a DEF EntryStart, EntryHealOpen, EntryNothingToScan, EntryScan, EntryBlocked,
                EntryOpen, EntryDone, IdleEntry
  <2> QED  BY <1>1, <1>2, <2>1, <2>2
<1>4. ASSUME NEW c \in entry.cands, EntryPick(c) PROVE BuyInv'
  <2>1. entry' = IdleEntry \/ entry'.pc = "step1"
    BY <1>4, <1>a DEF EntryPick
  <2>2. orders' = orders
    BY <1>4 DEF EntryPick
  <2> QED  BY <1>1, <1>2, <2>1, <2>2
<1>5. CASE EntryHeal
  <2>1. PICK r \in Ref : /\ SetStatus(r, "filled")
                         /\ entry' = [entry EXCEPT
                              !.pc = IF @ = "step0" THEN "step0_open" ELSE "step1_open",
                              !.todo = @ \ {r}, !.ref = r]
    BY <1>5, EntryDueIn
  <2>2. entry'.pc \in {"step0_open", "step1_open"}
    BY <2>1, <1>a
  <2>3. \A x \in Ref : Unresolved(x)' => Unresolved(x)
    BY <2>1, <1>b DEF SetStatus, Unresolved
  <2> QED  BY <1>1, <2>2, <2>3
<1>6. CASE EntryGate
  <2>1. entry'.pc = "persist" /\ entry'.ref = entry.ref /\ orders' = orders
    BY <1>6, <1>a DEF EntryGate
  <2>2. EntryUnresolved = {} /\ EntryUnresolved' = EntryUnresolved
    BY <1>6, <2>1 DEF EntryGate, EntryUnresolved, UnresolvedOrders, Unresolved
  <2> QED  BY <1>2, <2>1, <2>2 DEF BuyInv, OneUnresolvedBuy, EntryRefs
<1>7. CASE EntryPersist
  <2>1. CASE Recorded(entry.ref)
    BY <1>1, <1>2, <1>7, <2>1 DEF EntryPersist
  <2>2. CASE ~Recorded(entry.ref)
    <3>1. PICK n \in Quantities : RecordOrder(entry.ref, n)
      BY <1>7, <2>2 DEF EntryPersist
    <3>2. entry.pc = "persist" /\ entry.ref \in Ref /\ entry.ref.intent = "entry"
      BY <1>7 DEF EntryPersist, TypeOK, EntryType, OwnIntent
    <3>3. entry'.pc = "place" /\ entry'.ref = entry.ref
      BY <1>7, <2>2, <1>a DEF EntryPersist
    <3>4. /\ Unresolved(entry.ref)'
          /\ \A r \in Ref : r # entry.ref => Unresolved(r)' = Unresolved(r)
      <4>1. /\ orders'[entry.ref].status = "pending_submit"
            /\ \A r \in Ref : r # entry.ref => orders'[r] = orders[r]
        BY <3>1, <3>2, <1>b DEF RecordOrder
      <4> QED  BY <3>3, <4>1 DEF Unresolved
    <3>5. \A r \in EntryRefs : r.profile = entry.ref.profile /\ r.symbol = entry.ref.symbol
                               => ~Unresolved(r)
      BY <3>2 DEF BuyInv, EntryUnresolved, UnresolvedOrders, Side, EntryRefs
    <3>6. OneUnresolvedBuy'
      <4> SUFFICES ASSUME NEW r \in EntryRefs, NEW q \in EntryRefs,
                          Unresolved(r)', Unresolved(q)',
                          r.profile = q.profile, r.symbol = q.symbol
                   PROVE  r = q
        BY DEF OneUnresolvedBuy, EntryRefs
      <4>1. CASE r = entry.ref \/ q = entry.ref
        BY <3>4, <3>5, <4>1 DEF EntryRefs
      <4>2. CASE r # entry.ref /\ q # entry.ref
        BY <3>4, <4>2 DEF BuyInv, OneUnresolvedBuy, EntryRefs
      <4> QED  BY <4>1, <4>2
    <3> QED  BY <3>3, <3>4, <3>6 DEF BuyInv
  <2> QED  BY <2>1, <2>2
<1>8. CASE EntryPlace
  <2>1. /\ entry.pc = "place" /\ entry'.pc = "mark" /\ entry'.ref = entry.ref
        /\ entry.ref \in Ref /\ orders' = orders
    BY <1>8, <1>a DEF EntryPlace, TypeOK, EntryType
  <2> QED  BY <1>2, <2>1 DEF BuyInv, OneUnresolvedBuy, EntryRefs
<1>9. CASE EntryMark
  <2>1. /\ entry.pc = "mark" /\ entry'.pc = "open" /\ entry.ref \in Ref
        /\ SetStatus(entry.ref, "submitted")
    BY <1>9, <1>a DEF EntryMark, TypeOK, EntryType
  <2>2. Unresolved(entry.ref)
    BY <2>1 DEF BuyInv
  <2>3. \A r \in Ref : Unresolved(r)' => Unresolved(r)
    BY <2>1, <2>2, <1>b DEF SetStatus, Unresolved
  <2> QED  BY <1>1, <2>1, <2>3
<1> QED  BY <1>3, <1>4, <1>5, <1>6, <1>7, <1>8, <1>9 DEF EntryStep

LEMMA OtherStepsBuys ==
  ASSUME \/ ReconcileStep \/ HumanClear \/ NextDay \/ Crash
         \/ \E r \in Ref : BrokerFill(r) \/ BrokerReject(r)
         \/ \E p \in Profiles : Retire(p)
         \/ UNCHANGED vars
  PROVE  BuyRowsKept /\ (entry' = entry \/ entry' = IdleEntry)
<1>1. orders' = orders /\ (entry' = entry \/ entry' = IdleEntry)
  BY DEF ReconcileStep, ReconcileReadLocal, ReconcileReadPending, ReconcileSnapshot,
         ReconcileRecord, ReconOnly, HumanClear, NextDay, Crash, BrokerFill, BrokerReject,
         BrokerOnly, Retire, vars, ledger
<1> QED  BY <1>1 DEF BuyRowsKept

LEMMA BuySafe == Spec => []BuyInv
<1>1. TypeOK /\ OwnIntent /\ BuyInv /\ [Next]_vars => BuyInv'
  BY EntryStepBuys, GuardianStepBuys, OwnerStepBuys, OtherStepsBuys, KeptBuys DEF Next
<1>2. SubmissionInv => OwnIntent
  BY DEF SubmissionInv
<1> QED  BY InitBuy, <1>1, <1>2, TypeCorrect, SubmissionSafe, PTL DEF Spec

\* A profile never has two unresolved BUYs for one symbol, whatever their
\* dates, however often the nightly run repeats and wherever it dies.
THEOREM OneBuyAtATime == Spec => []OneUnresolvedBuy
<1>1. BuyInv => OneUnresolvedBuy
  BY DEF BuyInv
<1> QED  BY <1>1, BuySafe, PTL

-----------------------------------------------------------------------------
(* Status and gateway.                                                     *)

\* What a run takes for executions.
Believed == fills \cup entry.fills \cup entry.todo \cup guardian.fills

\* A step writes no status the gateway does not justify.
RowsJustified ==
  \A r \in Ref : \/ orders'[r].status = orders[r].status
                 \/ orders'[r].status = "pending_submit"
                 \/ orders'[r].status = "submitted" /\ broker'[r].placed > 0
                 \/ r \in Executed'

\* The gateway forgets nothing it was sent or executed.
GatewayGrows ==
  /\ \A r \in Ref : broker[r].placed > 0 => broker'[r].placed > 0
  /\ Executed \subseteq Executed'
  /\ \A r \in Executed' : broker'[r].placed > 0

\* No process becomes about to mark an order.
NoNewMark ==
  /\ entry'.pc = "mark" => entry.pc = "mark" /\ entry'.ref = entry.ref
  /\ guardian'.pc = "mark" => guardian.pc = "mark" /\ guardian'.ref = guardian.ref
  /\ owner'.pc = "mark" => owner.pc = "mark" /\ owner'.ref = owner.ref

LEMMA InitStatus == Init => StatusInv
BY DEF Init, StatusInv, StatusNeverAhead, Executed, IdleEntry, IdleGuardian, IdleOwner

LEMMA MarkRefs ==
  ASSUME TypeOK
  PROVE  /\ entry.pc = "mark" => entry.ref \in Ref
         /\ guardian.pc = "mark" => guardian.ref \in Ref
         /\ owner.pc = "mark" => owner.ref \in Ref
BY DEF TypeOK, EntryType, GuardianType, OwnerType

LEMMA StatusKept ==
  ASSUME TypeOK, StatusInv, RowsJustified, GatewayGrows,
         Believed' \subseteq Believed \cup Executed',
         entry'.pc = "mark" => broker'[entry'.ref].placed > 0,
         guardian'.pc = "mark" => broker'[guardian'.ref].placed > 0,
         owner'.pc = "mark" => broker'[owner'.ref].placed > 0
  PROVE  StatusInv'
<1>1. Believed' \subseteq Executed'
  BY DEF StatusInv, Believed, GatewayGrows
<1>2. StatusNeverAhead'
  <2> SUFFICES ASSUME NEW r \in Ref
               PROVE  /\ orders'[r].status \in {"submitted", "filled"} => broker'[r].placed > 0
                      /\ orders'[r].status = "filled" => r \in Executed'
    BY DEF StatusNeverAhead, Executed
  <2>1. CASE orders'[r].status = orders[r].status
    BY <2>1 DEF StatusInv, StatusNeverAhead, GatewayGrows, Executed
  <2>2. CASE r \in Executed'
    BY <2>2 DEF GatewayGrows
  <2> QED  BY <2>1, <2>2 DEF RowsJustified
<1> QED  BY <1>1, <1>2 DEF StatusInv, Believed, GatewayGrows

LEMMA StatusKeptQuietly ==
  ASSUME TypeOK, StatusInv, RowsJustified, GatewayGrows, NoNewMark,
         Believed' \subseteq Believed \cup Executed'
  PROVE  StatusInv'
BY StatusKept, MarkRefs DEF NoNewMark, GatewayGrows, StatusInv

LEMMA SameGateway ==
  ASSUME StatusInv, broker' = broker
  PROVE  GatewayGrows /\ Executed' = Executed
BY DEF GatewayGrows, Executed, StatusInv

LEMMA SetStatusJustified ==
  ASSUME orders \in [Ref -> OrderRow], NEW x \in Ref, NEW status, SetStatus(x, status),
         \/ status = "submitted" /\ broker'[x].placed > 0
         \/ x \in Executed'
  PROVE  RowsJustified
BY DEF SetStatus, OrderRow, RowsJustified

LEMMA RecordOrderJustified ==
  ASSUME orders \in [Ref -> OrderRow], NEW x \in Ref, NEW q, RecordOrder(x, q)
  PROVE  RowsJustified
<1>1. /\ orders'[x].status = "pending_submit"
      /\ \A r \in Ref : r # x => orders'[r] = orders[r]
  BY DEF RecordOrder
<1> QED  BY <1>1 DEF RowsJustified

LEMMA SendGrows ==
  ASSUME TypeOK, StatusInv, NEW x \in Ref, PlaceOrder(x)
  PROVE  GatewayGrows /\ broker'[x].placed > 0
<1>1. broker \in [Ref -> Sendings]
  BY DEF TypeOK, GatewayType
<1>2. /\ broker'[x].placed = broker[x].placed + 1 /\ broker[x].placed \in Nat
      /\ \A r \in Ref : r # x => broker'[r] = broker[r]
      /\ \A r \in Ref : broker'[r].executed = broker[r].executed
  BY <1>1 DEF PlaceOrder, Sendings
<1>3. Executed' = Executed
  BY <1>2 DEF Executed
<1> QED  BY <1>2, <1>3 DEF GatewayGrows, StatusInv, Executed

LEMMA EntryStepStatus ==
  ASSUME TypeOK, StatusInv, EntryStep
  PROVE  StatusInv'
<1>a. entry \in [pc : EntryPCs, asOf : Days, fills : SUBSET Ref, todo : SUBSET Ref,
                 cands : SUBSET (Symbols \X {Family[p] : p \in Profiles}),
                 pool : SUBSET Profiles, ref : Ref \cup {NoRef}]
  BY DEF TypeOK, EntryType
<1>b. orders \in [Ref -> OrderRow]
  BY DEF TypeOK, LedgerType
<1>c. UNCHANGED <<fills, guardian, owner>>
  BY DEF EntryStep, EntryStart, EntryHeal, EntryHealOpen, EntryNothingToScan, EntryScan,
         EntryPick, EntryBlocked, EntryGate, EntryPersist, EntryPlace, EntryMark, EntryOpen,
         EntryDone, EntryOnly
<1>1. ASSUME RowsJustified, broker' = broker, entry' = IdleEntry \/ entry'.pc # "mark",
             entry'.fills \cup entry'.todo \subseteq Believed
      PROVE  StatusInv'
  <2>1. Believed' \subseteq Believed
    BY <1>1, <1>c DEF Believed
  <2>2. NoNewMark
    BY <1>1, <1>c DEF NoNewMark, IdleEntry
  <2> QED  BY <1>1, <2>1, <2>2, SameGateway, StatusKeptQuietly
<1>2. ASSUME orders' = orders PROVE RowsJustified
  BY <1>2 DEF RowsJustified
<1>3. CASE EntryStart
  <2>1. orders' = orders /\ broker' = broker
    BY <1>3 DEF EntryStart
  <2>2. entry'.pc = "step0" /\ entry'.fills = fills /\ entry'.todo \subseteq fills
    BY <1>3 DEF EntryStart, IdleEntry
  <2> QED  BY <1>1, <1>2, <2>1, <2>2 DEF Believed
<1>4. CASE EntryHealOpen \/ EntryNothingToScan \/ EntryScan \/ EntryBlocked \/ EntryGate
           \/ EntryOpen \/ EntryDone
  <2>1. orders' = orders /\ broker' = broker
    BY <1>4 DEF EntryHealOpen, EntryNothingToScan, EntryScan, EntryBlocked, EntryGate,
                EntryOpen, EntryDone
  <2>2. \/ entry' = IdleEntry
        \/ entry'.pc # "mark" /\ entry'.fills = entry.fills /\ entry'.todo = entry.todo
    BY <1>4, <1>a DEF EntryHealOpen, EntryNothingToScan, EntryScan, EntryBlocked, EntryGate,
                EntryOpen, EntryDone
  <2> QED  BY <1>1, <1>2, <2>1, <2>2 DEF Believed, IdleEntry
<1>5. ASSUME NEW c \in entry.cands, EntryPick(c) PROVE StatusInv'
  <2>1. orders' = orders /\ broker' = broker
    BY <1>5 DEF EntryPick
  <2>2. \/ entry' = IdleEntry
        \/ entry'.pc # "mark" /\ entry'.fills = entry.fills /\ entry'.todo = entry.todo
    BY <1>5, <1>a DEF EntryPick
  <2> QED  BY <1>1, <1>2, <2>1, <2>2 DEF Believed, IdleEntry
<1>6. CASE EntryHeal
  <2>1. PICK r \in Ref : /\ SetStatus(r, "filled")
                         /\ entry' = [entry EXCEPT
                              !.pc = IF @ = "step0" THEN "step0_open" ELSE "step1_open",
                              !.todo = @ \ {r}, !.ref = r]
                         /\ r \in entry.todo \/ r \in entry.fills
    BY <1>6, EntryDueIn
  <2>2. broker' = broker
    BY <1>6 DEF EntryHeal
  <2>3. r \in Executed'
    BY <2>1, <2>2, SameGateway DEF StatusInv
  <2>4. entry'.pc # "mark" /\ entry'.fills \cup entry'.todo \subseteq Believed
    BY <2>1, <1>a DEF Believed
  <2> QED  BY <1>1, <1>b, <2>1, <2>2, <2>3, <2>4, SetStatusJustified
<1>7. CASE EntryPersist
  <2>1. broker' = broker
    BY <1>7 DEF EntryPersist
  <2>2. CASE Recorded(entry.ref)
    BY <1>1, <1>2, <1>7, <2>1, <2>2 DEF EntryPersist, IdleEntry
  <2>3. CASE ~Recorded(entry.ref)
    <3>1. PICK n \in Quantities : RecordOrder(entry.ref, n)
      BY <1>7, <2>3 DEF EntryPersist
    <3>2. entry.ref \in Ref
      BY <1>7 DEF EntryPersist, TypeOK, EntryType
    <3>3. entry'.pc = "place" /\ entry'.fills = entry.fills /\ entry'.todo = entry.todo
      BY <1>7, <2>3, <1>a DEF EntryPersist
    <3>4. RowsJustified
      BY <3>1, <3>2, <1>b, RecordOrderJustified
    <3> QED  BY <1>1, <2>1, <3>3, <3>4 DEF Believed
  <2> QED  BY <2>2, <2>3
<1>8. CASE EntryPlace
  <2>1. /\ entry.ref \in Ref /\ entry'.ref = entry.ref /\ entry'.fills = entry.fills
        /\ entry'.todo = entry.todo /\ orders' = orders /\ PlaceOrder(entry.ref)
    BY <1>8, <1>a DEF EntryPlace, TypeOK, EntryType
  <2>2. GatewayGrows /\ broker'[entry.ref].placed > 0
    BY <2>1, SendGrows
  <2>3. Believed' = Believed
    BY <2>1, <1>c DEF Believed
  <2>4. /\ guardian'.pc = "mark" => broker'[guardian'.ref].placed > 0
        /\ owner'.pc = "mark" => broker'[owner'.ref].placed > 0
    BY <2>2, <1>c, MarkRefs DEF GatewayGrows, StatusInv
  <2> QED  BY <1>2, <2>1, <2>2, <2>3, <2>4, StatusKept
<1>9. CASE EntryMark
  <2>1. /\ entry.pc = "mark" /\ entry.ref \in Ref /\ SetStatus(entry.ref, "submitted")
        /\ entry'.pc = "open" /\ entry'.fills = entry.fills /\ entry'.todo = entry.todo
        /\ broker' = broker
    BY <1>9, <1>a DEF EntryMark, TypeOK, EntryType
  <2>2. RowsJustified
    BY <2>1, <1>b, SetStatusJustified DEF StatusInv
  <2> QED  BY <1>1, <2>1, <2>2 DEF Believed
<1> QED  BY <1>3, <1>4, <1>5, <1>6, <1>7, <1>8, <1>9 DEF EntryStep

LEMMA GuardianStepStatus ==
  ASSUME TypeOK, StatusInv, GuardianStep
  PROVE  StatusInv'
<1>a. guardian \in [pc : GuardianPCs, asOf : Days, fills : SUBSET Ref,
                    todo : SUBSET DOMAIN positions, pos : Nat, ref : Ref \cup {NoRef}]
  BY DEF TypeOK, GuardianType
<1>b. orders \in [Ref -> OrderRow]
  BY DEF TypeOK, LedgerType
<1>c. UNCHANGED <<fills, entry, owner>>
  BY DEF GuardianStep, GuardianStart, GuardianSnapshot, GuardianHold, GuardianHealExit,
         GuardianInFlight, GuardianExit, GuardianHealClose, GuardianPersist, GuardianPlace,
         GuardianMark, GuardianClose, GuardianFinish, GuardianOnly
<1>1. ASSUME RowsJustified, broker' = broker, guardian' = IdleGuardian \/ guardian'.pc # "mark",
             guardian'.fills \subseteq Believed
      PROVE  StatusInv'
  <2>1. Believed' \subseteq Believed
    BY <1>1, <1>c DEF Believed
  <2>2. NoNewMark
    BY <1>1, <1>c DEF NoNewMark, IdleGuardian
  <2> QED  BY <1>1, <2>1, <2>2, SameGateway, StatusKeptQuietly
<1>2. ASSUME orders' = orders PROVE RowsJustified
  BY <1>2 DEF RowsJustified
<1>3. CASE GuardianStart \/ GuardianSnapshot \/ GuardianHealClose \/ GuardianClose
           \/ GuardianFinish
  <2>1. orders' = orders /\ broker' = broker
    BY <1>3 DEF GuardianStart, GuardianSnapshot, GuardianHealClose, GuardianClose,
                GuardianFinish, ledger
  <2>2. CASE GuardianStart
    <3>1. guardian'.pc = "snapshot" /\ guardian'.fills = {}
      BY <2>2 DEF GuardianStart, IdleGuardian
    <3> QED  BY <1>1, <1>2, <2>1, <3>1
  <2>3. CASE GuardianSnapshot
    <3>1. guardian'.pc = "loop" /\ guardian'.fills = fills
      BY <2>3, <1>a DEF GuardianSnapshot
    <3> QED  BY <1>1, <1>2, <2>1, <3>1 DEF Believed
  <2>4. CASE GuardianHealClose \/ GuardianClose
    <3>1. guardian'.pc = "loop" /\ guardian'.fills = guardian.fills
      BY <2>4, <1>a DEF GuardianHealClose, GuardianClose, GuardianNext
    <3> QED  BY <1>1, <1>2, <2>1, <3>1 DEF Believed
  <2>5. CASE GuardianFinish
    <3>1. guardian' = IdleGuardian /\ guardian'.fills = {}
      BY <2>5 DEF GuardianFinish, IdleGuardian
    <3> QED  BY <1>1, <1>2, <2>1, <3>1
  <2> QED  BY <1>3, <2>2, <2>3, <2>4, <2>5
<1>4. ASSUME NEW i \in guardian.todo,
             \/ GuardianHold(i) \/ GuardianInFlight(i)
             \/ \E reason \in ExitReasons : GuardianExit(i, reason)
      PROVE  StatusInv'
  <2>1. orders' = orders /\ broker' = broker
    BY <1>4 DEF GuardianHold, GuardianInFlight, GuardianExit, ledger
  <2>2. guardian'.pc # "mark" /\ guardian'.fills = guardian.fills
    BY <1>4, <1>a DEF GuardianHold, GuardianInFlight, GuardianExit, ExitFires
  <2> QED  BY <1>1, <1>2, <2>1, <2>2 DEF Believed
<1>5. ASSUME NEW i \in guardian.todo, GuardianHealExit(i) PROVE StatusInv'
  <2>1. PICK r \in Ref : /\ SetStatus(r, "filled") /\ r \in guardian.fills
                         /\ guardian' = [guardian EXCEPT !.pc = "heal_close", !.pos = i, !.ref = r]
    BY <1>5, HealExitIn
  <2>2. broker' = broker
    BY <1>5 DEF GuardianHealExit
  <2>3. r \in Executed'
    BY <2>1, <2>2, SameGateway DEF StatusInv
  <2>4. guardian'.pc # "mark" /\ guardian'.fills = guardian.fills
    BY <2>1, <1>a
  <2>5. RowsJustified
    BY <2>1, <2>3, <1>b, SetStatusJustified
  <2> QED  BY <1>1, <2>2, <2>4, <2>5 DEF Believed
<1>6. CASE GuardianPersist
  <2>1. broker' = broker
    BY <1>6 DEF GuardianPersist
  <2>2. CASE Recorded(guardian.ref)
    BY <1>1, <1>2, <1>6, <2>1, <2>2 DEF GuardianPersist, IdleGuardian
  <2>3. CASE ~Recorded(guardian.ref)
    <3>1. /\ RecordOrder(guardian.ref, positions[guardian.pos].qty)
          /\ guardian'.pc = "place" /\ guardian'.fills = guardian.fills
      BY <1>6, <2>3, <1>a DEF GuardianPersist
    <3>2. guardian.ref \in Ref
      BY <1>6 DEF GuardianPersist, TypeOK, GuardianType
    <3>3. RowsJustified
      BY <3>1, <3>2, <1>b, RecordOrderJustified
    <3> QED  BY <1>1, <2>1, <3>1, <3>3 DEF Believed
  <2> QED  BY <2>2, <2>3
<1>7. CASE GuardianPlace
  <2>1. /\ guardian.ref \in Ref /\ guardian'.ref = guardian.ref
        /\ guardian'.fills = guardian.fills /\ orders' = orders /\ PlaceOrder(guardian.ref)
    BY <1>7, <1>a DEF GuardianPlace, TypeOK, GuardianType, ledger
  <2>2. GatewayGrows /\ broker'[guardian.ref].placed > 0
    BY <2>1, SendGrows
  <2>3. Believed' = Believed
    BY <2>1, <1>c DEF Believed
  <2>4. /\ entry'.pc = "mark" => broker'[entry'.ref].placed > 0
        /\ owner'.pc = "mark" => broker'[owner'.ref].placed > 0
    BY <2>2, <1>c, MarkRefs DEF GatewayGrows, StatusInv
  <2> QED  BY <1>2, <2>1, <2>2, <2>3, <2>4, StatusKept
<1>8. CASE GuardianMark
  <2>1. /\ guardian.pc = "mark" /\ guardian.ref \in Ref /\ SetStatus(guardian.ref, "submitted")
        /\ guardian'.pc = "close" /\ guardian'.fills = guardian.fills /\ broker' = broker
    BY <1>8, <1>a DEF GuardianMark, TypeOK, GuardianType
  <2>2. RowsJustified
    BY <2>1, <1>b, SetStatusJustified DEF StatusInv
  <2> QED  BY <1>1, <2>1, <2>2 DEF Believed
<1> QED  BY <1>3, <1>4, <1>5, <1>6, <1>7, <1>8 DEF GuardianStep

LEMMA OwnerStepStatus ==
  ASSUME TypeOK, StatusInv, OwnerStep
  PROVE  StatusInv'
<1>a. owner \in [pc : OwnerPCs, pos : Nat, ref : Ref \cup {NoRef}]
  BY DEF TypeOK, OwnerType
<1>b. orders \in [Ref -> OrderRow]
  BY DEF TypeOK, LedgerType
<1>c. UNCHANGED <<fills, entry, guardian>> /\ Believed' = Believed
  BY DEF OwnerStep, OwnerStart, OwnerPersist, OwnerPlace, OwnerMark, OwnerClose, OwnerOnly,
         Believed
<1>1. ASSUME RowsJustified, broker' = broker, owner'.pc # "mark" PROVE StatusInv'
  BY <1>1, <1>c, SameGateway, StatusKeptQuietly DEF NoNewMark
<1>2. ASSUME orders' = orders PROVE RowsJustified
  BY <1>2 DEF RowsJustified
<1>3. CASE (\E s \in Symbols : OwnerStart(s)) \/ OwnerClose
  <2>1. orders' = orders /\ broker' = broker /\ owner'.pc # "mark"
    BY <1>3 DEF OwnerStart, OwnerClose, IdleOwner, ledger
  <2> QED  BY <1>1, <1>2, <2>1
<1>4. CASE OwnerPersist
  <2>1. broker' = broker
    BY <1>4 DEF OwnerPersist
  <2>2. CASE Recorded(owner.ref)
    BY <1>1, <1>2, <1>4, <2>1, <2>2 DEF OwnerPersist, IdleOwner
  <2>3. CASE ~Recorded(owner.ref)
    <3>1. RecordOrder(owner.ref, positions[owner.pos].qty) /\ owner'.pc = "place"
      BY <1>4, <2>3, <1>a DEF OwnerPersist
    <3>2. owner.ref \in Ref
      BY <1>4 DEF OwnerPersist, TypeOK, OwnerType
    <3> QED  BY <1>1, <1>b, <2>1, <3>1, <3>2, RecordOrderJustified
  <2> QED  BY <2>2, <2>3
<1>5. CASE OwnerPlace
  <2>1. /\ owner.ref \in Ref /\ owner'.ref = owner.ref /\ orders' = orders
        /\ PlaceOrder(owner.ref)
    BY <1>5, <1>a DEF OwnerPlace, TypeOK, OwnerType, ledger
  <2>2. GatewayGrows /\ broker'[owner.ref].placed > 0
    BY <2>1, SendGrows
  <2>3. /\ entry'.pc = "mark" => broker'[entry'.ref].placed > 0
        /\ guardian'.pc = "mark" => broker'[guardian'.ref].placed > 0
    BY <2>2, <1>c, MarkRefs DEF GatewayGrows, StatusInv
  <2> QED  BY <1>2, <1>c, <2>1, <2>2, <2>3, StatusKept
<1>6. CASE OwnerMark
  <2>1. /\ owner.pc = "mark" /\ owner.ref \in Ref /\ SetStatus(owner.ref, "submitted")
        /\ owner'.pc = "close" /\ broker' = broker
    BY <1>6, <1>a DEF OwnerMark, TypeOK, OwnerType
  <2>2. RowsJustified
    BY <2>1, <1>b, SetStatusJustified DEF StatusInv
  <2> QED  BY <1>1, <2>1, <2>2
<1> QED  BY <1>3, <1>4, <1>5, <1>6 DEF OwnerStep

\* The gateway reports only what it executed, and may stop reporting it.
LEMMA OtherStepsStatus ==
  ASSUME TypeOK, StatusInv,
         \/ ReconcileStep \/ HumanClear \/ NextDay \/ Crash
         \/ \E r \in Ref : BrokerFill(r) \/ BrokerReject(r)
         \/ \E p \in Profiles : Retire(p)
         \/ UNCHANGED vars
  PROVE  StatusInv'
<1>1. /\ orders' = orders
      /\ entry' = entry \/ entry' = IdleEntry
      /\ guardian' = guardian \/ guardian' = IdleGuardian
      /\ owner' = owner \/ owner' = IdleOwner
  BY DEF ReconcileStep, ReconcileReadLocal, ReconcileReadPending, ReconcileSnapshot,
         ReconcileRecord, ReconOnly, HumanClear, NextDay, Crash, BrokerFill, BrokerReject,
         BrokerOnly, Retire, vars, ledger
<1>2. RowsJustified /\ NoNewMark
  BY <1>1 DEF RowsJustified, NoNewMark, IdleEntry, IdleGuardian, IdleOwner
<1>3. ASSUME GatewayGrows, fills' \subseteq fills \cup Executed' PROVE StatusInv'
  <2>1. Believed' \subseteq Believed \cup Executed'
    BY <1>1, <1>3 DEF Believed, IdleEntry, IdleGuardian
  <2> QED  BY <1>2, <1>3, <2>1, StatusKeptQuietly
<1>4. ASSUME NEW x \in Ref, BrokerFill(x) PROVE StatusInv'
  <2>1. /\ broker[x].placed \in Nat /\ broker[x].executed \in Nat /\ broker[x].rejected \in Nat
        /\ broker[x].placed > broker[x].executed + broker[x].rejected
    BY <1>4 DEF BrokerFill, Working, TypeOK, GatewayType, Sendings
  <2>2. /\ broker'[x].executed = broker[x].executed + 1
        /\ \A r \in Ref : r # x => broker'[r] = broker[r]
        /\ \A r \in Ref : broker'[r].placed = broker[r].placed
    BY <1>4 DEF BrokerFill, TypeOK, GatewayType, Sendings
  <2>3. Executed' = Executed \cup {x}
    BY <2>1, <2>2 DEF Executed
  <2>4. GatewayGrows
    BY <2>1, <2>2, <2>3 DEF GatewayGrows, StatusInv, Executed
  <2> QED  BY <1>3, <1>4, <2>3, <2>4 DEF BrokerFill
<1>5. ASSUME NEW x \in Ref, BrokerReject(x) PROVE StatusInv'
  <2>1. /\ \A r \in Ref : broker'[r].placed = broker[r].placed
        /\ \A r \in Ref : broker'[r].executed = broker[r].executed
    BY <1>5 DEF BrokerReject, TypeOK, GatewayType, Sendings
  <2>2. GatewayGrows
    BY <2>1 DEF GatewayGrows, StatusInv, Executed
  <2> QED  BY <1>3, <1>5, <2>2 DEF BrokerReject
<1>6. CASE ReconcileStep \/ HumanClear \/ NextDay \/ Crash
           \/ (\E p \in Profiles : Retire(p)) \/ UNCHANGED vars
  <2>1. broker' = broker /\ fills' \subseteq fills
    BY <1>6 DEF ReconcileStep, ReconcileReadLocal, ReconcileReadPending, ReconcileSnapshot,
                ReconcileRecord, ReconOnly, HumanClear, NextDay, Crash, Retire, vars, gateway
  <2> QED  BY <1>3, <2>1, SameGateway
<1> QED  BY <1>4, <1>5, <1>6

LEMMA StatusSafe == Spec => []StatusInv
<1>1. TypeOK /\ StatusInv /\ [Next]_vars => StatusInv'
  BY EntryStepStatus, GuardianStepStatus, OwnerStepStatus, OtherStepsStatus DEF Next
<1> QED  BY InitStatus, <1>1, TypeCorrect, PTL DEF Spec

\* The ledger never calls an order submitted that the gateway has not
\* received, nor filled one it has not executed.
THEOREM StatusFollows == Spec => []StatusNeverAhead
<1>1. StatusInv => StatusNeverAhead
  BY DEF StatusInv
<1> QED  BY <1>1, StatusSafe, PTL

-----------------------------------------------------------------------------
(* One open position per order.                                            *)

\* Why it holds: positions are of recorded orders, and the order a run is
\* about to open a position for at the end of its submission was recorded by
\* it when there was none.
PositionsInv ==
  /\ OneOpenPositionPerOrder
  /\ \A i \in DOMAIN positions : Recorded(positions[i].ref)
  /\ entry.pc \in {"step0_open", "step1_open", "place", "mark", "open"} => Recorded(entry.ref)
  /\ entry.pc \in {"place", "mark", "open"} =>
       \A i \in DOMAIN positions : positions[i].ref # entry.ref

\* A step that opens no position.
BookShrinks ==
  /\ DOMAIN positions' = DOMAIN positions
  /\ \A i \in DOMAIN positions :
       /\ positions'[i].ref = positions[i].ref /\ positions'[i].qty = positions[i].qty
       /\ positions'[i].status = "open" => positions[i].status = "open"

\* No row is ever deleted.
RowsStay == \A r \in Ref : Recorded(r) => Recorded(r)'

LEMMA AfterOpenPosition ==
  ASSUME positions \in Seq(Position), NEW r \in Ref, NEW q, OpenPosition(r, q)
  PROVE  /\ Len(positions) \in Nat /\ DOMAIN positions = 1..Len(positions)
         /\ DOMAIN positions' = 1..(Len(positions) + 1)
         /\ \A i \in DOMAIN positions : positions'[i] = positions[i]
         /\ positions'[Len(positions) + 1].ref = r
         /\ positions'[Len(positions) + 1].status = "open"
BY DEF OpenPosition

LEMMA AfterClosePosition ==
  ASSUME positions \in Seq(Position), NEW i \in DOMAIN positions, NEW r, ClosePosition(i, r)
  PROVE  /\ BookShrinks /\ positions'[i].status = "closed"
         /\ \A j \in DOMAIN positions : j # i => positions'[j] = positions[j]
<1>1. /\ DOMAIN positions' = DOMAIN positions
      /\ positions'[i] = [positions[i] EXCEPT !.status = "closed"]
      /\ \A j \in DOMAIN positions : j # i => positions'[j] = positions[j]
  BY DEF ClosePosition
<1>2. /\ positions'[i].status = "closed"
      /\ positions'[i].ref = positions[i].ref /\ positions'[i].qty = positions[i].qty
  BY <1>1, PositionAt DEF Position
<1> QED  BY <1>1, <1>2 DEF BookShrinks

LEMMA SameBook == positions' = positions => BookShrinks
BY DEF BookShrinks

LEMMA GuardianBook ==
  ASSUME TypeOK, GuardianStep
  PROVE  BookShrinks
<1>a. positions \in Seq(Position)
  BY DEF TypeOK, LedgerType
<1>1. guardian.pc \in {"heal_close", "close"} => guardian.pos \in DOMAIN positions
  BY DEF TypeOK, GuardianType
<1>2. \/ positions' = positions
      \/ /\ guardian.pc \in {"heal_close", "close"}
         /\ ClosePosition(guardian.pos, guardian.ref)
  BY DEF GuardianStep, GuardianStart, GuardianSnapshot, GuardianHold, GuardianHealExit,
         GuardianInFlight, GuardianExit, GuardianHealClose, GuardianPersist, GuardianPlace,
         GuardianMark, GuardianClose, GuardianFinish, ledger
<1> QED  BY <1>a, <1>1, <1>2, SameBook, AfterClosePosition

LEMMA OwnerBook ==
  ASSUME TypeOK, OwnerStep
  PROVE  BookShrinks
<1>a. positions \in Seq(Position)
  BY DEF TypeOK, LedgerType
<1>1. owner.pc = "close" => owner.pos \in DOMAIN positions
  BY DEF TypeOK, OwnerType
<1>2. \/ positions' = positions
      \/ owner.pc = "close" /\ ClosePosition(owner.pos, owner.ref)
  BY DEF OwnerStep, OwnerStart, OwnerPersist, OwnerPlace, OwnerMark, OwnerClose, ledger
<1> QED  BY <1>a, <1>1, <1>2, SameBook, AfterClosePosition

LEMMA OtherBook ==
  ASSUME \/ ReconcileStep \/ HumanClear \/ NextDay \/ Crash
         \/ \E r \in Ref : BrokerFill(r) \/ BrokerReject(r)
         \/ \E p \in Profiles : Retire(p)
         \/ UNCHANGED vars
  PROVE  BookShrinks /\ trades' = trades
<1>1. positions' = positions /\ trades' = trades
  BY DEF ReconcileStep, ReconcileReadLocal, ReconcileReadPending, ReconcileSnapshot,
         ReconcileRecord, ReconOnly, HumanClear, NextDay, Crash, BrokerFill, BrokerReject,
         BrokerOnly, Retire, vars, ledger
<1> QED  BY <1>1, SameBook

LEMMA SetStatusStays ==
  ASSUME orders \in [Ref -> OrderRow], NEW x \in Ref, NEW status \in {"submitted", "filled"},
         SetStatus(x, status)
  PROVE  RowsStay /\ Recorded(x)'
BY DEF SetStatus, RowsStay, Recorded, OrderRow

LEMMA RecordOrderStays ==
  ASSUME orders \in [Ref -> OrderRow], NEW x \in Ref, NEW q, RecordOrder(x, q)
  PROVE  RowsStay /\ Recorded(x)'
<1>1. /\ orders'[x].status = "pending_submit"
      /\ \A r \in Ref : r # x => orders'[r] = orders[r]
  BY DEF RecordOrder
<1> QED  BY <1>1 DEF RowsStay, Recorded

LEMMA SameRows == orders' = orders => RowsStay
BY DEF RowsStay, Recorded

LEMMA GuardianRowsStay ==
  ASSUME TypeOK, GuardianStep
  PROVE  RowsStay
<1>a. orders \in [Ref -> OrderRow]
  BY DEF TypeOK, LedgerType
<1>1. ASSUME NEW i \in guardian.todo, GuardianHealExit(i) PROVE RowsStay
  <2>1. PICK r \in Ref : SetStatus(r, "filled")
    BY <1>1, HealExitIn
  <2> QED  BY <1>a, <2>1, SetStatusStays
<1>2. CASE GuardianPersist
  <2>1. guardian.ref \in Ref
    BY <1>2 DEF GuardianPersist, TypeOK, GuardianType
  <2>2. orders' = orders \/ RecordOrder(guardian.ref, positions[guardian.pos].qty)
    BY <1>2 DEF GuardianPersist
  <2> QED  BY <1>a, <2>1, <2>2, SameRows, RecordOrderStays
<1>3. CASE GuardianMark
  <2>1. guardian.ref \in Ref /\ SetStatus(guardian.ref, "submitted")
    BY <1>3 DEF GuardianMark, TypeOK, GuardianType
  <2> QED  BY <1>a, <2>1, SetStatusStays
<1>4. \/ orders' = orders \/ GuardianPersist \/ GuardianMark
      \/ \E i \in guardian.todo : GuardianHealExit(i)
  BY DEF GuardianStep, GuardianStart, GuardianSnapshot, GuardianHold, GuardianHealClose,
         GuardianInFlight, GuardianExit, GuardianPlace, GuardianClose, GuardianFinish, ledger
<1> QED  BY <1>1, <1>2, <1>3, <1>4, SameRows

LEMMA OwnerRowsStay ==
  ASSUME TypeOK, OwnerStep
  PROVE  RowsStay
<1>a. orders \in [Ref -> OrderRow]
  BY DEF TypeOK, LedgerType
<1>1. CASE OwnerPersist
  <2>1. owner.ref \in Ref
    BY <1>1 DEF OwnerPersist, TypeOK, OwnerType
  <2>2. orders' = orders \/ RecordOrder(owner.ref, positions[owner.pos].qty)
    BY <1>1 DEF OwnerPersist
  <2> QED  BY <1>a, <2>1, <2>2, SameRows, RecordOrderStays
<1>2. CASE OwnerMark
  <2>1. owner.ref \in Ref /\ SetStatus(owner.ref, "submitted")
    BY <1>2 DEF OwnerMark, TypeOK, OwnerType
  <2> QED  BY <1>a, <2>1, SetStatusStays
<1>3. orders' = orders \/ OwnerPersist \/ OwnerMark
  BY DEF OwnerStep, OwnerStart, OwnerPlace, OwnerClose, ledger
<1> QED  BY <1>1, <1>2, <1>3, SameRows

LEMMA OtherRowsStay ==
  ASSUME \/ ReconcileStep \/ HumanClear \/ NextDay \/ Crash
         \/ \E r \in Ref : BrokerFill(r) \/ BrokerReject(r)
         \/ \E p \in Profiles : Retire(p)
         \/ UNCHANGED vars
  PROVE  RowsStay /\ (entry' = entry \/ entry' = IdleEntry)
<1>1. orders' = orders /\ (entry' = entry \/ entry' = IdleEntry)
  BY DEF ReconcileStep, ReconcileReadLocal, ReconcileReadPending, ReconcileSnapshot,
         ReconcileRecord, ReconOnly, HumanClear, NextDay, Crash, BrokerFill, BrokerReject,
         BrokerOnly, Retire, vars, ledger
<1> QED  BY <1>1, SameRows

LEMMA InitPositions == Init => PositionsInv
BY DEF Init, PositionsInv, OneOpenPositionPerOrder, OpenPositions, IdleEntry

\* What a run knows of its order survives every step that opens nothing.
LEMMA PositionsKept ==
  ASSUME TypeOK, PositionsInv, BookShrinks, RowsStay,
         \/ entry' = entry
         \/ entry'.pc \notin {"step0_open", "step1_open", "place", "mark", "open"}
         \/ entry'.pc \in {"step0_open", "step1_open"} /\ orders'[entry'.ref].status # "none"
         \/ /\ entry.pc \in {"place", "mark"} /\ entry'.pc \in {"mark", "open"}
            /\ entry'.ref = entry.ref
  PROVE  PositionsInv'
<1>1. positions \in Seq(Position) /\ \A i \in DOMAIN positions : positions[i].ref \in Ref
  BY PositionAt DEF TypeOK, LedgerType
<1>2. OneOpenPositionPerOrder'
  <2>1. OpenPositions' \subseteq OpenPositions
    BY DEF OpenPositions, BookShrinks
  <2> SUFFICES ASSUME NEW i \in OpenPositions', NEW j \in OpenPositions',
                      positions'[i].ref = positions'[j].ref
               PROVE  i = j
    BY DEF OneOpenPositionPerOrder
  <2>2. i \in OpenPositions /\ j \in OpenPositions
    BY <2>1
  <2>3. positions[i].ref = positions[j].ref
    BY <2>2 DEF OpenPositions, BookShrinks
  <2> QED  BY <2>2, <2>3 DEF PositionsInv, OneOpenPositionPerOrder
<1>3. \A i \in DOMAIN positions' : orders'[positions'[i].ref].status # "none"
  BY <1>1 DEF BookShrinks, RowsStay, PositionsInv, Recorded
<1>4. entry.pc \in {"step0_open", "step1_open", "place", "mark", "open"} => entry.ref \in Ref
  BY DEF TypeOK, EntryType
<1>5. /\ entry'.pc \in {"step0_open", "step1_open", "place", "mark", "open"} =>
           orders'[entry'.ref].status # "none"
      /\ entry'.pc \in {"place", "mark", "open"} =>
           \A i \in DOMAIN positions : positions[i].ref # entry'.ref
  BY <1>4 DEF PositionsInv, RowsStay, Recorded
<1> QED  BY <1>2, <1>3, <1>5 DEF PositionsInv, BookShrinks, Recorded

LEMMA EntryStepPositions ==
  ASSUME TypeOK, PositionsInv, EntryStep
  PROVE  PositionsInv'
<1>a. entry \in [pc : EntryPCs, asOf : Days, fills : SUBSET Ref, todo : SUBSET Ref,
                 cands : SUBSET (Symbols \X {Family[p] : p \in Profiles}),
                 pool : SUBSET Profiles, ref : Ref \cup {NoRef}]
  BY DEF TypeOK, EntryType
<1>b. orders \in [Ref -> OrderRow] /\ positions \in Seq(Position)
  BY DEF TypeOK, LedgerType
<1>1. CASE EntryStart \/ EntryNothingToScan \/ EntryScan \/ EntryBlocked \/ EntryGate
           \/ EntryDone
  <2>1. orders' = orders /\ positions' = positions
    BY <1>1 DEF EntryStart, EntryNothingToScan, EntryScan, EntryBlocked, EntryGate, EntryDone
  <2>2. EntryStart \/ EntryNothingToScan \/ EntryDone => entry'.pc \in {"idle", "step0"}
    <3>1. ASSUME EntryStart PROVE entry'.pc = "step0"
      BY <3>1 DEF EntryStart, IdleEntry
    <3>2. EntryNothingToScan \/ EntryDone => entry'.pc = "idle"
      BY DEF EntryNothingToScan, EntryDone, IdleEntry
    <3> QED  BY <3>1, <3>2
  <2>3. EntryScan \/ EntryBlocked \/ EntryGate => entry'.pc \in {"loop", "persist"}
    BY <1>a DEF EntryScan, EntryBlocked, EntryGate
  <2>5. entry'.pc \notin {"step0_open", "step1_open", "place", "mark", "open"}
    BY <1>1, <2>2, <2>3
  <2>4. BookShrinks /\ RowsStay
    BY <2>1, SameRows, SameBook
  <2> QED  BY <2>4, <2>5, PositionsKept
<1>2. ASSUME NEW c \in entry.cands, EntryPick(c) PROVE PositionsInv'
  <2>1. orders' = orders /\ positions' = positions
    BY <1>2 DEF EntryPick
  <2>2. entry'.pc \in {"idle", "step1"}
    BY <1>2, <1>a DEF EntryPick, IdleEntry
  <2> QED  BY <2>1, <2>2, SameRows, SameBook, PositionsKept
<1>3. CASE EntryHeal
  <2>1. PICK r \in Ref : /\ SetStatus(r, "filled")
                         /\ entry' = [entry EXCEPT
                              !.pc = IF @ = "step0" THEN "step0_open" ELSE "step1_open",
                              !.todo = @ \ {r}, !.ref = r]
    BY <1>3, EntryDueIn
  <2>2. entry'.pc \in {"step0_open", "step1_open"} /\ entry'.ref = r
    BY <2>1, <1>a
  <2>3. RowsStay /\ orders'[r].status # "none"
    BY <2>1, <1>b, SetStatusStays DEF Recorded
  <2>4. positions' = positions
    BY <1>3 DEF EntryHeal
  <2> QED  BY <2>2, <2>3, <2>4, SameBook, PositionsKept
<1>4. CASE EntryPersist
  <2>1. positions' = positions /\ entry.ref \in Ref
    BY <1>4 DEF EntryPersist, TypeOK, EntryType
  <2>2. CASE Recorded(entry.ref)
    <3>1. orders' = orders /\ entry'.pc = "idle"
      BY <1>4, <2>2 DEF EntryPersist, IdleEntry
    <3> QED  BY <2>1, <3>1, SameRows, SameBook, PositionsKept
  <2>3. CASE ~Recorded(entry.ref)
    <3>1. PICK q \in Quantities : RecordOrder(entry.ref, q)
      BY <1>4, <2>3 DEF EntryPersist
    <3>2. entry'.pc = "place" /\ entry'.ref = entry.ref
      BY <1>4, <2>3, <1>a DEF EntryPersist
    <3>3. RowsStay /\ orders'[entry.ref].status # "none"
      BY <3>1, <2>1, <1>b, RecordOrderStays DEF Recorded
    <3>4. \A i \in DOMAIN positions : positions[i].ref # entry.ref
      BY <2>3 DEF PositionsInv
    <3>5. \A i \in DOMAIN positions : positions[i].ref \in Ref
      BY <1>b, PositionAt
    <3>6. \A i \in DOMAIN positions' : orders'[positions'[i].ref].status # "none"
      BY <2>1, <3>3, <3>5 DEF PositionsInv, RowsStay, Recorded
    <3>7. OneOpenPositionPerOrder'
      BY <2>1 DEF PositionsInv, OneOpenPositionPerOrder, OpenPositions
    <3> QED  BY <2>1, <3>2, <3>3, <3>4, <3>6, <3>7 DEF PositionsInv, Recorded
  <2> QED  BY <2>2, <2>3
<1>5. CASE EntryPlace \/ EntryMark
  <2>1. /\ positions' = positions /\ entry.ref \in Ref /\ entry'.ref = entry.ref
        /\ entry.pc \in {"place", "mark"} /\ entry'.pc \in {"mark", "open"}
    BY <1>5, <1>a DEF EntryPlace, EntryMark, TypeOK, EntryType
  <2>2. orders' = orders \/ SetStatus(entry.ref, "submitted")
    BY <1>5 DEF EntryPlace, EntryMark
  <2>3. RowsStay
    BY <2>1, <2>2, <1>b, SameRows, SetStatusStays
  <2> QED  BY <2>1, <2>3, SameBook, PositionsKept
<1>6. ASSUME NEW q, OpenPosition(entry.ref, q), orders' = orders, entry.ref \in Ref,
             Recorded(entry.ref), ~HasOpenPositionFor(entry.ref),
             entry'.pc \in {"step0", "loop"}
      PROVE  PositionsInv'
  <2> DEFINE n == Len(positions)
  <2>1. /\ n \in Nat /\ DOMAIN positions = 1..n /\ DOMAIN positions' = 1..(n + 1)
        /\ \A i \in 1..n : positions'[i] = positions[i]
        /\ positions'[n + 1].ref = entry.ref /\ positions'[n + 1].status = "open"
    BY <1>6, <1>b, AfterOpenPosition
  <2> HIDE DEF n
  <2>2. OpenPositions' = OpenPositions \cup {n + 1}
    BY <2>1 DEF OpenPositions
  <2>3. \A i \in OpenPositions : positions[i].ref # entry.ref
    BY <1>6 DEF HasOpenPositionFor
  <2>4. OneOpenPositionPerOrder'
    <3> SUFFICES ASSUME NEW i \in OpenPositions', NEW j \in OpenPositions',
                        positions'[i].ref = positions'[j].ref
                 PROVE  i = j
      BY DEF OneOpenPositionPerOrder
    <3>1. \A k \in OpenPositions : positions'[k].ref = positions[k].ref
      BY <2>1 DEF OpenPositions
    <3> QED  BY <2>1, <2>2, <2>3, <3>1 DEF PositionsInv, OneOpenPositionPerOrder
  <2>5. \A i \in DOMAIN positions' : orders'[positions'[i].ref].status # "none"
    BY <1>6, <2>1 DEF PositionsInv, Recorded
  <2> QED  BY <1>6, <2>4, <2>5 DEF PositionsInv, Recorded
<1>7. CASE EntryHealOpen
  <2>1. /\ entry.pc \in {"step0_open", "step1_open"} /\ entry.ref \in Ref
        /\ Recorded(entry.ref) /\ orders' = orders /\ entry'.pc \in {"step0", "loop"}
    BY <1>7, <1>a DEF EntryHealOpen, TypeOK, EntryType, PositionsInv
  <2>2. CASE HasOpenPositionFor(entry.ref)
    <3>1. positions' = positions
      BY <1>7, <2>2 DEF EntryHealOpen
    <3> QED  BY <2>1, <3>1, SameRows, SameBook, PositionsKept
  <2>3. CASE ~HasOpenPositionFor(entry.ref)
    <3>1. OpenPosition(entry.ref, orders[entry.ref].qty)
      BY <1>7, <2>3 DEF EntryHealOpen
    <3> QED  BY <1>6, <2>1, <2>3, <3>1
  <2> QED  BY <2>2, <2>3
<1>8. CASE EntryOpen
  <2>1. /\ entry.pc = "open" /\ entry.ref \in Ref /\ orders' = orders /\ entry'.pc = "loop"
        /\ OpenPosition(entry.ref, orders[entry.ref].qty)
    BY <1>8, <1>a DEF EntryOpen, TypeOK, EntryType
  <2>2. Recorded(entry.ref) /\ ~HasOpenPositionFor(entry.ref)
    BY <2>1 DEF PositionsInv, HasOpenPositionFor, OpenPositions
  <2> QED  BY <1>6, <2>1, <2>2
<1> QED  BY <1>1, <1>2, <1>3, <1>4, <1>5, <1>7, <1>8 DEF EntryStep

LEMMA PositionsStep == TypeOK /\ PositionsInv /\ [Next]_vars => PositionsInv'
<1> SUFFICES ASSUME TypeOK, PositionsInv, [Next]_vars PROVE PositionsInv'
  OBVIOUS
<1>1. CASE EntryStep
  BY <1>1, EntryStepPositions
<1>2. CASE GuardianStep
  <2>1. entry' = entry
    BY <1>2 DEF GuardianStep, GuardianStart, GuardianSnapshot, GuardianHold, GuardianHealExit,
         GuardianInFlight, GuardianExit, GuardianHealClose, GuardianPersist, GuardianPlace,
         GuardianMark, GuardianClose, GuardianFinish, GuardianOnly
  <2> QED  BY <1>2, <2>1, GuardianBook, GuardianRowsStay, PositionsKept
<1>3. CASE OwnerStep
  <2>1. entry' = entry
    BY <1>3 DEF OwnerStep, OwnerStart, OwnerPersist, OwnerPlace, OwnerMark, OwnerClose, OwnerOnly
  <2> QED  BY <1>3, <2>1, OwnerBook, OwnerRowsStay, PositionsKept
<1>4. CASE \/ ReconcileStep \/ HumanClear \/ NextDay \/ Crash
           \/ \E r \in Ref : BrokerFill(r) \/ BrokerReject(r)
           \/ \E p \in Profiles : Retire(p)
           \/ UNCHANGED vars
  <2>1. BookShrinks /\ RowsStay /\ (entry' = entry \/ entry'.pc = "idle")
    BY <1>4, OtherBook, OtherRowsStay DEF IdleEntry
  <2> QED  BY <2>1, PositionsKept
<1> QED  BY <1>1, <1>2, <1>3, <1>4 DEF Next

LEMMA PositionsSafe == Spec => []PositionsInv
BY InitPositions, PositionsStep, TypeCorrect, PTL DEF Spec

\* An order has at most one open position: neither a heal nor the end of a
\* submission opens a second one, wherever runs die.
THEOREM OnePositionAtATime == Spec => []OneOpenPositionPerOrder
<1>1. PositionsInv => OneOpenPositionPerOrder
  BY DEF PositionsInv
<1> QED  BY <1>1, PositionsSafe, PTL

-----------------------------------------------------------------------------
(* One trade per closed position.                                          *)

\* Why it holds: the list of a tick is of open positions, nobody else closes
\* one, and the position an exit is under way for is still on the list.
BookingInv ==
  /\ \A t \in DOMAIN trades :
       trades[t].position \in DOMAIN positions \ OpenPositions
  /\ \A t, u \in DOMAIN trades : trades[t].position = trades[u].position => t = u
  /\ \A i \in DOMAIN positions \ OpenPositions :
       \E t \in DOMAIN trades : trades[t].position = i
  /\ guardian.todo \subseteq OpenPositions
  /\ guardian.pc \in {"heal_close", "persist", "place", "mark", "close"} =>
       guardian.pos \in guardian.todo
  /\ owner.pc = "idle"

LEMMA BookedOnceFollows == TypeOK /\ BookingInv => BookedOnce
<1> SUFFICES ASSUME TypeOK, BookingInv, NEW i \in DOMAIN positions
             PROVE  Cardinality(BookedFor(i)) = (IF positions[i].status = "closed" THEN 1 ELSE 0)
  BY DEF BookedOnce
<1>1. positions[i].status \in {"open", "closed"}
  BY PositionAt DEF TypeOK, LedgerType, Position
<1>2. CASE positions[i].status = "closed"
  <2>1. PICK t \in DOMAIN trades : trades[t].position = i
    BY <1>2 DEF BookingInv, OpenPositions
  <2>2. BookedFor(i) = {t}
    BY <2>1 DEF BookedFor, BookingInv
  <2> QED  BY <1>2, <2>2, FS_Singleton
<1>3. CASE positions[i].status = "open"
  <2>1. BookedFor(i) = {}
    BY <1>3 DEF BookedFor, BookingInv, OpenPositions
  <2> QED  BY <1>3, <2>1, FS_EmptySet
<1> QED  BY <1>1, <1>2, <1>3

LEMMA InitBooking == Init => BookingInv
BY DEF Init, BookingInv, OpenPositions, IdleGuardian, IdleOwner

\* Steps that leave trades and the list of a tick alone may open positions.
LEMMA BookingGrows ==
  ASSUME TypeOK, BookingInv, trades' = trades, owner' = owner,
         \/ positions' = positions
         \/ \E r \in Ref : \E q \in Nat : OpenPosition(r, q),
         guardian' = guardian \/ guardian' = IdleGuardian
  PROVE  BookingInv'
<1>a. positions \in Seq(Position)
  BY DEF TypeOK, LedgerType
<1>b. IdleGuardian.todo = {} /\ IdleGuardian.pc = "idle"
  BY DEF IdleGuardian
<1>1. /\ DOMAIN positions \subseteq DOMAIN positions'
      /\ OpenPositions \subseteq OpenPositions'
      /\ DOMAIN positions' \ OpenPositions' = DOMAIN positions \ OpenPositions
  <2>1. CASE positions' = positions
    BY <2>1 DEF OpenPositions
  <2>2. ASSUME NEW r \in Ref, NEW q \in Nat, OpenPosition(r, q)
        PROVE  /\ DOMAIN positions \subseteq DOMAIN positions'
               /\ OpenPositions \subseteq OpenPositions'
               /\ DOMAIN positions' \ OpenPositions' = DOMAIN positions \ OpenPositions
    <3> DEFINE n == Len(positions)
    <3>1. /\ n \in Nat /\ DOMAIN positions = 1..n /\ DOMAIN positions' = 1..(n + 1)
          /\ \A i \in 1..n : positions'[i] = positions[i]
          /\ positions'[n + 1].status = "open"
      BY <2>2, <1>a, AfterOpenPosition
    <3> HIDE DEF n
    <3> QED  BY <3>1 DEF OpenPositions
  <2> QED  BY <2>1, <2>2
<1>2. /\ \A t \in DOMAIN trades' : trades'[t].position \in DOMAIN positions' \ OpenPositions'
      /\ \A t, u \in DOMAIN trades' : trades'[t].position = trades'[u].position => t = u
      /\ \A i \in DOMAIN positions' \ OpenPositions' :
           \E t \in DOMAIN trades' : trades'[t].position = i
      /\ owner'.pc = "idle"
  BY <1>1 DEF BookingInv
<1>3. /\ guardian'.todo \subseteq OpenPositions'
      /\ guardian'.pc \in {"heal_close", "persist", "place", "mark", "close"} =>
           guardian'.pos \in guardian'.todo
  BY <1>1, <1>b DEF BookingInv
<1> QED  BY <1>2, <1>3 DEF BookingInv

\* A close books the one trade the position was missing.
LEMMA BookingCloses ==
  ASSUME TypeOK, BookingInv, owner' = owner,
         guardian.pos \in guardian.todo, ClosePosition(guardian.pos, guardian.ref),
         guardian' = GuardianNext
  PROVE  BookingInv'
<1> DEFINE i == guardian.pos
           m == Len(trades)
<1>a. positions \in Seq(Position) /\ trades \in Seq(Trade)
  BY DEF TypeOK, LedgerType
<1>1. i \in OpenPositions /\ i \in DOMAIN positions
  BY DEF BookingInv, OpenPositions
<1>2. /\ DOMAIN positions' = DOMAIN positions /\ positions'[i].status = "closed"
      /\ \A j \in DOMAIN positions : j # i => positions'[j] = positions[j]
  BY <1>a, <1>1, AfterClosePosition DEF BookShrinks
<1>3. OpenPositions' = OpenPositions \ {i}
  BY <1>1, <1>2 DEF OpenPositions
<1>4. /\ m \in Nat /\ DOMAIN trades = 1..m /\ DOMAIN trades' = 1..(m + 1)
      /\ \A t \in 1..m : trades'[t] = trades[t]
      /\ trades'[m + 1].position = i
  BY <1>a DEF ClosePosition
<1>5. /\ guardian'.pc = "loop" /\ guardian'.todo = guardian.todo \ {i}
  BY DEF GuardianNext, TypeOK, GuardianType
<1> HIDE DEF m, i
<1>6. \A t \in 1..m : trades[t].position \in DOMAIN positions \ OpenPositions
  BY <1>4 DEF BookingInv
<1>7. \A t \in DOMAIN trades' : trades'[t].position \in DOMAIN positions' \ OpenPositions'
  BY <1>1, <1>2, <1>3, <1>4, <1>6
<1>8. \A t, u \in DOMAIN trades' : trades'[t].position = trades'[u].position => t = u
  <2>1. \A t \in 1..m : trades'[t].position # i
    BY <1>1, <1>4, <1>6
  <2>2. \A t, u \in 1..m : trades'[t].position = trades'[u].position => t = u
    BY <1>4 DEF BookingInv
  <2> QED  BY <1>4, <2>1, <2>2
<1>9. \A j \in DOMAIN positions' \ OpenPositions' :
        \E t \in DOMAIN trades' : trades'[t].position = j
  <2> SUFFICES ASSUME NEW j \in DOMAIN positions' \ OpenPositions'
               PROVE  \E t \in DOMAIN trades' : trades'[t].position = j
    OBVIOUS
  <2>1. CASE j = i
    BY <1>4, <2>1
  <2>2. CASE j # i
    <3>1. PICK t \in DOMAIN trades : trades[t].position = j
      BY <1>2, <1>3, <2>2 DEF BookingInv
    <3> QED  BY <1>4, <3>1
  <2> QED  BY <2>1, <2>2
<1> QED  BY <1>3, <1>5, <1>7, <1>8, <1>9 DEF BookingInv

LEMMA EntryStepBooking ==
  ASSUME TypeOK, BookingInv, EntryStep
  PROVE  BookingInv'
<1>1. /\ trades' = trades /\ owner' = owner /\ guardian' = guardian
  BY DEF EntryStep, EntryStart, EntryNothingToScan, EntryScan, EntryBlocked, EntryGate,
         EntryDone, EntryPick, EntryHeal, EntryHealOpen, EntryPersist, EntryPlace, EntryMark,
         EntryOpen, EntryOnly
<1>2. \/ positions' = positions
      \/ entry.pc \in {"step0_open", "step1_open", "open"}
           /\ OpenPosition(entry.ref, orders[entry.ref].qty)
  BY DEF EntryStep, EntryStart, EntryNothingToScan, EntryScan, EntryBlocked, EntryGate,
         EntryDone, EntryPick, EntryHeal, EntryHealOpen, EntryPersist, EntryPlace, EntryMark,
         EntryOpen
<1>3. entry.pc \in {"step0_open", "step1_open", "open"} =>
        entry.ref \in Ref /\ orders[entry.ref].qty \in Nat
  BY DEF TypeOK, EntryType, LedgerType, OrderRow
<1> QED  BY <1>1, <1>2, <1>3, BookingGrows

LEMMA GuardianStepBooking ==
  ASSUME TypeOK, BookingInv, GuardianStep
  PROVE  BookingInv'
<1>o. owner' = owner
  BY DEF GuardianStep, GuardianStart, GuardianSnapshot, GuardianHold, GuardianHealExit,
         GuardianInFlight, GuardianExit, GuardianHealClose, GuardianPersist, GuardianPlace,
         GuardianMark, GuardianClose, GuardianFinish, GuardianOnly
<1>a. guardian \in [pc : GuardianPCs, asOf : Days, fills : SUBSET Ref,
                   todo : SUBSET DOMAIN positions, pos : Nat, ref : Ref \cup {NoRef}]
  BY DEF TypeOK, GuardianType
<1>b. ASSUME trades' = trades, positions' = positions,
             guardian'.todo \subseteq OpenPositions,
             guardian'.pc \in {"heal_close", "persist", "place", "mark", "close"} =>
               guardian'.pos \in guardian'.todo
      PROVE  BookingInv'
  <2>1. OpenPositions' = OpenPositions
    BY <1>b DEF OpenPositions
  <2> QED  BY <1>b, <1>o, <2>1 DEF BookingInv
<1>1. CASE GuardianStart
  <2>1. trades' = trades /\ positions' = positions
    BY <1>1 DEF GuardianStart, ledger
  <2>2. guardian'.pc = "snapshot" /\ guardian'.todo = OpenPositions
    BY <1>1 DEF GuardianStart, IdleGuardian
  <2> QED  BY <1>b, <2>1, <2>2
<1>2. CASE GuardianSnapshot \/ GuardianPlace \/ GuardianMark
  <2>1. trades' = trades /\ positions' = positions
    BY <1>2 DEF GuardianSnapshot, GuardianPlace, GuardianMark, ledger
  <2>2. /\ guardian'.todo = guardian.todo /\ guardian'.pos = guardian.pos
        /\ guardian'.pc = "loop" \/ guardian.pc \in {"place", "mark"}
    BY <1>2, <1>a DEF GuardianSnapshot, GuardianPlace, GuardianMark
  <2> QED  BY <1>b, <2>1, <2>2 DEF BookingInv
<1>3. ASSUME NEW i \in guardian.todo, GuardianHold(i) \/ GuardianInFlight(i) PROVE BookingInv'
  <2>1. trades' = trades /\ positions' = positions
    BY <1>3 DEF GuardianHold, GuardianInFlight, ledger
  <2>2. guardian'.todo = guardian.todo \ {i} /\ guardian'.pc = guardian.pc /\ guardian.pc = "loop"
    BY <1>3, <1>a DEF GuardianHold, GuardianInFlight, ExitFires
  <2> QED  BY <1>b, <2>1, <2>2 DEF BookingInv
<1>4. ASSUME NEW i \in guardian.todo, GuardianHealExit(i) PROVE BookingInv'
  <2>1. trades' = trades /\ positions' = positions
    BY <1>4 DEF GuardianHealExit
  <2>2. guardian'.todo = guardian.todo /\ guardian'.pos = i
    BY <1>4, <1>a DEF GuardianHealExit
  <2> QED  BY <1>b, <2>1, <2>2 DEF BookingInv
<1>5. ASSUME NEW i \in guardian.todo, NEW reason \in ExitReasons, GuardianExit(i, reason)
      PROVE  BookingInv'
  <2>1. trades' = trades /\ positions' = positions
    BY <1>5 DEF GuardianExit, ledger
  <2>2. guardian'.todo = guardian.todo /\ guardian'.pos = i
    BY <1>5, <1>a DEF GuardianExit
  <2> QED  BY <1>b, <2>1, <2>2 DEF BookingInv
<1>6. CASE GuardianPersist
  <2>1. trades' = trades /\ positions' = positions
    BY <1>6 DEF GuardianPersist
  <2>2. \/ guardian' = IdleGuardian
        \/ guardian'.todo = guardian.todo /\ guardian'.pos = guardian.pos
    BY <1>6, <1>a DEF GuardianPersist
  <2>3. guardian.pos \in guardian.todo
    BY <1>6 DEF GuardianPersist, BookingInv
  <2>4. IdleGuardian.todo = {} /\ IdleGuardian.pc = "idle"
    BY DEF IdleGuardian
  <2> QED  BY <1>b, <2>1, <2>2, <2>3, <2>4 DEF BookingInv
<1>7. CASE GuardianHealClose \/ GuardianClose
  <2>1. guardian.pos \in guardian.todo /\ guardian' = GuardianNext
    BY <1>7 DEF GuardianHealClose, GuardianClose, BookingInv
  <2>2. \/ ClosePosition(guardian.pos, guardian.ref)
        \/ positions' = positions /\ trades' = trades
    BY <1>7 DEF GuardianHealClose, GuardianClose
  <2>3. guardian'.todo = guardian.todo \ {guardian.pos} /\ guardian'.pc = "loop"
    BY <2>1, <1>a DEF GuardianNext
  <2> QED  BY <1>b, <1>o, <2>1, <2>2, <2>3, BookingCloses DEF BookingInv
<1>8. CASE GuardianFinish
  <2>1. trades' = trades /\ positions' = positions /\ guardian' = IdleGuardian
    BY <1>8 DEF GuardianFinish, ledger
  <2> QED  BY <1>o, <2>1, BookingGrows
<1> QED  BY <1>1, <1>2, <1>3, <1>4, <1>5, <1>6, <1>7, <1>8 DEF GuardianStep

LEMMA OtherStepsBooking ==
  ASSUME TypeOK, BookingInv,
         \/ ReconcileStep \/ HumanClear \/ NextDay \/ Crash
         \/ \E r \in Ref : BrokerFill(r) \/ BrokerReject(r)
         \/ \E p \in Profiles : Retire(p)
         \/ UNCHANGED vars
  PROVE  BookingInv'
<1>1. /\ trades' = trades /\ positions' = positions
      /\ guardian' = guardian \/ guardian' = IdleGuardian
      /\ owner' = owner \/ owner' = IdleOwner
  BY DEF ReconcileStep, ReconcileReadLocal, ReconcileReadPending, ReconcileSnapshot,
         ReconcileRecord, ReconOnly, HumanClear, NextDay, Crash, BrokerFill, BrokerReject,
         BrokerOnly, Retire, vars, ledger
<1>2. OpenPositions' = OpenPositions
  BY <1>1 DEF OpenPositions
<1> QED  BY <1>1, <1>2 DEF BookingInv, IdleOwner, IdleGuardian

LEMMA BookingSafe ==
  ASSUME "owner" \notin Processes
  PROVE  Spec => []BookingInv
<1>1. TypeOK /\ BookingInv /\ [Next]_vars => BookingInv'
  <2>1. BookingInv => ~OwnerStep
    BY DEF BookingInv, OwnerStep, OwnerStart, OwnerPersist, OwnerPlace, OwnerMark, OwnerClose
  <2> QED  BY <2>1, EntryStepBooking, GuardianStepBooking, OtherStepsBooking DEF Next
<1> QED  BY InitBooking, <1>1, TypeCorrect, PTL DEF Spec

\* Without closes by hand, every closed position is booked as exactly one
\* trade, although a tick closes from a list it read earlier and
\* close_position does not look at the status: nobody else closes meanwhile.
THEOREM BookedExactlyOnce ==
  ASSUME "owner" \notin Processes
  PROVE  Spec => []BookedOnce
BY BookedOnceFollows, BookingSafe, TypeCorrect, PTL

-----------------------------------------------------------------------------
(* BUYs leave a trace.                                                     *)

\* Between the commits of a heal the run itself is the trace of its order.
TrackInv ==
  \A r \in EntryRefs : broker[r].placed > 0 =>
    \/ Unresolved(r)
    \/ \E i \in DOMAIN positions : positions[i].ref = r
    \/ entry.pc \in {"step0_open", "step1_open"} /\ entry.ref = r

LEMMA InitTrack == Init => TrackInv
BY DEF Init, TrackInv, EntryRefs

\* Rows of entry orders and what was sent of them: nothing changes.
BuysUntouched ==
  \A r \in EntryRefs : orders'[r] = orders[r] /\ broker'[r].placed = broker[r].placed

LEMMA TrackKept ==
  ASSUME TypeOK, TrackInv, BuysUntouched, BookShrinks,
         \/ entry' = entry
         \/ entry.pc \notin {"step0_open", "step1_open"}
  PROVE  TrackInv'
<1> SUFFICES ASSUME NEW r \in EntryRefs, broker'[r].placed > 0
             PROVE  \/ Unresolved(r)'
                    \/ \E i \in DOMAIN positions' : positions'[i].ref = r
                    \/ entry'.pc \in {"step0_open", "step1_open"} /\ entry'.ref = r
  BY DEF TrackInv, EntryRefs
<1>1. broker[r].placed > 0 /\ Unresolved(r)' = Unresolved(r)
  BY DEF BuysUntouched, Unresolved
<1> QED  BY <1>1 DEF TrackInv, BookShrinks

LEMMA GuardianBuysUntouched ==
  ASSUME TypeOK, SubmissionInv, GuardianStep
  PROVE  BuysUntouched /\ entry' = entry
<1>a. orders \in [Ref -> OrderRow] /\ broker \in [Ref -> Sendings]
  BY DEF TypeOK, LedgerType, GatewayType
<1>e. entry' = entry
  BY DEF GuardianStep, GuardianStart, GuardianSnapshot, GuardianHold, GuardianHealExit,
         GuardianInFlight, GuardianExit, GuardianHealClose, GuardianPersist, GuardianPlace,
         GuardianMark, GuardianClose, GuardianFinish, GuardianOnly
<1>1. ASSUME NEW i \in guardian.todo, GuardianHealExit(i) PROVE BuysUntouched
  <2>1. PICK x \in Ref : SetStatus(x, "filled") /\ x.intent # "entry"
    BY <1>1, HealExitIn
  <2>2. broker' = broker /\ \A r \in EntryRefs : r \in Ref /\ r # x
    BY <1>1, <2>1 DEF EntryRefs, GuardianHealExit
  <2>3. \A r \in Ref : r # x => orders'[r] = orders[r]
    BY <1>a, <2>1 DEF SetStatus
  <2> QED  BY <2>2, <2>3 DEF BuysUntouched
<1>2. CASE GuardianPersist \/ GuardianPlace \/ GuardianMark
  <2> DEFINE x == guardian.ref
  <2>1. \A r \in EntryRefs : r \in Ref /\ r # x
    BY <1>2, ConstantsAssumption DEF GuardianPersist, GuardianPlace, GuardianMark, SubmissionInv, OwnIntent,
       EntryRefs, TypeOK, GuardianType
  <2>2. /\ \A r \in Ref : r # x => orders'[r] = orders[r]
        /\ \A r \in Ref : r # x => broker'[r] = broker[r]
    BY <1>2, <1>a DEF GuardianPersist, GuardianPlace, GuardianMark, RecordOrder, SetStatus,
       PlaceOrder, ledger
  <2> HIDE DEF x
  <2> QED  BY <1>e, <2>1, <2>2 DEF BuysUntouched
<1>3. \/ orders' = orders /\ broker' = broker
      \/ GuardianPersist \/ GuardianPlace \/ GuardianMark
      \/ \E i \in guardian.todo : GuardianHealExit(i)
  BY DEF GuardianStep, GuardianStart, GuardianSnapshot, GuardianHold, GuardianHealClose,
         GuardianInFlight, GuardianExit, GuardianClose, GuardianFinish, ledger
<1> QED  BY <1>e, <1>1, <1>2, <1>3 DEF BuysUntouched

LEMMA OwnerBuysUntouched ==
  ASSUME TypeOK, SubmissionInv, OwnerStep
  PROVE  BuysUntouched /\ entry' = entry
<1>a. orders \in [Ref -> OrderRow] /\ broker \in [Ref -> Sendings]
  BY DEF TypeOK, LedgerType, GatewayType
<1>e. entry' = entry
  BY DEF OwnerStep, OwnerStart, OwnerPersist, OwnerPlace, OwnerMark, OwnerClose, OwnerOnly
<1>1. CASE OwnerPersist \/ OwnerPlace \/ OwnerMark
  <2> DEFINE x == owner.ref
  <2>1. \A r \in EntryRefs : r \in Ref /\ r # x
    BY <1>1 DEF OwnerPersist, OwnerPlace, OwnerMark, SubmissionInv, OwnIntent,
       EntryRefs, TypeOK, OwnerType
  <2>2. /\ \A r \in Ref : r # x => orders'[r] = orders[r]
        /\ \A r \in Ref : r # x => broker'[r] = broker[r]
    BY <1>1, <1>a DEF OwnerPersist, OwnerPlace, OwnerMark, RecordOrder, SetStatus,
       PlaceOrder, ledger
  <2> HIDE DEF x
  <2> QED  BY <1>e, <2>1, <2>2 DEF BuysUntouched
<1>2. \/ orders' = orders /\ broker' = broker
      \/ OwnerPersist \/ OwnerPlace \/ OwnerMark
  BY DEF OwnerStep, OwnerStart, OwnerClose, ledger
<1> QED  BY <1>e, <1>1, <1>2 DEF BuysUntouched

LEMMA OtherBuysUntouched ==
  ASSUME TypeOK,
         \/ ReconcileStep \/ HumanClear \/ NextDay \/ Crash
         \/ \E r \in Ref : BrokerFill(r) \/ BrokerReject(r)
         \/ \E p \in Profiles : Retire(p)
         \/ UNCHANGED vars
  PROVE  /\ BuysUntouched
         /\ \/ entry' = entry
            \/ <<"entry", entry.pc>> \in CrashPoints /\ entry' = IdleEntry
<1>1. /\ orders' = orders
      /\ \/ entry' = entry
         \/ <<"entry", entry.pc>> \in CrashPoints /\ entry' = IdleEntry
  BY DEF ReconcileStep, ReconcileReadLocal, ReconcileReadPending, ReconcileSnapshot,
         ReconcileRecord, ReconOnly, HumanClear, NextDay, Crash, BrokerFill, BrokerReject,
         BrokerOnly, Retire, vars, ledger
<1>2. \A r \in Ref : broker'[r].placed = broker[r].placed
  <2>1. broker \in [Ref -> Sendings]
    BY DEF TypeOK, GatewayType
  <2>2. CASE \E x \in Ref : BrokerFill(x) \/ BrokerReject(x)
    BY <2>1, <2>2 DEF BrokerFill, BrokerReject, Sendings
  <2>3. CASE \/ ReconcileStep \/ HumanClear \/ NextDay \/ Crash
             \/ (\E p \in Profiles : Retire(p)) \/ UNCHANGED vars
    BY <2>3 DEF ReconcileStep, ReconcileReadLocal, ReconcileReadPending, ReconcileSnapshot,
         ReconcileRecord, ReconOnly, HumanClear, NextDay, Crash, Retire, vars, gateway
  <2> QED  BY <2>2, <2>3
<1> QED  BY <1>1, <1>2 DEF BuysUntouched, EntryRefs

LEMMA EntryStepTrack ==
  ASSUME TypeOK, SubmissionInv, BuyInv, TrackInv, EntryStep
  PROVE  TrackInv'
<1>a. entry \in [pc : EntryPCs, asOf : Days, fills : SUBSET Ref, todo : SUBSET Ref,
                 cands : SUBSET (Symbols \X {Family[p] : p \in Profiles}),
                 pool : SUBSET Profiles, ref : Ref \cup {NoRef}]
  BY DEF TypeOK, EntryType
<1>b. /\ orders \in [Ref -> OrderRow] /\ positions \in Seq(Position)
      /\ broker \in [Ref -> Sendings]
  BY DEF TypeOK, LedgerType, GatewayType
<1>c. \A r \in EntryRefs : r \in Ref
  BY DEF EntryRefs
<1>1. CASE \/ EntryStart \/ EntryNothingToScan \/ EntryScan \/ EntryBlocked \/ EntryGate
           \/ EntryDone \/ \E c \in entry.cands : EntryPick(c)
  <2>1. orders' = orders /\ positions' = positions /\ broker' = broker
    BY <1>1 DEF EntryStart, EntryNothingToScan, EntryScan, EntryBlocked, EntryGate, EntryDone,
       EntryPick
  <2>2. entry.pc \notin {"step0_open", "step1_open"}
    BY <1>1 DEF EntryStart, EntryNothingToScan, EntryScan, EntryBlocked, EntryGate, EntryDone,
       EntryPick
  <2> QED  BY <2>1, <2>2, SameBook, TrackKept DEF BuysUntouched
\* The row stops being unresolved; the run holds its order.
<1>2. CASE EntryHeal
  <2>1. PICK x \in Ref : /\ SetStatus(x, "filled")
                         /\ entry' = [entry EXCEPT
                              !.pc = IF @ = "step0" THEN "step0_open" ELSE "step1_open",
                              !.todo = @ \ {x}, !.ref = x]
    BY <1>2, EntryDueIn
  <2>2. entry'.pc \in {"step0_open", "step1_open"} /\ entry'.ref = x
    BY <2>1, <1>a
  <2>3. /\ positions' = positions /\ broker' = broker
        /\ entry.pc \notin {"step0_open", "step1_open"}
    BY <1>2 DEF EntryHeal
  <2>4. \A r \in Ref : r # x => orders'[r] = orders[r]
    BY <2>1, <1>b DEF SetStatus
  <2>5. ASSUME NEW r \in EntryRefs, broker[r].placed > 0, r # x
        PROVE  orders'[r].status \in {"pending_submit", "submitted"}
               \/ \E i \in DOMAIN positions : positions[i].ref = r
    BY <2>3, <2>4, <2>5, <1>c DEF TrackInv, Unresolved
  <2> QED  BY <2>2, <2>3, <2>5 DEF TrackInv, EntryRefs, Unresolved
<1>3. CASE EntryHealOpen
  <2>1. orders' = orders /\ broker' = broker /\ entry.ref \in Ref
    BY <1>3 DEF EntryHealOpen, TypeOK, EntryType
  <2>2. /\ \E i \in DOMAIN positions' : positions'[i].ref = entry.ref
        /\ \A i \in DOMAIN positions : i \in DOMAIN positions' /\ positions'[i].ref = positions[i].ref
    <3>1. CASE HasOpenPositionFor(entry.ref)
      BY <1>3, <3>1 DEF EntryHealOpen, HasOpenPositionFor, OpenPositions
    <3>2. CASE ~HasOpenPositionFor(entry.ref)
      <4>1. OpenPosition(entry.ref, orders[entry.ref].qty)
        BY <1>3, <3>2 DEF EntryHealOpen
      <4> QED  BY <1>b, <2>1, <4>1, AfterOpenPosition
    <3> QED  BY <3>1, <3>2
  <2> QED  BY <2>1, <2>2 DEF TrackInv, EntryRefs, Unresolved
<1>4. CASE EntryPersist
  <2> DEFINE x == entry.ref
  <2>1. entry.ref \in Ref /\ positions' = positions /\ broker' = broker /\ entry.pc = "persist"
    BY <1>4 DEF EntryPersist, TypeOK, EntryType
  <2>2. \A r \in Ref : r # x => orders'[r] = orders[r]
    BY <1>4, <1>b DEF EntryPersist, RecordOrder
  <2>3. orders'[x].status \in {"pending_submit", "submitted"} \/ orders' = orders
    <3>1. orders' = orders \/ \E q \in Quantities : RecordOrder(entry.ref, q)
      BY <1>4 DEF EntryPersist
    <3>2. ASSUME NEW q \in Quantities, RecordOrder(entry.ref, q)
          PROVE  orders'[entry.ref].status = "pending_submit"
      BY <1>b, <2>1, <3>2 DEF RecordOrder
    <3> QED  BY <3>1, <3>2 DEF Unresolved
  <2> HIDE DEF x
  <2>4. ASSUME NEW r \in EntryRefs, broker[r].placed > 0
        PROVE  \/ orders'[r].status \in {"pending_submit", "submitted"}
               \/ \E i \in DOMAIN positions : positions[i].ref = r
    BY <1>c, <2>1, <2>2, <2>3, <2>4 DEF TrackInv, Unresolved
  <2> QED  BY <2>1, <2>4 DEF TrackInv, EntryRefs, Unresolved
<1>5. CASE EntryPlace \/ EntryMark
  <2> DEFINE x == entry.ref
  <2>1. /\ entry.ref \in Ref /\ positions' = positions
        /\ entry.pc \in {"place", "mark"}
    BY <1>5 DEF EntryPlace, EntryMark, TypeOK, EntryType
  <2>2. /\ \A r \in Ref : r # x => orders'[r] = orders[r] /\ broker'[r] = broker[r]
        /\ orders'[x].status \in {"pending_submit", "submitted"}
    <3>1. CASE EntryPlace
      BY <3>1, <1>b, <2>1 DEF EntryPlace, PlaceOrder, BuyInv, Unresolved
    <3>2. CASE EntryMark
      BY <3>2, <1>b, <2>1 DEF EntryMark, SetStatus, OrderRow, Unresolved
    <3> QED  BY <1>5, <3>1, <3>2
  <2> HIDE DEF x
  <2>4. ASSUME NEW r \in EntryRefs, broker'[r].placed > 0
        PROVE  \/ orders'[r].status \in {"pending_submit", "submitted"}
               \/ \E i \in DOMAIN positions : positions[i].ref = r
    BY <1>c, <2>1, <2>2, <2>4 DEF TrackInv, Unresolved
  <2> QED  BY <2>1, <2>4 DEF TrackInv, EntryRefs, Unresolved
<1>6. CASE EntryOpen
  <2>1. /\ orders' = orders /\ broker' = broker /\ entry.ref \in Ref /\ entry.pc = "open"
        /\ OpenPosition(entry.ref, orders[entry.ref].qty)
    BY <1>6 DEF EntryOpen, TypeOK, EntryType
  <2>2. \A i \in DOMAIN positions : i \in DOMAIN positions' /\ positions'[i].ref = positions[i].ref
    BY <1>b, <2>1, AfterOpenPosition
  <2> QED  BY <2>1, <2>2 DEF TrackInv, EntryRefs, Unresolved
<1> QED  BY <1>1, <1>2, <1>3, <1>4, <1>5, <1>6 DEF EntryStep

\* Unless a run dies between the two commits of a heal, a BUY the gateway
\* received stays unresolved in the ledger or has a position opened for it.
THEOREM BuysLeaveATrace ==
  ASSUME <<"entry", "step0_open">> \notin CrashPoints,
         <<"entry", "step1_open">> \notin CrashPoints
  PROVE  Spec => []BuysStayTracked
<1>1. TypeOK /\ SubmissionInv /\ BuyInv /\ TrackInv /\ [Next]_vars => TrackInv'
  <2> SUFFICES ASSUME TypeOK, SubmissionInv, BuyInv, TrackInv, [Next]_vars PROVE TrackInv'
    OBVIOUS
  <2>1. CASE EntryStep
    BY <2>1, EntryStepTrack
  <2>2. CASE GuardianStep
    BY <2>2, GuardianBuysUntouched, GuardianBook, TrackKept
  <2>3. CASE OwnerStep
    BY <2>3, OwnerBuysUntouched, OwnerBook, TrackKept
  <2>4. CASE \/ ReconcileStep \/ HumanClear \/ NextDay \/ Crash
             \/ \E r \in Ref : BrokerFill(r) \/ BrokerReject(r)
             \/ \E p \in Profiles : Retire(p)
             \/ UNCHANGED vars
    <3>1. <<"entry", entry.pc>> \in CrashPoints => entry.pc \notin {"step0_open", "step1_open"}
      OBVIOUS
    <3> QED  BY <2>4, <3>1, OtherBuysUntouched, OtherBook, TrackKept
  <2> QED  BY <2>1, <2>2, <2>3, <2>4 DEF Next
<1>2. TrackInv => BuysStayTracked
  BY DEF TrackInv, BuysStayTracked
<1> QED  BY InitTrack, <1>1, <1>2, TypeCorrect, SubmissionSafe, BuySafe, PTL DEF Spec

-----------------------------------------------------------------------------
(* What stops BUYs: a halt that arrives between the gate and the gateway    *)
(* lets one through, and a profile killed between runs sends none.          *)

LEMMA InitHalt == Init => HaltInv
BY DEF Init, HaltInv, HaltLetsOneBuyThrough, Halted, IdleEntry

\* The entry run passes the gate only without a halt, and sends one order
\* before it comes back to the gate.
LEMMA EntryStepHalt ==
  ASSUME TypeOK, HaltInv, EntryStep
  PROVE  HaltInv'
<1>a. entry \in [pc : EntryPCs, asOf : Days, fills : SUBSET Ref, todo : SUBSET Ref,
                 cands : SUBSET (Symbols \X {Family[p] : p \in Profiles}),
                 pool : SUBSET Profiles, ref : Ref \cup {NoRef}]
  BY DEF TypeOK, EntryType
<1>b. (Halted)' = Halted
  <2>1. EntryOnly
    BY DEF EntryStep, EntryStart, EntryHeal, EntryHealOpen, EntryNothingToScan, EntryScan,
           EntryPick, EntryBlocked, EntryGate, EntryPersist, EntryPlace, EntryMark, EntryOpen,
           EntryDone
  <2>2. UNCHANGED <<halt, tripped>>
    BY <2>1 DEF EntryOnly, control
  <2> QED  BY <2>2 DEF Halted
<1>1. CASE EntryGate
  <2>1. ~Halted /\ lateBuys' = lateBuys
    BY <1>1 DEF EntryGate
  <2> QED  BY <1>b, <2>1 DEF HaltInv, HaltLetsOneBuyThrough
<1>2. CASE EntryPersist
  <2>1. entry.pc = "persist" /\ lateBuys' = lateBuys
    BY <1>2 DEF EntryPersist
  <2> QED  BY <1>b, <2>1 DEF HaltInv, HaltLetsOneBuyThrough
<1>3. CASE EntryPlace
  <2>1. /\ entry.pc = "place" /\ entry'.pc = "mark"
        /\ lateBuys' = IF Halted THEN lateBuys + 1 ELSE lateBuys
    BY <1>3, <1>a DEF EntryPlace
  <2>2. lateBuys = 0
    BY <2>1 DEF HaltInv
  <2> QED  BY <1>b, <2>1, <2>2 DEF HaltInv, HaltLetsOneBuyThrough
<1>4. ASSUME lateBuys' = lateBuys, entry' = IdleEntry \/ entry'.pc \notin {"persist", "place"}
      PROVE  HaltInv'
  BY <1>b, <1>4 DEF HaltInv, HaltLetsOneBuyThrough, IdleEntry
<1>5. ASSUME NEW c \in entry.cands, EntryPick(c) PROVE HaltInv'
  <2>1. entry' = IdleEntry \/ entry'.pc = "step1"
    BY <1>5, <1>a DEF EntryPick
  <2>2. lateBuys' = lateBuys
    BY <1>5 DEF EntryPick
  <2> QED  BY <1>4, <2>1, <2>2
<1>6. CASE EntryStart \/ EntryHeal \/ EntryHealOpen \/ EntryNothingToScan \/ EntryScan
           \/ EntryBlocked \/ EntryMark \/ EntryOpen \/ EntryDone
  <2>1. lateBuys' = lateBuys
    BY <1>6 DEF EntryStart, EntryHeal, EntryHealOpen, EntryNothingToScan, EntryScan,
                EntryBlocked, EntryMark, EntryOpen, EntryDone
  <2>2. entry' = IdleEntry \/ entry'.pc \notin {"persist", "place"}
    BY <1>6, <1>a DEF EntryStart, EntryHeal, EntryHealOpen, EntryNothingToScan, EntryScan,
                EntryBlocked, EntryMark, EntryOpen, EntryDone, IdleEntry
  <2> QED  BY <1>4, <2>1, <2>2
<1> QED  BY <1>1, <1>2, <1>3, <1>5, <1>6 DEF EntryStep

\* Every other step leaves the count alone, or clears it with the halt.
LEMMA OtherStepsHalt ==
  ASSUME TypeOK, HaltInv,
         \/ GuardianStep \/ ReconcileStep \/ OwnerStep \/ HumanClear \/ NextDay \/ Crash
         \/ \E r \in Ref : BrokerFill(r) \/ BrokerReject(r)
         \/ \E p \in Profiles : Retire(p)
         \/ UNCHANGED vars
  PROVE  HaltInv'
<1>1. ASSUME entry' = entry \/ entry' = IdleEntry,
             \/ lateBuys' = lateBuys /\ (Halted => Halted')
             \/ lateBuys' = 0
      PROVE  HaltInv'
  BY <1>1 DEF HaltInv, HaltLetsOneBuyThrough, IdleEntry
<1>2. CASE GuardianFinish
  <2>1. /\ entry' = entry /\ halt' = halt
        /\ lateBuys' = IF tripped' \/ halt = "halt" THEN lateBuys ELSE 0
    BY <1>2 DEF GuardianFinish, GuardianOnly
  <2> QED  BY <1>1, <2>1 DEF Halted
<1>3. CASE GuardianStep /\ ~GuardianFinish
  <2>1. entry' = entry /\ UNCHANGED <<halt, tripped, lateBuys>>
    BY <1>3 DEF GuardianStep, GuardianStart, GuardianSnapshot, GuardianHold, GuardianHealExit,
         GuardianInFlight, GuardianExit, GuardianHealClose, GuardianPersist, GuardianPlace,
         GuardianMark, GuardianClose, GuardianOnly, history
  <2> QED  BY <1>1, <2>1 DEF Halted
<1>4. CASE ReconcileStep
  <2>1. entry' = entry /\ UNCHANGED <<tripped, lateBuys>> /\ halt' \in {halt, "halt"}
    BY <1>4 DEF ReconcileStep, ReconcileReadLocal, ReconcileReadPending, ReconcileSnapshot,
         ReconcileRecord, ReconOnly
  <2> QED  BY <1>1, <2>1 DEF Halted
<1>5. CASE OwnerStep
  <2>1. entry' = entry /\ UNCHANGED <<halt, tripped, lateBuys>>
    BY <1>5 DEF OwnerStep, OwnerStart, OwnerPersist, OwnerPlace, OwnerMark, OwnerClose,
         OwnerOnly, control
  <2> QED  BY <1>1, <2>1 DEF Halted
<1>6. CASE HumanClear
  <2>1. entry' = entry /\ tripped' = tripped /\ lateBuys' = IF tripped THEN lateBuys ELSE 0
    BY <1>6 DEF HumanClear
  <2> QED  BY <1>1, <2>1 DEF Halted
<1>7. CASE NextDay \/ Crash \/ (\E r \in Ref : BrokerFill(r) \/ BrokerReject(r))
           \/ (\E p \in Profiles : Retire(p)) \/ UNCHANGED vars
  <2>1. (entry' = entry \/ entry' = IdleEntry) /\ UNCHANGED <<halt, tripped, lateBuys>>
    BY <1>7 DEF NextDay, Crash, BrokerFill, BrokerReject, BrokerOnly, Retire, vars, control,
         history
  <2> QED  BY <1>1, <2>1 DEF Halted
<1> QED  BY <1>2, <1>3, <1>4, <1>5, <1>6, <1>7

\* After a halt is recorded or a breaker trips, at most one BUY reaches the
\* gateway until the halt ends, however the processes interleave and die.
THEOREM HaltGate == Spec => []HaltLetsOneBuyThrough
<1>1. TypeOK /\ HaltInv /\ [Next]_vars => HaltInv'
  BY EntryStepHalt, OtherStepsHalt DEF Next
<1>2. HaltInv => HaltLetsOneBuyThrough
  BY DEF HaltInv
<1> QED  BY InitHalt, <1>1, <1>2, TypeCorrect, PTL DEF Spec

-----------------------------------------------------------------------------
(* Killed profiles.                                                        *)

\* Between runs no pool of profiles is kept.
NoPoolBetweenRuns == entry.pc = "idle" => entry.pool = {}

\* What the end of a profile establishes for an order of it that was not
\* sent, and every later step keeps: no run can pick it any more.
OutOfReach(r) ==
  /\ r.profile \in killed /\ broker[r].placed = 0
  /\ r.profile \notin entry.pool
  /\ entry.pc \in {"step1", "persist", "place"} => entry.ref # r

LEMMA InitNoPool == Init => NoPoolBetweenRuns
BY DEF Init, NoPoolBetweenRuns, IdleEntry

LEMMA ElsewhereEntry ==
  ASSUME [Next]_vars, ~EntryStep
  PROVE  entry' = entry \/ entry' = IdleEntry
<1>1. CASE GuardianStep
  BY <1>1 DEF GuardianStep, GuardianStart, GuardianSnapshot, GuardianHold, GuardianHealExit,
         GuardianInFlight, GuardianExit, GuardianHealClose, GuardianPersist, GuardianPlace,
         GuardianMark, GuardianClose, GuardianFinish, GuardianOnly
<1>2. CASE OwnerStep
  BY <1>2 DEF OwnerStep, OwnerStart, OwnerPersist, OwnerPlace, OwnerMark, OwnerClose, OwnerOnly
<1> QED  BY <1>1, <1>2, OtherRowsStay DEF Next

\* No profile comes back to life.
LEMMA KilledForGood == [Next]_vars => killed \subseteq killed'
<1> SUFFICES ASSUME [Next]_vars PROVE killed \subseteq killed'
  OBVIOUS
<1>1. CASE EntryStep
  BY <1>1 DEF EntryStep, EntryStart, EntryNothingToScan, EntryScan, EntryBlocked, EntryGate,
         EntryDone, EntryPick, EntryHeal, EntryHealOpen, EntryPersist, EntryPlace, EntryMark,
         EntryOpen, EntryOnly, control
<1>2. CASE GuardianStep
  BY <1>2 DEF GuardianStep, GuardianStart, GuardianSnapshot, GuardianHold, GuardianHealExit,
         GuardianInFlight, GuardianExit, GuardianHealClose, GuardianPersist, GuardianPlace,
         GuardianMark, GuardianClose, GuardianFinish
<1>3. CASE OwnerStep
  BY <1>3 DEF OwnerStep, OwnerStart, OwnerPersist, OwnerPlace, OwnerMark, OwnerClose, OwnerOnly,
         control
<1>4. CASE \/ ReconcileStep \/ HumanClear \/ NextDay \/ Crash
           \/ \E r \in Ref : BrokerFill(r) \/ BrokerReject(r)
           \/ \E p \in Profiles : Retire(p)
           \/ UNCHANGED vars
  BY <1>4 DEF ReconcileStep, ReconcileReadLocal, ReconcileReadPending, ReconcileSnapshot,
         ReconcileRecord, ReconOnly, HumanClear, NextDay, Crash, BrokerFill, BrokerReject,
         BrokerOnly, Retire, vars, control
<1> QED  BY <1>1, <1>2, <1>3, <1>4 DEF Next

LEMMA NoPoolStep == TypeOK /\ NoPoolBetweenRuns /\ [Next]_vars => NoPoolBetweenRuns'
<1> SUFFICES ASSUME TypeOK, NoPoolBetweenRuns, [Next]_vars PROVE NoPoolBetweenRuns'
  OBVIOUS
<1>a. entry \in [pc : EntryPCs, asOf : Days, fills : SUBSET Ref, todo : SUBSET Ref,
                 cands : SUBSET (Symbols \X {Family[p] : p \in Profiles}),
                 pool : SUBSET Profiles, ref : Ref \cup {NoRef}]
  BY DEF TypeOK, EntryType
<1>b. IdleEntry.pc = "idle" /\ IdleEntry.pool = {}
  BY DEF IdleEntry
<1>1. CASE EntryStep
  <2>1. CASE EntryStart
    <3>1. entry'.pc = "step0"
      BY <2>1 DEF EntryStart, IdleEntry
    <3> QED  BY <3>1 DEF NoPoolBetweenRuns
  <2>2. CASE \/ EntryNothingToScan \/ EntryDone \/ EntryPersist
             \/ \E c \in entry.cands : EntryPick(c)
    <3>1. entry' = IdleEntry \/ entry'.pc \in {"place", "step1"}
      BY <2>2, <1>a DEF EntryNothingToScan, EntryDone, EntryPersist, EntryPick
    <3> QED  BY <3>1, <1>b DEF NoPoolBetweenRuns
  <2>3. CASE \/ EntryHeal \/ EntryHealOpen \/ EntryScan \/ EntryBlocked \/ EntryGate
             \/ EntryPlace \/ EntryMark \/ EntryOpen
    <3>1. entry'.pc # "idle"
      <4>1. CASE EntryHeal
        BY <4>1, <1>a, EntryDueIn
      <4>2. CASE \/ EntryHealOpen \/ EntryScan \/ EntryBlocked \/ EntryGate
                 \/ EntryPlace \/ EntryMark \/ EntryOpen
        BY <4>2, <1>a DEF EntryHealOpen, EntryScan, EntryBlocked, EntryGate, EntryPlace,
           EntryMark, EntryOpen
      <4> QED  BY <2>3, <4>1, <4>2
    <3> QED  BY <3>1 DEF NoPoolBetweenRuns
  <2> QED  BY <1>1, <2>1, <2>2, <2>3 DEF EntryStep
<1>2. CASE ~EntryStep
  <2>1. entry' = entry \/ entry' = IdleEntry
    BY <1>2, ElsewhereEntry
  <2> QED  BY <2>1, <1>b DEF NoPoolBetweenRuns
<1> QED  BY <1>1, <1>2

LEMMA EntryOutOfReach ==
  ASSUME TypeOK, NEW r \in EntryRefs, OutOfReach(r), EntryStep
  PROVE  /\ broker'[r].placed = 0
         /\ r.profile \notin entry'.pool
         /\ entry'.pc \in {"step1", "persist", "place"} => entry'.ref # r
<1>a. entry \in [pc : EntryPCs, asOf : Days, fills : SUBSET Ref, todo : SUBSET Ref,
                 cands : SUBSET (Symbols \X {Family[p] : p \in Profiles}),
                 pool : SUBSET Profiles, ref : Ref \cup {NoRef}]
  BY DEF TypeOK, EntryType
<1>b. IdleEntry.pc = "idle" /\ IdleEntry.pool = {}
  BY DEF IdleEntry
<1>c. /\ broker[r].placed = 0 /\ r.profile \in killed /\ r.profile \notin entry.pool
      /\ entry.pc \in {"step1", "persist", "place"} => entry.ref # r
  BY DEF OutOfReach
<1>1. CASE EntryStart
  <2>1. entry'.pc = "step0" /\ entry'.pool = {} /\ broker' = broker
    BY <1>1 DEF EntryStart, IdleEntry
  <2> QED  BY <1>c, <2>1
<1>2. CASE EntryNothingToScan \/ EntryDone
  BY <1>2, <1>b, <1>c DEF EntryNothingToScan, EntryDone
<1>3. CASE EntryScan
  <2>1. entry'.pc = "loop" /\ entry'.pool = registry \ killed /\ broker' = broker
    BY <1>3, <1>a DEF EntryScan, LivePool
  <2> QED  BY <1>c, <2>1
\* The reference picked is of a profile in the pool.
<1>4. ASSUME NEW c \in entry.cands, EntryPick(c)
      PROVE  /\ broker'[r].placed = 0
             /\ r.profile \notin entry'.pool
             /\ entry'.pc \in {"step1", "persist", "place"} => entry'.ref # r
  <2>1. broker' = broker
    BY <1>4 DEF EntryPick
  <2>2. CASE entry' = IdleEntry
    BY <1>b, <1>c, <2>1, <2>2
  <2>3. ASSUME NEW p \in entry.pool,
               entry' = [entry EXCEPT !.pc = "step1", !.cands = @ \ {c},
                           !.ref = OrderRef(p, c[1], entry.asOf, "entry")]
        PROVE  entry'.pool = entry.pool /\ entry'.ref # r
    <3>1. entry'.pool = entry.pool /\ entry'.ref = OrderRef(p, c[1], entry.asOf, "entry")
      BY <1>a, <2>3
    <3>2. OrderRef(p, c[1], entry.asOf, "entry").profile = p
      BY DEF OrderRef
    <3> QED  BY <1>c, <3>1, <3>2
  <2> QED  BY <1>4, <1>c, <2>1, <2>2, <2>3, EntryPickIn
<1>5. CASE EntryHeal
  <2>1. entry'.pc \in {"step0_open", "step1_open"} /\ entry'.pool = entry.pool
    BY <1>5, <1>a, EntryDueIn
  <2>2. broker' = broker
    BY <1>5 DEF EntryHeal
  <2> QED  BY <1>c, <2>1, <2>2
<1>6. CASE EntryHealOpen \/ EntryBlocked \/ EntryMark \/ EntryOpen
  <2>1. /\ entry'.pc \notin {"step1", "persist", "place"} /\ entry'.pool = entry.pool
        /\ broker' = broker
    BY <1>6, <1>a DEF EntryHealOpen, EntryBlocked, EntryMark, EntryOpen
  <2> QED  BY <1>c, <2>1
<1>7. CASE EntryGate \/ EntryPersist
  <2>1. /\ broker' = broker /\ entry.pc \in {"step1", "persist"}
        /\ \/ entry' = IdleEntry
           \/ entry'.pool = entry.pool /\ entry'.ref = entry.ref
    BY <1>7, <1>a DEF EntryGate, EntryPersist
  <2> QED  BY <1>b, <1>c, <2>1
<1>8. CASE EntryPlace
  <2>1. entry'.pc = "mark" /\ entry'.pool = entry.pool /\ entry.ref # r
    BY <1>8, <1>a, <1>c DEF EntryPlace
  <2>2. broker'[r] = broker[r]
    BY <1>8, <2>1 DEF EntryPlace, PlaceOrder, EntryRefs, TypeOK, GatewayType
  <2> QED  BY <1>c, <2>1, <2>2
<1> QED  BY <1>1, <1>2, <1>3, <1>4, <1>5, <1>6, <1>7, <1>8 DEF EntryStep

LEMMA StaysOutOfReach ==
  ASSUME NEW r \in EntryRefs
  PROVE  TypeOK /\ SubmissionInv /\ OutOfReach(r) /\ [Next]_vars => OutOfReach(r)'
<1> SUFFICES ASSUME TypeOK, SubmissionInv, OutOfReach(r), [Next]_vars PROVE OutOfReach(r)'
  OBVIOUS
<1>1. r.profile \in killed'
  BY KilledForGood DEF OutOfReach
<1>2. CASE EntryStep
  BY <1>1, <1>2, EntryOutOfReach DEF OutOfReach
<1>3. CASE ~EntryStep
  <2>1. BuysUntouched
    BY <1>3, GuardianBuysUntouched, OwnerBuysUntouched, OtherBuysUntouched DEF Next
  <2>2. entry' = entry \/ entry' = IdleEntry
    BY <1>3, ElsewhereEntry
  <2>3. IdleEntry.pc = "idle" /\ IdleEntry.pool = {}
    BY DEF IdleEntry
  <2> QED  BY <1>1, <2>1, <2>2, <2>3 DEF OutOfReach, BuysUntouched
<1> QED  BY <1>2, <1>3

LEMMA KilledOneStops ==
  ASSUME NEW r \in EntryRefs
  PROVE  Spec => [](/\ r.profile \in killed
                    /\ entry.pc = "idle" /\ broker[r].placed = 0
                    => [](broker[r].placed = 0))
<1>1. TypeOK /\ SubmissionInv /\ OutOfReach(r) /\ [Next]_vars => OutOfReach(r)'
  BY StaysOutOfReach
<1>2. /\ NoPoolBetweenRuns
      /\ r.profile \in killed /\ entry.pc = "idle" /\ broker[r].placed = 0
      => OutOfReach(r)
  BY DEF NoPoolBetweenRuns, OutOfReach
<1>3. OutOfReach(r) => broker[r].placed = 0
  BY DEF OutOfReach
<1> QED  BY <1>1, <1>2, <1>3, InitNoPool, NoPoolStep, TypeCorrect, SubmissionSafe, PTL DEF Spec

\* A profile killed or retired between entry runs never sends another BUY,
\* for every set of profiles and symbols and wherever runs die.
THEOREM KilledNeverBuys == Spec => KilledStopsBuying
BY KilledOneStops DEF KilledStopsBuying

-----------------------------------------------------------------------------
(* One open position of a symbol.                                          *)

\* Nobody is killed or retired and one family claims whatever is claimed, so
\* that a symbol goes to the same profile every time.
SettledRoster ==
  Killable = {} /\ Retirable = {} /\ \A p, q \in Profiles : Family[p] = Family[q]
Keeper(s) == AssignProfile[<<s, Profiles>>]

\* Why it is needed: two profiles that take turns at a symbol do not see each
\* other's unresolved orders.
KeeperInv ==
  /\ registry = Profiles /\ killed = {}
  /\ entry.pc \notin {"idle", "step0", "step0_open"} => entry.pool = Profiles
  /\ entry.pc \in {"step1", "persist", "place", "mark", "open"} =>
       entry.ref.profile = Keeper(entry.ref.symbol)
  /\ \A r \in EntryRefs : Recorded(r) => r.profile = Keeper(r.symbol)

\* An unresolved BUY and an open position of a symbol belong together.
BooksAgree ==
  /\ OneOpenPositionPerSymbol
  /\ \A r \in EntryRefs : \A i \in OpenPositions :
       Unresolved(r) /\ positions[i].ref.symbol = r.symbol => positions[i].ref = r

\* What the run in progress may rely on: the candidates it has left and the
\* one it is at are of symbols without a position, and an order it heals is
\* the last unresolved one of its symbol.
SymbolInv ==
  /\ BooksAgree
  /\ entry.pc \in {"step0", "step0_open"} => \A r \in entry.todo : r \in EntryRefs /\ Unresolved(r)
  /\ entry.pc \in {"step0_open", "step1_open"} =>
       /\ entry.ref \in EntryRefs
       /\ \A r \in EntryRefs : r.symbol = entry.ref.symbol => ~Unresolved(r)
       /\ \A i \in OpenPositions :
            positions[i].ref.symbol = entry.ref.symbol => positions[i].ref = entry.ref
  /\ entry.pc \in {"step1", "persist", "place", "mark", "open"} =>
       entry.ref.symbol \notin OpenSymbols
  /\ entry.pc = "open" => entry.ref \in EntryRefs /\ Unresolved(entry.ref)
CandidatesInv ==
  /\ entry.pc \in {"idle", "step0", "step0_open"} => entry.cands = {}
  /\ \A c \in entry.cands : c[1] \notin OpenSymbols
  /\ \A c, d \in entry.cands : c[1] = d[1] => c = d
  /\ entry.pc \in {"step1", "step1_open", "persist", "place", "mark", "open"} =>
       \A c \in entry.cands : c[1] # entry.ref.symbol

LEMMA InitSymbols == Init => KeeperInv /\ SymbolInv /\ CandidatesInv
BY DEF Init, KeeperInv, SymbolInv, CandidatesInv, BooksAgree, OneOpenPositionPerSymbol,
       OpenPositions, EntryRefs, Recorded, IdleEntry

\* A step elsewhere opens nothing and keeps the rows of entry orders.
LEMMA SymbolsKept ==
  ASSUME TypeOK, OwnIntent, SymbolInv, CandidatesInv, BookShrinks, BuyRowsKept,
         entry' = entry \/ entry' = IdleEntry
  PROVE  SymbolInv' /\ CandidatesInv'
<1>1. /\ OpenPositions' \subseteq OpenPositions
      /\ \A i \in OpenPositions' : positions'[i].ref = positions[i].ref
  BY DEF BookShrinks, OpenPositions
<1>2. OpenSymbols' \subseteq OpenSymbols
  BY <1>1 DEF OpenSymbols
<1>3. \A r \in EntryRefs : Unresolved(r)' = Unresolved(r)
  BY DEF BuyRowsKept, Unresolved
<1>4. BooksAgree'
  BY <1>1, <1>3 DEF SymbolInv, BooksAgree, OneOpenPositionPerSymbol, EntryRefs
<1>5. CASE entry' = IdleEntry
  BY <1>4, <1>5 DEF SymbolInv, CandidatesInv, IdleEntry
<1>6. CASE entry' = entry
  <2>1. SymbolInv'
    BY <1>1, <1>2, <1>3, <1>4, <1>6 DEF SymbolInv, EntryRefs
  <2>2. CandidatesInv'
    BY <1>2, <1>6 DEF CandidatesInv
  <2> QED  BY <2>1, <2>2
<1> QED  BY <1>5, <1>6

\* The roster stays.
LEMMA RosterStays ==
  ASSUME SettledRoster, KeeperInv, [Next]_vars
  PROVE  registry' = Profiles /\ killed' = {}
<1>1. CASE EntryStep
  BY <1>1 DEF EntryStep, EntryStart, EntryHeal, EntryHealOpen, EntryNothingToScan, EntryScan,
              EntryPick, EntryBlocked, EntryGate, EntryPersist, EntryPlace, EntryMark, EntryOpen,
              EntryDone, EntryOnly, control, KeeperInv
<1>2. CASE GuardianStep
  <2>1. registry' = registry
    BY <1>2 DEF GuardianStep, GuardianStart, GuardianSnapshot, GuardianHold, GuardianHealExit,
                GuardianInFlight, GuardianExit, GuardianHealClose, GuardianPersist, GuardianPlace,
                GuardianMark, GuardianClose, GuardianFinish, GuardianOnly
  <2>2. killed' = killed \/ GuardianFinish
    BY <1>2 DEF GuardianStep, GuardianStart, GuardianSnapshot, GuardianHold, GuardianHealExit,
                GuardianInFlight, GuardianExit, GuardianHealClose, GuardianPersist, GuardianPlace,
                GuardianMark, GuardianClose
  <2>3. GuardianFinish => killed' = killed
    BY DEF GuardianFinish, SettledRoster
  <2> QED  BY <2>1, <2>2, <2>3 DEF KeeperInv
<1>3. CASE ReconcileStep \/ OwnerStep \/ HumanClear \/ NextDay \/ Crash
           \/ (\E r \in Ref : BrokerFill(r) \/ BrokerReject(r)) \/ UNCHANGED vars
  BY <1>3 DEF ReconcileStep, ReconcileReadLocal, ReconcileReadPending, ReconcileSnapshot,
              ReconcileRecord, ReconOnly, OwnerStep, OwnerStart, OwnerPersist, OwnerPlace,
              OwnerMark, OwnerClose, OwnerOnly, HumanClear, NextDay, Crash, BrokerFill,
              BrokerReject, BrokerOnly, control, vars, KeeperInv
<1>4. CASE \E p \in Profiles : Retire(p)
  BY <1>4 DEF Retire, SettledRoster
<1> QED  BY <1>1, <1>2, <1>3, <1>4 DEF Next

\* A pick is for the keeper of the symbol.
LEMMA PickIsForTheKeeper ==
  ASSUME TypeOK, SettledRoster, KeeperInv, NEW c \in entry.cands, EntryPick(c)
  PROVE  \/ entry' = IdleEntry
         \/ entry' = [entry EXCEPT !.pc = "step1", !.cands = @ \ {c},
                        !.ref = OrderRef(Keeper(c[1]), c[1], entry.asOf, "entry")]
<1>1. entry.pool = Profiles
  BY DEF EntryPick, KeeperInv
<1>2. \A p \in Profiles : Family[p] = c[2]
  <2>1. PICK q \in Profiles : c[2] = Family[q]
    BY DEF TypeOK, EntryType
  <2> QED  BY <2>1 DEF SettledRoster
<1>3. {p \in entry.pool : Family[p] = c[2]} = Profiles
  BY <1>1, <1>2
<1> QED  BY <1>3 DEF EntryPick, Keeper

EntryRecord ==
  [pc : EntryPCs, asOf : Days, fills : SUBSET Ref, todo : SUBSET Ref,
   cands : SUBSET (Symbols \X {Family[p] : p \in Profiles}),
   pool : SUBSET Profiles, ref : Ref \cup {NoRef}]

\* A heal is of an unresolved BUY, in STEP 1 of the candidate's.
LEMMA HealIsOfABuy ==
  ASSUME TypeOK, SymbolInv, EntryHeal
  PROVE  \E x \in EntryRefs :
           /\ SetStatus(x, "filled") /\ Unresolved(x)
           /\ entry'.pc \in {"step0_open", "step1_open"} /\ entry'.ref = x
           /\ entry'.cands = entry.cands /\ entry'.todo = entry.todo \ {x}
           /\ entry'.pool = entry.pool
           /\ IF entry.pc = "step0" THEN entry'.pc = "step0_open"
              ELSE entry.pc = "step1" /\ entry'.pc = "step1_open" /\ x.symbol = entry.ref.symbol
<1> DEFINE due == IF entry.pc = "step0" THEN entry.todo
                  ELSE Matches(EntryUnresolved, entry.fills)
           x   == Oldest(due)
<1>1. entry \in EntryRecord /\ orders \in [Ref -> OrderRow]
  BY DEF TypeOK, EntryType, LedgerType, EntryRecord
<1>2. /\ entry.pc \in {"step0", "step1"} /\ due # {}
      /\ SetStatus(x, "filled")
      /\ entry' = [entry EXCEPT
           !.pc = IF @ = "step0" THEN "step0_open" ELSE "step1_open",
           !.todo = @ \ {x}, !.ref = x]
  BY DEF EntryHeal
<1>3. \A r \in due : r \in EntryRefs /\ Unresolved(r)
  <2>1. CASE entry.pc = "step0"
    BY <2>1 DEF SymbolInv
  <2>2. CASE entry.pc # "step0"
    BY <2>2 DEF Matches, EntryUnresolved, UnresolvedOrders, Side, EntryRefs
  <2> QED  BY <2>1, <2>2
<1>4. entry.pc # "step0" => \A r \in due : r.symbol = entry.ref.symbol
  BY DEF Matches, EntryUnresolved, UnresolvedOrders
<1>5. x \in due
  BY <1>1, <1>2, <1>3, OldestIn DEF EntryRefs
<1>6. /\ entry'.pc = (IF entry.pc = "step0" THEN "step0_open" ELSE "step1_open")
      /\ entry'.ref = x /\ entry'.cands = entry.cands /\ entry'.todo = entry.todo \ {x}
      /\ entry'.pool = entry.pool
  BY <1>1, <1>2 DEF EntryRecord
<1> HIDE DEF due, x
<1> QED  BY <1>2, <1>3, <1>4, <1>5, <1>6

LEMMA KeeperKept ==
  ASSUME KeeperInv, registry' = Profiles, killed' = {}, BuyRowsKept,
         entry' = entry \/ entry' = IdleEntry
  PROVE  KeeperInv'
<1>1. \A r \in EntryRefs : Recorded(r)' = Recorded(r)
  BY DEF BuyRowsKept, Recorded
<1>2. CASE entry' = IdleEntry
  BY <1>1, <1>2 DEF KeeperInv, IdleEntry, EntryRefs
<1>3. CASE entry' = entry
  BY <1>1, <1>3 DEF KeeperInv, EntryRefs
<1> QED  BY <1>2, <1>3

LEMMA EntryStepKeeper ==
  ASSUME TypeOK, SettledRoster, KeeperInv, SymbolInv, OwnIntent, EntryStep
  PROVE  KeeperInv'
<1>a. entry \in EntryRecord
  BY DEF TypeOK, EntryType, EntryRecord
<1>b. orders \in [Ref -> OrderRow]
  BY DEF TypeOK, LedgerType
<1>c. registry' = Profiles /\ killed' = {}
  BY RosterStays DEF Next
<1>1. ASSUME \A r \in EntryRefs : Recorded(r)' => Recorded(r),
             entry'.pc \notin {"idle", "step0", "step0_open"} => entry'.pool = Profiles,
             entry'.pc \in {"step1", "persist", "place", "mark", "open"} =>
               /\ entry.pc \in {"step1", "persist", "place", "mark", "open"}
               /\ entry'.ref = entry.ref
      PROVE  KeeperInv'
  BY <1>1, <1>c DEF KeeperInv, EntryRefs
<1>2. ASSUME orders' = orders PROVE \A r \in EntryRefs : Recorded(r)' = Recorded(r)
  BY <1>2 DEF Recorded
<1>3. CASE EntryStart \/ EntryNothingToScan \/ EntryDone
  <2>1. EntryStart => orders' = orders /\ entry'.pc = "step0"
    BY DEF EntryStart, IdleEntry
  <2>2. EntryNothingToScan => orders' = orders /\ entry'.pc = "idle"
    BY DEF EntryNothingToScan, IdleEntry
  <2>3. EntryDone => orders' = orders /\ entry'.pc = "idle"
    BY DEF EntryDone, IdleEntry
  <2> QED  BY <1>1, <1>2, <1>3, <2>1, <2>2, <2>3
<1>4. CASE EntryHealOpen
  <2>1. /\ orders' = orders /\ entry'.pool = entry.pool
        /\ \/ entry.pc = "step0_open" /\ entry'.pc = "step0"
           \/ entry.pc = "step1_open" /\ entry'.pc = "loop"
    BY <1>4, <1>a DEF EntryHealOpen, EntryRecord
  <2> QED  BY <1>1, <1>2, <2>1 DEF KeeperInv
<1>5. CASE EntryScan
  <2>1. orders' = orders /\ entry'.pc = "loop" /\ entry'.pool = LivePool
    BY <1>5, <1>a DEF EntryScan, EntryRecord
  <2>2. LivePool = Profiles
    BY DEF LivePool, KeeperInv
  <2> QED  BY <1>1, <1>2, <2>1, <2>2
<1>6. ASSUME NEW c \in entry.cands, EntryPick(c) PROVE KeeperInv'
  <2>1. orders' = orders /\ entry.pc = "loop" /\ entry.pool = Profiles
    BY <1>6 DEF EntryPick, KeeperInv
  <2>2. CASE entry' = IdleEntry
    BY <1>1, <1>2, <2>1, <2>2 DEF IdleEntry
  <2>3. CASE entry' = [entry EXCEPT !.pc = "step1", !.cands = @ \ {c},
                         !.ref = OrderRef(Keeper(c[1]), c[1], entry.asOf, "entry")]
    <3>1. /\ entry'.pc = "step1" /\ entry'.pool = Profiles
          /\ entry'.ref = OrderRef(Keeper(c[1]), c[1], entry.asOf, "entry")
      BY <1>a, <2>1, <2>3 DEF EntryRecord
    <3>2. entry'.ref.profile = Keeper(c[1]) /\ entry'.ref.symbol = c[1]
      BY <3>1 DEF OrderRef
    <3> QED  BY <1>c, <1>2, <2>1, <3>1, <3>2 DEF KeeperInv, EntryRefs
  <2> QED  BY <1>6, <2>2, <2>3, PickIsForTheKeeper
<1>7. CASE EntryBlocked \/ EntryGate \/ EntryPlace
  <2>1. /\ orders' = orders /\ entry'.pool = entry.pool /\ entry'.ref = entry.ref
        /\ entry.pc \in {"step1", "place"} /\ entry'.pc \in {"loop", "persist", "mark"}
    BY <1>7, <1>a DEF EntryBlocked, EntryGate, EntryPlace, EntryRecord
  <2> QED  BY <1>1, <1>2, <2>1 DEF KeeperInv
<1>8. CASE EntryHeal
  <2>1. PICK x \in EntryRefs : /\ SetStatus(x, "filled") /\ Unresolved(x)
                               /\ entry'.pc \in {"step0_open", "step1_open"}
                               /\ entry'.pc = "step1_open" => entry.pc = "step1"
                               /\ entry'.pool = entry.pool
    BY <1>8, HealIsOfABuy
  <2>2. \A r \in EntryRefs : Recorded(r)' => Recorded(r)
    BY <2>1, <1>b DEF SetStatus, Recorded, Unresolved, EntryRefs
  <2> QED  BY <1>1, <2>1, <2>2 DEF KeeperInv
<1>9. CASE EntryMark
  <2>1. /\ SetStatus(entry.ref, "submitted") /\ entry.pc = "mark" /\ entry.ref \in Ref
        /\ entry'.pc = "open" /\ entry'.ref = entry.ref /\ entry'.pool = entry.pool
    BY <1>9, <1>a DEF EntryMark, EntryRecord, TypeOK, EntryType
  <2>2. \A r \in EntryRefs : r # entry.ref => Recorded(r)' = Recorded(r)
    BY <2>1, <1>b DEF SetStatus, Recorded, EntryRefs
  <2> QED  BY <1>c, <2>1, <2>2 DEF KeeperInv, EntryRefs
<1>10. CASE EntryPersist
  <2>1. entry.pc = "persist" /\ entry.ref \in Ref
    BY <1>10 DEF EntryPersist, TypeOK, EntryType
  <2>2. CASE Recorded(entry.ref)
    <3>1. orders' = orders /\ entry'.pc = "idle"
      BY <1>10, <2>2 DEF EntryPersist, IdleEntry
    <3> QED  BY <1>1, <1>2, <3>1
  <2>3. CASE ~Recorded(entry.ref)
    <3>1. PICK q \in Quantities : RecordOrder(entry.ref, q)
      BY <1>10, <2>3 DEF EntryPersist
    <3>2. entry'.pc = "place" /\ entry'.ref = entry.ref /\ entry'.pool = entry.pool
      BY <1>10, <2>3, <1>a DEF EntryPersist, EntryRecord
    <3>3. \A r \in Ref : r # entry.ref => orders'[r] = orders[r]
      BY <2>1, <3>1, <1>b DEF RecordOrder
    <3> QED  BY <1>c, <2>1, <3>2, <3>3 DEF KeeperInv, EntryRefs, Recorded
  <2> QED  BY <2>2, <2>3
<1>11. CASE EntryOpen
  <2>1. orders' = orders /\ entry'.pc = "loop" /\ entry'.pool = entry.pool /\ entry.pc = "open"
    BY <1>11, <1>a DEF EntryOpen, EntryRecord
  <2> QED  BY <1>1, <1>2, <2>1 DEF KeeperInv
<1> QED  BY <1>3, <1>4, <1>5, <1>6, <1>7, <1>8, <1>9, <1>10, <1>11 DEF EntryStep

\* Where no order or position changes, only the run does.
LEMMA SameSymbols ==
  ASSUME orders' = orders, positions' = positions
  PROVE  /\ OpenPositions' = OpenPositions /\ OpenSymbols' = OpenSymbols
         /\ \A r \in EntryRefs : Unresolved(r)' = Unresolved(r)
         /\ BooksAgree => BooksAgree'
<1>1. OpenPositions' = OpenPositions /\ \A r \in EntryRefs : Unresolved(r)' = Unresolved(r)
  BY DEF OpenPositions, Unresolved
<1>2. OpenSymbols' = OpenSymbols
  BY <1>1 DEF OpenSymbols
<1>3. BooksAgree => BooksAgree'
  BY <1>1 DEF BooksAgree, OneOpenPositionPerSymbol, EntryRefs
<1> QED  BY <1>1, <1>2, <1>3

\* Fewer unresolved BUYs, the same positions.
LEMMA FewerBuys ==
  ASSUME BooksAgree, positions' = positions, \A r \in EntryRefs : Unresolved(r)' => Unresolved(r)
  PROVE  BooksAgree' /\ OpenPositions' = OpenPositions /\ OpenSymbols' = OpenSymbols
<1>1. OpenPositions' = OpenPositions
  BY DEF OpenPositions
<1>2. OpenSymbols' = OpenSymbols
  BY <1>1 DEF OpenSymbols
<1>3. BooksAgree'
  BY <1>1 DEF BooksAgree, OneOpenPositionPerSymbol, EntryRefs
<1> QED  BY <1>1, <1>2, <1>3

\* A position is opened for an order whose symbol has none, and no other order
\* of the symbol is unresolved.
LEMMA SymbolOpened ==
  ASSUME TypeOK, BooksAgree, NEW r \in EntryRefs, NEW q \in Nat, OpenPosition(r, q),
         orders' = orders, r.symbol \notin OpenSymbols,
         \A x \in EntryRefs : Unresolved(x) /\ x.symbol = r.symbol => x = r
  PROVE  /\ BooksAgree' /\ OpenSymbols' = OpenSymbols \cup {r.symbol}
         /\ \A i \in OpenPositions' : positions'[i].ref.symbol = r.symbol => positions'[i].ref = r
<1> DEFINE new == Len(positions) + 1
<1>1. /\ OpenPositions' = OpenPositions \cup {new} /\ new \notin OpenPositions
      /\ positions'[new].ref = r
      /\ \A i \in OpenPositions : positions'[i].ref = positions[i].ref
  <2>1. positions \in Seq(Position) /\ r \in Ref
    BY DEF TypeOK, LedgerType, EntryRefs
  <2> QED  BY <2>1, AfterOpenPosition DEF OpenPositions
<1>2. \A i \in OpenPositions : positions[i].ref.symbol # r.symbol
  BY DEF OpenSymbols
<1> HIDE DEF new
<1>3. \A x \in EntryRefs : Unresolved(x)' = Unresolved(x)
  BY DEF Unresolved
<1>4. OneOpenPositionPerSymbol'
  BY <1>1, <1>2 DEF BooksAgree, OneOpenPositionPerSymbol
<1>5. ASSUME NEW x \in EntryRefs, NEW i \in OpenPositions', Unresolved(x)',
             positions'[i].ref.symbol = x.symbol
      PROVE  positions'[i].ref = x
  <2>1. CASE i = new
    BY <1>1, <1>3, <1>5, <2>1
  <2>2. CASE i \in OpenPositions
    BY <1>1, <1>3, <1>5, <2>2 DEF BooksAgree
  <2> QED  BY <1>1, <2>1, <2>2
<1>6. OpenSymbols' = OpenSymbols \cup {r.symbol}
  BY <1>1 DEF OpenSymbols
<1>7. BooksAgree'
  BY <1>4, <1>5 DEF BooksAgree, EntryRefs
<1> QED  BY <1>1, <1>2, <1>6, <1>7

LEMMA EntryStepSymbols ==
  ASSUME TypeOK, OwnIntent, BuyInv, KeeperInv, SettledRoster, SymbolInv, CandidatesInv, EntryStep
  PROVE  SymbolInv' /\ CandidatesInv'
<1>a. entry \in EntryRecord
  BY DEF TypeOK, EntryType, EntryRecord
<1>b. orders \in [Ref -> OrderRow] /\ positions \in Seq(Position)
  BY DEF TypeOK, LedgerType
<1>c. \A r, x \in EntryRefs : Unresolved(r) /\ Unresolved(x) /\ r.symbol = x.symbol => r = x
  <2>1. \A r \in EntryRefs : Unresolved(r) => r.profile = Keeper(r.symbol)
    BY DEF KeeperInv, Recorded, Unresolved
  <2> QED  BY <2>1 DEF BuyInv, OneUnresolvedBuy
<1>1. CASE EntryStart
  <2>1. /\ orders' = orders /\ positions' = positions
        /\ entry'.pc = "step0" /\ entry'.cands = {}
        /\ \A r \in entry'.todo : r \in EntryRefs /\ Unresolved(r)
    BY <1>1 DEF EntryStart, IdleEntry, EntryRefs
  <2> QED  BY <2>1, SameSymbols DEF SymbolInv, CandidatesInv
<1>2. CASE EntryNothingToScan \/ EntryDone
  <2>1. /\ orders' = orders /\ positions' = positions
        /\ entry'.pc = "idle" /\ entry'.cands = {}
    BY <1>2 DEF EntryNothingToScan, EntryDone, IdleEntry
  <2> QED  BY <2>1, SameSymbols DEF SymbolInv, CandidatesInv
<1>3. CASE EntryScan
  <2>0. PICK S \in SUBSET (Symbols \ OpenSymbols) :
          \E claim \in [S -> {Family[p] : p \in registry}] :
            entry' = [entry EXCEPT !.pc = "loop", !.pool = LivePool,
                                   !.cands = {<<s, claim[s]>> : s \in S}]
    BY <1>3, Zenon DEF EntryScan
  <2>1. PICK claim \in [S -> {Family[p] : p \in registry}] :
            entry' = [entry EXCEPT !.pc = "loop", !.pool = LivePool,
                                   !.cands = {<<s, claim[s]>> : s \in S}]
    BY <2>0, Zenon
  <2>2. /\ orders' = orders /\ positions' = positions
        /\ entry'.pc = "loop" /\ entry'.cands = {<<s, claim[s]>> : s \in S}
    BY <1>3, <2>1, <1>a DEF EntryScan, EntryRecord
  <2>3. CandidatesInv'
    BY <2>2, SameSymbols DEF CandidatesInv
  <2> QED  BY <2>2, <2>3, SameSymbols DEF SymbolInv
<1>4. ASSUME NEW c \in entry.cands, EntryPick(c) PROVE SymbolInv' /\ CandidatesInv'
  <2>1. orders' = orders /\ positions' = positions
    BY <1>4 DEF EntryPick
  <2>2. CASE entry' = IdleEntry
    <3>1. entry'.pc = "idle" /\ entry'.cands = {}
      BY <2>2 DEF IdleEntry
    <3> QED  BY <2>1, <3>1, SameSymbols DEF SymbolInv, CandidatesInv
  <2>3. CASE entry' = [entry EXCEPT !.pc = "step1", !.cands = @ \ {c},
                         !.ref = OrderRef(Keeper(c[1]), c[1], entry.asOf, "entry")]
    <3>1. /\ entry'.pc = "step1" /\ entry'.cands = entry.cands \ {c}
          /\ entry'.ref.symbol = c[1]
      BY <1>a, <2>3 DEF EntryRecord, OrderRef
    <3>2. c[1] \notin OpenSymbols /\ \A d \in entry.cands \ {c} : d[1] # c[1]
      BY DEF CandidatesInv
    <3>3. SymbolInv'
      BY <2>1, <3>1, <3>2, SameSymbols DEF SymbolInv
    <3>4. CandidatesInv'
      BY <2>1, <3>1, <3>2, SameSymbols DEF CandidatesInv
    <3> QED  BY <3>3, <3>4
  <2> QED  BY <1>4, <2>2, <2>3, PickIsForTheKeeper
<1>5. CASE EntryBlocked \/ EntryGate \/ EntryPlace
  <2>1. /\ orders' = orders /\ positions' = positions
        /\ entry'.ref = entry.ref /\ entry'.cands = entry.cands
        /\ entry.pc \in {"step1", "place"} /\ entry'.pc \in {"loop", "persist", "mark"}
    BY <1>5, <1>a DEF EntryBlocked, EntryGate, EntryPlace, EntryRecord
  <2>2. SymbolInv'
    BY <2>1, SameSymbols DEF SymbolInv
  <2>3. CandidatesInv'
    BY <2>1, SameSymbols DEF CandidatesInv
  <2> QED  BY <2>2, <2>3
<1>6. CASE EntryHeal
  <2>1. PICK x \in EntryRefs :
          /\ SetStatus(x, "filled") /\ Unresolved(x)
          /\ entry'.pc \in {"step0_open", "step1_open"} /\ entry'.ref = x
          /\ entry'.cands = entry.cands /\ entry'.todo = entry.todo \ {x}
          /\ IF entry.pc = "step0" THEN entry'.pc = "step0_open"
             ELSE entry.pc = "step1" /\ entry'.pc = "step1_open" /\ x.symbol = entry.ref.symbol
    BY <1>6, HealIsOfABuy
  <2>2. positions' = positions
    BY <1>6 DEF EntryHeal
  <2>3. ~Unresolved(x)' /\ \A r \in EntryRefs : r # x => Unresolved(r)' = Unresolved(r)
    BY <2>1, <1>b DEF SetStatus, Unresolved, EntryRefs
  <2>4. BooksAgree' /\ OpenPositions' = OpenPositions /\ OpenSymbols' = OpenSymbols
    BY <2>2, <2>3, FewerBuys DEF SymbolInv
  <2>5. \A r \in EntryRefs : r.symbol = x.symbol => ~Unresolved(r)'
    BY <1>c, <2>1, <2>3
  <2>6. \A i \in OpenPositions : positions[i].ref.symbol = x.symbol => positions[i].ref = x
    BY <2>1 DEF SymbolInv, BooksAgree
  <2>7. entry'.pc = "step0_open" => \A r \in entry'.todo : r \in EntryRefs /\ Unresolved(r)'
    BY <2>1, <2>3 DEF SymbolInv
  <2>8. SymbolInv'
    BY <2>1, <2>2, <2>4, <2>5, <2>6, <2>7 DEF SymbolInv, EntryRefs
  <2>9. CandidatesInv'
    BY <2>1, <2>4 DEF CandidatesInv
  <2> QED  BY <2>8, <2>9
<1>7. CASE EntryHealOpen
  <2>1. /\ orders' = orders /\ entry'.ref = entry.ref /\ entry'.cands = entry.cands
        /\ entry'.todo = entry.todo
        /\ \/ entry.pc = "step0_open" /\ entry'.pc = "step0"
           \/ entry.pc = "step1_open" /\ entry'.pc = "loop"
    BY <1>7, <1>a DEF EntryHealOpen, EntryRecord
  <2>2. entry.ref \in EntryRefs
    BY <2>1 DEF SymbolInv
  <2>3. \A r \in EntryRefs : r.symbol = entry.ref.symbol => ~Unresolved(r)
    BY <2>1 DEF SymbolInv
  <2>4. /\ BooksAgree' /\ OpenSymbols' \subseteq OpenSymbols \cup {entry.ref.symbol}
    <3>1. CASE HasOpenPositionFor(entry.ref)
      <4>1. positions' = positions
        BY <1>7, <3>1 DEF EntryHealOpen
      <4> QED  BY <2>1, <4>1, SameSymbols DEF SymbolInv
    <3>2. CASE ~HasOpenPositionFor(entry.ref)
      <4>1. OpenPosition(entry.ref, orders[entry.ref].qty) /\ orders[entry.ref].qty \in Nat
        BY <1>7, <1>b, <2>2, <3>2 DEF EntryHealOpen, OrderRow, EntryRefs
      <4>2. entry.ref.symbol \notin OpenSymbols
        BY <2>1, <3>2 DEF SymbolInv, OpenSymbols, HasOpenPositionFor
      <4> QED  BY <2>1, <2>2, <2>3, <4>1, <4>2, SymbolOpened DEF SymbolInv
    <3> QED  BY <3>1, <3>2
  <2>5. \A r \in EntryRefs : Unresolved(r)' = Unresolved(r)
    BY <2>1 DEF Unresolved
  <2>6. SymbolInv'
    BY <2>1, <2>4, <2>5 DEF SymbolInv, EntryRefs
  <2>7. CandidatesInv'
    BY <2>1, <2>4 DEF CandidatesInv
  <2> QED  BY <2>6, <2>7
<1>8. CASE EntryPersist
  <2>1. entry.pc = "persist" /\ entry.ref \in EntryRefs /\ positions' = positions
    BY <1>8 DEF EntryPersist, TypeOK, EntryType, OwnIntent, EntryRefs
  <2>2. CASE Recorded(entry.ref)
    <3>1. orders' = orders /\ entry'.pc = "idle" /\ entry'.cands = {}
      BY <1>8, <2>2 DEF EntryPersist, IdleEntry
    <3> QED  BY <2>1, <3>1, SameSymbols DEF SymbolInv, CandidatesInv
  <2>3. CASE ~Recorded(entry.ref)
    <3>1. PICK q \in Quantities : RecordOrder(entry.ref, q)
      BY <1>8, <2>3 DEF EntryPersist
    <3>2. entry'.pc = "place" /\ entry'.ref = entry.ref /\ entry'.cands = entry.cands
      BY <1>8, <2>3, <1>a DEF EntryPersist, EntryRecord
    <3>3. \A r \in EntryRefs : r # entry.ref => Unresolved(r)' = Unresolved(r)
      <4>1. \A r \in Ref : r # entry.ref => orders'[r] = orders[r]
        BY <2>1, <3>1, <1>b DEF RecordOrder
      <4> QED  BY <4>1 DEF Unresolved, EntryRefs
    <3>4. OpenPositions' = OpenPositions
      BY <2>1 DEF OpenPositions
    <3>5. OpenSymbols' = OpenSymbols
      BY <2>1, <3>4 DEF OpenSymbols
    <3>6. \A i \in OpenPositions : positions[i].ref.symbol # entry.ref.symbol
      BY <2>1 DEF SymbolInv, OpenSymbols
    <3>7. BooksAgree'
      BY <2>1, <3>3, <3>4, <3>6 DEF SymbolInv, BooksAgree, OneOpenPositionPerSymbol, EntryRefs
    <3>8. SymbolInv'
      BY <2>1, <3>2, <3>5, <3>7 DEF SymbolInv
    <3>9. CandidatesInv'
      BY <2>1, <3>2, <3>5 DEF CandidatesInv
    <3> QED  BY <3>8, <3>9
  <2> QED  BY <2>2, <2>3
<1>9. CASE EntryMark
  <2>1. /\ SetStatus(entry.ref, "submitted") /\ entry.pc = "mark" /\ entry.ref \in EntryRefs
        /\ entry'.pc = "open" /\ entry'.ref = entry.ref /\ entry'.cands = entry.cands
        /\ positions' = positions
    BY <1>9, <1>a DEF EntryMark, EntryRecord, TypeOK, EntryType, OwnIntent, EntryRefs
  <2>2. Unresolved(entry.ref) /\ \A r \in EntryRefs : Unresolved(r)' = Unresolved(r)
    <3>1. Unresolved(entry.ref)
      BY <2>1 DEF BuyInv
    <3> QED  BY <2>1, <3>1, <1>b DEF SetStatus, Unresolved, EntryRefs
  <2>3. BooksAgree' /\ OpenPositions' = OpenPositions /\ OpenSymbols' = OpenSymbols
    BY <2>1, <2>2, FewerBuys DEF SymbolInv
  <2>4. SymbolInv'
    BY <2>1, <2>2, <2>3 DEF SymbolInv, EntryRefs
  <2>5. CandidatesInv'
    BY <2>1, <2>3 DEF CandidatesInv
  <2> QED  BY <2>4, <2>5
<1>10. CASE EntryOpen
  <2>1. /\ entry.pc = "open" /\ entry'.pc = "loop" /\ entry'.cands = entry.cands
        /\ orders' = orders /\ OpenPosition(entry.ref, orders[entry.ref].qty)
    BY <1>10, <1>a DEF EntryOpen, EntryRecord
  <2>2. /\ entry.ref \in EntryRefs /\ Unresolved(entry.ref)
        /\ entry.ref.symbol \notin OpenSymbols
    BY <2>1 DEF SymbolInv
  <2>3. orders[entry.ref].qty \in Nat
    BY <1>b, <2>2 DEF OrderRow, EntryRefs
  <2>4. BooksAgree' /\ OpenSymbols' = OpenSymbols \cup {entry.ref.symbol}
    BY <1>c, <2>1, <2>2, <2>3, SymbolOpened DEF SymbolInv
  <2>5. SymbolInv'
    BY <2>1, <2>4 DEF SymbolInv
  <2>6. CandidatesInv'
    BY <2>1, <2>4 DEF CandidatesInv
  <2> QED  BY <2>5, <2>6
<1> QED  BY <1>1, <1>2, <1>3, <1>4, <1>5, <1>6, <1>7, <1>8, <1>9, <1>10 DEF EntryStep

LEMMA SymbolsSafe ==
  ASSUME SettledRoster
  PROVE  Spec => [](KeeperInv /\ SymbolInv /\ CandidatesInv)
<1> DEFINE Inv == KeeperInv /\ SymbolInv /\ CandidatesInv
<1>1. TypeOK /\ SubmissionInv /\ BuyInv /\ Inv /\ [Next]_vars => Inv'
  <2> SUFFICES ASSUME TypeOK, SubmissionInv, BuyInv, Inv, [Next]_vars PROVE Inv'
    OBVIOUS
  <2>1. OwnIntent /\ registry' = Profiles /\ killed' = {}
    BY RosterStays DEF SubmissionInv
  <2>2. CASE EntryStep
    BY <2>1, <2>2, EntryStepKeeper, EntryStepSymbols
  <2>3. CASE GuardianStep
    BY <2>1, <2>3, GuardianStepBuys, GuardianBook, SymbolsKept, KeeperKept
  <2>4. CASE OwnerStep
    BY <2>1, <2>4, OwnerStepBuys, OwnerBook, SymbolsKept, KeeperKept
  <2>5. CASE \/ ReconcileStep \/ HumanClear \/ NextDay \/ Crash
             \/ \E r \in Ref : BrokerFill(r) \/ BrokerReject(r)
             \/ \E p \in Profiles : Retire(p)
             \/ UNCHANGED vars
    BY <2>1, <2>5, OtherStepsBuys, OtherBook, SymbolsKept, KeeperKept
  <2> QED  BY <2>2, <2>3, <2>4, <2>5 DEF Next
<1> QED  BY InitSymbols, <1>1, TypeCorrect, SubmissionSafe, BuySafe, PTL DEF Spec

\* While nobody is killed or retired and one family claims the symbols, a
\* symbol never has two open positions, whatever is healed, re-opened or closed
\* by hand and wherever runs die.
THEOREM OnePositionPerSymbol ==
  ASSUME SettledRoster
  PROVE  Spec => []OneOpenPositionPerSymbol
<1>1. SymbolInv => OneOpenPositionPerSymbol
  BY DEF SymbolInv, BooksAgree
<1> QED  BY <1>1, SymbolsSafe, PTL

-----------------------------------------------------------------------------
(* No share is sold twice.                                                 *)

\* An order that may still open a position: it is unresolved, or a run is
\* between the two commits of its heal.
OpeningFor(r) == entry.pc \in {"step0_open", "step1_open"} /\ entry.ref = r
MayOpen(r) == Unresolved(r) \/ OpeningFor(r)

\* A position comes from a BUY that was sent, with its shares, and an order
\* that opened two will open no third.
OriginInv ==
  /\ entry.pc \in {"step0_open", "step1_open"} => orders[entry.ref].status = "filled"
  /\ entry.pc = "open" => broker[entry.ref].placed > 0
  /\ \A i \in DOMAIN positions :
       /\ positions[i].ref \in EntryRefs /\ positions[i].qty = orders[positions[i].ref].qty
       /\ broker[positions[i].ref].placed > 0
  /\ \A r \in EntryRefs : \A i, j \in DOMAIN positions :
       i # j /\ positions[i].ref = r /\ positions[j].ref = r => ~MayOpen(r)

LEMMA InitOrigin == Init => OriginInv
BY DEF Init, OriginInv, IdleEntry

\* Nothing is rewritten: an order keeps its shares and stays sent, a position
\* keeps its order and its shares, and nothing closed opens again.
OrdersKept ==
  \A r \in EntryRefs : Recorded(r) =>
    /\ orders'[r].qty = orders[r].qty
    /\ broker[r].placed > 0 => broker'[r].placed > 0
    /\ MayOpen(r)' => MayOpen(r)
PositionsStay ==
  \A i \in DOMAIN positions :
    /\ i \in DOMAIN positions'
    /\ positions'[i].ref = positions[i].ref /\ positions'[i].qty = positions[i].qty
    /\ i \in OpenPositions' => i \in OpenPositions

\* A step that opens nothing.
LEMMA OriginKept ==
  ASSUME TypeOK, PositionsInv, OriginInv, OrdersKept, PositionsStay,
         DOMAIN positions' = DOMAIN positions,
         entry'.pc \in {"step0_open", "step1_open"} => orders'[entry'.ref].status = "filled",
         entry'.pc = "open" => broker'[entry'.ref].placed > 0
  PROVE  OriginInv'
<1>1. \A i \in DOMAIN positions : positions[i].ref \in EntryRefs /\ Recorded(positions[i].ref)
  BY DEF OriginInv, PositionsInv
<1>2. \A i \in DOMAIN positions :
        /\ positions'[i].ref = positions[i].ref /\ positions'[i].qty = positions[i].qty
        /\ orders'[positions[i].ref].qty = orders[positions[i].ref].qty
        /\ broker[positions[i].ref].placed > 0 => broker'[positions[i].ref].placed > 0
  BY <1>1 DEF PositionsStay, OrdersKept
<1>4. \A i \in DOMAIN positions' :
        /\ positions'[i].ref \in EntryRefs /\ positions'[i].qty = orders'[positions'[i].ref].qty
        /\ broker'[positions'[i].ref].placed > 0
  BY <1>1, <1>2 DEF OriginInv
<1>5. \A r \in EntryRefs : \A i, j \in DOMAIN positions' :
        i # j /\ positions'[i].ref = r /\ positions'[j].ref = r => ~MayOpen(r)'
  BY <1>1, <1>2 DEF OriginInv, OrdersKept
<1> QED  BY <1>4, <1>5 DEF OriginInv, EntryRefs

\* A step that opens a position.
LEMMA OriginOpened ==
  ASSUME TypeOK, PositionsInv, OriginInv, OrdersKept, NEW q \in EntryRefs,
         OpenPosition(q, orders[q].qty), orders' = orders, broker' = broker,
         broker[q].placed > 0,
         (\E i \in DOMAIN positions : positions[i].ref = q) => ~MayOpen(q)',
         entry'.pc \notin {"step0_open", "step1_open", "open"}
  PROVE  OriginInv' /\ PositionsStay
<1>0. positions \in Seq(Position)
  BY DEF TypeOK, LedgerType
<1>n. PICK n \in Nat : n = Len(positions) + 1 /\ DOMAIN positions' = DOMAIN positions \cup {n}
                       /\ n \notin DOMAIN positions
                       /\ positions' = Append(positions, [ref |-> q, qty |-> orders[q].qty,
                                                          status |-> "open"])
  BY <1>0 DEF OpenPosition
<1>1. /\ \A i \in DOMAIN positions : positions'[i] = positions[i]
      /\ positions'[n] = [ref |-> q, qty |-> orders[q].qty, status |-> "open"]
  BY <1>0, <1>n
<1>2. PositionsStay
  BY <1>n, <1>1 DEF PositionsStay, OpenPositions
<1>3. \A i \in DOMAIN positions : positions[i].ref \in EntryRefs /\ Recorded(positions[i].ref)
  BY DEF OriginInv, PositionsInv
<1>5. \A i \in DOMAIN positions' :
        /\ positions'[i].ref \in EntryRefs /\ positions'[i].qty = orders'[positions'[i].ref].qty
        /\ broker'[positions'[i].ref].placed > 0
  <2>1. \A i \in DOMAIN positions :
          /\ positions[i].qty = orders[positions[i].ref].qty
          /\ broker[positions[i].ref].placed > 0
    BY DEF OriginInv
  <2> QED  BY <1>n, <1>1, <1>3, <2>1
<1>6. ASSUME NEW r \in EntryRefs, NEW i \in DOMAIN positions', NEW j \in DOMAIN positions', i # j,
             positions'[i].ref = r, positions'[j].ref = r
      PROVE  ~MayOpen(r)'
  <2>1. CASE i \in DOMAIN positions /\ j \in DOMAIN positions
    <3>1. positions[i].ref = r /\ positions[j].ref = r
      BY <1>1, <1>6, <2>1
    <3>2. ~MayOpen(r) /\ Recorded(r)
      BY <1>3, <1>6, <2>1, <3>1 DEF OriginInv
    <3> QED  BY <3>2 DEF OrdersKept
  <2>2. CASE i = n \/ j = n
    <3>1. r = q /\ \E k \in DOMAIN positions : positions[k].ref = q
      BY <1>n, <1>1, <1>6, <2>2
    <3> QED  BY <3>1
  <2> QED  BY <1>n, <2>1, <2>2
<1>7. OriginInv'
  BY <1>5, <1>6 DEF OriginInv, EntryRefs
<1> QED  BY <1>2, <1>7

\* What the entry pipeline leaves alone, and what it may open.
SellsKept ==
  /\ issuedFor' = issuedFor
  /\ \A x \in Ref : x.intent # "entry" =>
       orders'[x] = orders[x] /\ broker'[x].placed = broker[x].placed
OpenedAsAllowed ==
  \A r \in EntryRefs : HasOpenPositionFor(r)' => HasOpenPositionFor(r) \/ MayOpen(r)

LEMMA SamePositions ==
  ASSUME positions' = positions
  PROVE  /\ PositionsStay /\ OpenedAsAllowed /\ DOMAIN positions' = DOMAIN positions
         /\ OpenPositions' = OpenPositions
BY DEF PositionsStay, OpenedAsAllowed, OpenPositions, HasOpenPositionFor

LEMMA AllowedOpening ==
  ASSUME positions \in Seq(Position), NEW q \in EntryRefs, OpenPosition(q, orders[q].qty), MayOpen(q)
  PROVE  OpenedAsAllowed
<1>1. q \in Ref
  BY DEF EntryRefs
<1>2. /\ Len(positions) \in Nat /\ DOMAIN positions = 1..Len(positions)
      /\ DOMAIN positions' = 1..(Len(positions) + 1)
      /\ \A i \in DOMAIN positions : positions'[i] = positions[i]
      /\ positions'[Len(positions) + 1].ref = q
  BY <1>1, AfterOpenPosition
<1>3. \A i \in DOMAIN positions' : i \in DOMAIN positions \/ positions'[i].ref = q
  BY <1>2
<1> QED  BY <1>2, <1>3 DEF OpenedAsAllowed, HasOpenPositionFor, OpenPositions

LEMMA EntryStepOrigin ==
  ASSUME TypeOK, OwnIntent, StatusInv, BuyInv, PositionsInv, SymbolInv, OriginInv, EntryStep
  PROVE  /\ OriginInv' /\ OrdersKept /\ PositionsStay /\ SellsKept /\ OpenedAsAllowed
         /\ guardian' = guardian
<1>a. entry \in EntryRecord
  BY DEF TypeOK, EntryType, EntryRecord
<1>b. orders \in [Ref -> OrderRow] /\ broker \in [Ref -> Sendings] /\ positions \in Seq(Position)
  BY DEF TypeOK, LedgerType, GatewayType
<1>c. issuedFor' = issuedFor /\ guardian' = guardian
  BY DEF EntryStep, EntryStart, EntryHeal, EntryHealOpen, EntryNothingToScan, EntryScan,
         EntryPick, EntryBlocked, EntryGate, EntryPersist, EntryPlace, EntryMark, EntryOpen,
         EntryDone, EntryOnly
<1>d. EntryRefs \subseteq Ref
  BY DEF EntryRefs
<1>1. ASSUME orders' = orders, broker' = broker, positions' = positions,
             entry'.pc \notin {"step0_open", "step1_open", "open"}
      PROVE  OriginInv' /\ OrdersKept /\ PositionsStay /\ SellsKept /\ OpenedAsAllowed
  <2>1. OrdersKept
    BY <1>1 DEF OrdersKept, MayOpen, OpeningFor, Unresolved
  <2>2. SellsKept
    BY <1>1, <1>c DEF SellsKept
  <2> QED  BY <1>1, <2>1, <2>2, SamePositions, OriginKept
<1>2. CASE \/ EntryStart \/ EntryNothingToScan \/ EntryScan
           \/ (\E c \in entry.cands : EntryPick(c))
           \/ EntryBlocked \/ EntryGate \/ EntryDone
  <2>1. orders' = orders /\ broker' = broker /\ positions' = positions
    BY <1>2 DEF EntryStart, EntryNothingToScan, EntryScan, EntryPick, EntryBlocked, EntryGate,
                EntryDone
  <2>2. CASE EntryStart
    <3>1. entry'.pc = "step0"
      BY <2>2 DEF EntryStart, IdleEntry
    <3> QED  BY <1>1, <1>c, <2>1, <3>1
  <2>3. CASE EntryNothingToScan \/ EntryDone
    <3>1. entry'.pc = "idle"
      BY <2>3 DEF EntryNothingToScan, EntryDone, IdleEntry
    <3> QED  BY <1>1, <1>c, <2>1, <3>1
  <2>4. CASE EntryScan
    <3>1. PICK S, f, c : entry' = [entry EXCEPT !.pc = "loop", !.pool = f, !.cands = c]
      BY <2>4 DEF EntryScan
    <3>2. entry'.pc = "loop"
      BY <1>a, <3>1 DEF EntryRecord
    <3> QED  BY <1>1, <1>c, <2>1, <3>2
  <2>5. CASE \E c \in entry.cands : EntryPick(c)
    <3>1. entry' = IdleEntry \/ \E C, q : entry' = [entry EXCEPT !.pc = "step1", !.cands = C, !.ref = q]
      BY <2>5 DEF EntryPick
    <3>2. entry'.pc \in {"idle", "step1"}
      <4>1. IdleEntry.pc = "idle"
        BY DEF IdleEntry
      <4>2. ASSUME NEW C, NEW q, entry' = [entry EXCEPT !.pc = "step1", !.cands = C, !.ref = q]
            PROVE  entry'.pc = "step1"
        BY <1>a, <4>2 DEF EntryRecord
      <4> QED  BY <3>1, <4>1, <4>2
    <3> QED  BY <1>1, <1>c, <2>1, <3>2
  <2>6. CASE EntryBlocked
    <3>1. entry' = [entry EXCEPT !.pc = "loop"]
      BY <2>6 DEF EntryBlocked
    <3>2. entry'.pc = "loop"
      BY <1>a, <3>1 DEF EntryRecord
    <3> QED  BY <1>1, <1>c, <2>1, <3>2
  <2>7. CASE EntryGate
    <3>1. entry'.pc = "persist"
      BY <1>a, <2>7 DEF EntryGate, EntryRecord
    <3> QED  BY <1>1, <1>c, <2>1, <3>1
  <2> QED  BY <1>2, <1>c, <2>2, <2>3, <2>4, <2>5, <2>6, <2>7
<1>3. CASE EntryHeal
  <2>1. PICK x \in EntryRefs : /\ SetStatus(x, "filled") /\ Unresolved(x)
                               /\ entry'.pc \in {"step0_open", "step1_open"} /\ entry'.ref = x
    BY <1>3, HealIsOfABuy
  <2>2. positions' = positions /\ broker' = broker
    BY <1>3 DEF EntryHeal
  <2>3. /\ \A r \in Ref : orders'[r].qty = orders[r].qty
        /\ orders'[x].status = "filled" /\ \A r \in Ref : r # x => orders'[r] = orders[r]
    BY <1>b, <1>d, <2>1 DEF SetStatus, OrderRow
  <2>4. OrdersKept
    BY <1>d, <2>1, <2>2, <2>3 DEF OrdersKept, MayOpen, OpeningFor, Unresolved
  <2>5. SellsKept
    BY <1>c, <2>1, <2>2, <2>3 DEF SellsKept, EntryRefs
  <2> QED  BY <1>c, <2>1, <2>2, <2>3, <2>4, <2>5, SamePositions, OriginKept
<1>4. CASE EntryHealOpen
  <2>1. /\ orders' = orders /\ broker' = broker
        /\ entry.pc \in {"step0_open", "step1_open"} /\ entry'.pc \in {"step0", "loop"}
    BY <1>4, <1>a DEF EntryHealOpen, EntryRecord
  <2>2. entry.ref \in EntryRefs /\ orders[entry.ref].status = "filled"
    BY <2>1 DEF SymbolInv, OriginInv
  <2>3. CASE HasOpenPositionFor(entry.ref)
    <3>1. positions' = positions
      BY <1>4, <2>3 DEF EntryHealOpen
    <3> QED  BY <1>1, <1>c, <2>1, <3>1
  <2>4. CASE ~HasOpenPositionFor(entry.ref)
    <3>1. OpenPosition(entry.ref, orders[entry.ref].qty)
      BY <1>4, <2>4 DEF EntryHealOpen
    <3>2. broker[entry.ref].placed > 0
      BY <1>d, <2>2 DEF StatusInv, StatusNeverAhead, Executed
    <3>3. PICK q \in EntryRefs : q = entry.ref
      BY <2>2
    <3>4. OpenPosition(q, orders[q].qty) /\ MayOpen(q) /\ broker[q].placed > 0
      BY <2>1, <3>1, <3>2, <3>3 DEF MayOpen, OpeningFor
    <3>5. ~MayOpen(q)'
      BY <2>1, <2>2, <3>3 DEF MayOpen, OpeningFor, Unresolved
    <3>6. OrdersKept
      BY <2>1 DEF OrdersKept, MayOpen, OpeningFor, Unresolved
    <3>7. OriginInv' /\ PositionsStay
      BY <2>1, <3>4, <3>5, <3>6, OriginOpened
    <3>8. OpenedAsAllowed
      BY <1>b, <3>4, AllowedOpening
    <3>9. SellsKept
      BY <1>c, <2>1 DEF SellsKept
    <3> QED  BY <1>c, <3>6, <3>7, <3>8, <3>9
  <2> QED  BY <2>3, <2>4
<1>5. CASE EntryPersist
  <2>1. /\ positions' = positions /\ broker' = broker /\ entry.pc = "persist"
        /\ entry.ref \in EntryRefs
    BY <1>5 DEF EntryPersist, OwnIntent, TypeOK, EntryType, EntryRefs
  <2>2. CASE Recorded(entry.ref)
    <3>1. orders' = orders /\ entry'.pc = "idle"
      BY <1>5, <2>2 DEF EntryPersist, IdleEntry
    <3> QED  BY <1>1, <1>c, <2>1, <3>1
  <2>3. CASE ~Recorded(entry.ref)
    <3>1. /\ \A r \in Ref : r # entry.ref => orders'[r] = orders[r]
          /\ entry'.pc = "place"
      BY <1>5, <1>a, <1>b, <2>3 DEF EntryPersist, RecordOrder, EntryRecord
    <3>2. OrdersKept
      BY <1>d, <2>1, <2>3, <3>1 DEF OrdersKept, MayOpen, OpeningFor, Unresolved
    <3>3. SellsKept
      BY <1>c, <2>1, <3>1 DEF SellsKept, EntryRefs
    <3> QED  BY <1>c, <2>1, <3>1, <3>2, <3>3, SamePositions, OriginKept
  <2> QED  BY <2>2, <2>3
<1>6. CASE EntryPlace
  <2>1. /\ positions' = positions /\ orders' = orders
        /\ entry.ref \in EntryRefs /\ entry'.pc = "mark"
    BY <1>6, <1>a DEF EntryPlace, OwnIntent, TypeOK, EntryType, EntryRefs, EntryRecord
  <2>2. /\ \A r \in Ref : r # entry.ref => broker'[r] = broker[r]
        /\ \A r \in Ref : broker[r].placed > 0 => broker'[r].placed > 0
    BY <1>6, <1>b DEF EntryPlace, PlaceOrder, Sendings
  <2>3. OrdersKept
    BY <1>d, <2>1, <2>2 DEF OrdersKept, MayOpen, OpeningFor, Unresolved
  <2>4. SellsKept
    BY <1>c, <2>1, <2>2 DEF SellsKept, EntryRefs
  <2> QED  BY <1>c, <2>1, <2>3, <2>4, SamePositions, OriginKept
<1>7. CASE EntryMark
  <2>1. /\ positions' = positions /\ broker' = broker /\ SetStatus(entry.ref, "submitted")
        /\ entry.ref \in EntryRefs /\ entry'.pc = "open" /\ entry'.ref = entry.ref
        /\ entry.pc = "mark"
    BY <1>7, <1>a DEF EntryMark, OwnIntent, TypeOK, EntryType, EntryRefs, EntryRecord
  <2>2. Unresolved(entry.ref) /\ broker[entry.ref].placed > 0
    BY <2>1 DEF BuyInv, StatusInv
  <2>3. /\ \A r \in Ref : orders'[r].qty = orders[r].qty
        /\ \A r \in Ref : r # entry.ref => orders'[r] = orders[r]
    BY <1>b, <1>d, <2>1 DEF SetStatus, OrderRow
  <2>4. OrdersKept
    BY <1>d, <2>1, <2>2, <2>3 DEF OrdersKept, MayOpen, OpeningFor, Unresolved
  <2>5. SellsKept
    BY <1>c, <2>1, <2>3 DEF SellsKept, EntryRefs
  <2> QED  BY <1>c, <2>1, <2>2, <2>4, <2>5, SamePositions, OriginKept
<1>8. CASE EntryOpen
  <2>1. /\ orders' = orders /\ broker' = broker /\ entry.pc = "open" /\ entry'.pc = "loop"
        /\ OpenPosition(entry.ref, orders[entry.ref].qty)
    BY <1>8, <1>a DEF EntryOpen, EntryRecord
  <2>2. PICK q \in EntryRefs : q = entry.ref
    BY <2>1 DEF SymbolInv
  <2>3. /\ OpenPosition(q, orders[q].qty) /\ MayOpen(q) /\ broker[q].placed > 0
        /\ ~\E i \in DOMAIN positions : positions[i].ref = q
    BY <2>1, <2>2 DEF SymbolInv, MayOpen, OriginInv, PositionsInv
  <2>4. OrdersKept
    BY <2>1 DEF OrdersKept, MayOpen, OpeningFor, Unresolved
  <2>5. OriginInv' /\ PositionsStay
    BY <2>1, <2>3, <2>4, OriginOpened
  <2>6. OpenedAsAllowed
    BY <1>b, <2>3, AllowedOpening
  <2>7. SellsKept
    BY <1>c, <2>1 DEF SellsKept
  <2> QED  BY <1>c, <2>4, <2>5, <2>6, <2>7
<1> QED  BY <1>2, <1>3, <1>4, <1>5, <1>6, <1>7, <1>8 DEF EntryStep

\* A step of the others: the rows of BUYs stay, and nothing is opened.
LEMMA BuysKept ==
  ASSUME TypeOK, PositionsInv, SymbolInv, OriginInv, BuysUntouched, BookShrinks,
         entry' = entry \/ entry' = IdleEntry
  PROVE  OriginInv' /\ OrdersKept /\ PositionsStay /\ OpenedAsAllowed
<1>1. IdleEntry.pc = "idle"
  BY DEF IdleEntry
<1>2. \A r \in EntryRefs : MayOpen(r)' => MayOpen(r)
  BY <1>1 DEF BuysUntouched, MayOpen, OpeningFor, Unresolved
<1>3. OrdersKept
  BY <1>2 DEF OrdersKept, BuysUntouched
<1>4. PositionsStay /\ DOMAIN positions' = DOMAIN positions
  BY DEF PositionsStay, BookShrinks, OpenPositions
<1>5. OpenedAsAllowed
  BY <1>4 DEF OpenedAsAllowed, HasOpenPositionFor, BookShrinks, OpenPositions
<1>6. /\ entry'.pc \in {"step0_open", "step1_open"} => orders'[entry'.ref].status = "filled"
      /\ entry'.pc = "open" => broker'[entry'.ref].placed > 0
  <2>1. CASE entry' = entry
    <3>1. entry.pc \in {"step0_open", "step1_open", "open"} => entry.ref \in EntryRefs
      BY DEF SymbolInv
    <3> QED  BY <2>1, <3>1 DEF OriginInv, BuysUntouched
  <2> QED  BY <1>1, <2>1
<1> QED  BY <1>3, <1>4, <1>5, <1>6, OriginKept

\* The orders recorded for a position, and the order it was opened for.
Issued == {x \in Ref : issuedFor[x] # 0}
BuyOf(x) == positions[issuedFor[x]].ref

\* The order of a tick between the two commits of a heal, while its position
\* is the last one its BUY can have.
HealClosing(x) ==
  /\ guardian.pc = "heal_close" /\ guardian.ref = x
  /\ positions[guardian.pos].ref = BuyOf(x) /\ ~MayOpen(BuyOf(x))

\* A SELL is for a position of its profile and symbol, and for its shares.
ForItsPosition(x) ==
  /\ issuedFor[x] \in DOMAIN positions /\ x.intent # "entry" /\ Recorded(x)
  /\ x.symbol = BuyOf(x).symbol /\ x.profile = BuyOf(x).profile
  /\ orders[x].qty = orders[BuyOf(x)].qty

\* Once it is sent, its position is closed; as long as its BUY has a position
\* open or may get another, it stays unresolved and keeps a second SELL away.
KeepsOthersAway(x) ==
  /\ issuedFor[x] \in OpenPositions =>
       broker[x].placed = 0 \/ (guardian.pc \in {"mark", "close"} /\ guardian.ref = x)
  /\ HasOpenPositionFor(BuyOf(x)) \/ MayOpen(BuyOf(x)) => Unresolved(x) \/ HealClosing(x)

OneSaleEach == \A x, y \in Issued : BuyOf(x) = BuyOf(y) => x = y

\* What the tick in progress may rely on.
ExitInHand ==
  /\ guardian.pc = "persist" =>
       /\ \A x \in Issued : BuyOf(x) # positions[guardian.pos].ref
       /\ guardian.ref.symbol = positions[guardian.pos].ref.symbol
       /\ guardian.ref.profile = positions[guardian.pos].ref.profile
  /\ guardian.pc \in {"place", "mark", "close"} => issuedFor[guardian.ref] = guardian.pos

SaleInv ==
  /\ \A x \in Ref : x.intent # "entry" /\ Recorded(x) => x \in Issued
  /\ \A x \in Issued : ForItsPosition(x) /\ KeepsOthersAway(x)
  /\ OneSaleEach
  /\ ExitInHand

LEMMA InitSales == Init => SaleInv
BY DEF Init, SaleInv, Issued, OneSaleEach, ExitInHand, IdleGuardian, Recorded

\* A step that records no SELL, sends none and marks none keeps all that, and
\* so does one that ends or starts a tick that has none in hand.
LEMMA SalesKept ==
  ASSUME TypeOK, BookingInv, PositionsInv, OriginInv, SaleInv,
         OrdersKept, PositionsStay, SellsKept, OpenedAsAllowed,
         \/ guardian' = guardian
         \/ /\ guardian.pc \notin {"mark", "close", "heal_close"}
            /\ guardian'.pc \in {"idle", "snapshot", "loop"}
  PROVE  SaleInv'
<1>1. issuedFor' = issuedFor /\ Issued' = Issued
  BY DEF SellsKept, Issued
<1>2. \A x \in Ref : x.intent # "entry" => Recorded(x)' = Recorded(x) /\ Unresolved(x)' = Unresolved(x)
  BY DEF SellsKept, Recorded, Unresolved
<1>3. \A x \in Issued : /\ issuedFor[x] \in DOMAIN positions /\ issuedFor[x] \in DOMAIN positions'
                        /\ BuyOf(x)' = BuyOf(x) /\ BuyOf(x) \in EntryRefs /\ Recorded(BuyOf(x))
                        /\ x \in Ref /\ x.intent # "entry"
  BY <1>1 DEF SaleInv, ForItsPosition, BuyOf, PositionsStay, OriginInv, PositionsInv, Issued
<1>4. \A x \in Issued : ForItsPosition(x)'
  <2> TAKE x \in Issued
  <2>1. orders'[BuyOf(x)].qty = orders[BuyOf(x)].qty /\ orders'[x] = orders[x]
    BY <1>3 DEF OrdersKept, SellsKept
  <2>2. ForItsPosition(x)
    BY DEF SaleInv
  <2>3. PICK b : b = BuyOf(x)
    OBVIOUS
  <2> QED  BY <1>1, <1>2, <1>3, <2>1, <2>2, <2>3 DEF ForItsPosition
<1>5. guardian.pc \in {"persist", "heal_close"} => guardian.pos \in DOMAIN positions
  BY DEF BookingInv, OpenPositions
<1>6. \A x \in Issued : KeepsOthersAway(x)'
  <2> TAKE x \in Issued
  <2>0. KeepsOthersAway(x)
    BY DEF SaleInv
  <2>1. ASSUME issuedFor[x] \in OpenPositions'
        PROVE  broker'[x].placed = 0 \/ (guardian'.pc \in {"mark", "close"} /\ guardian'.ref = x)
    <3>1. issuedFor[x] \in OpenPositions /\ broker'[x].placed = broker[x].placed
      BY <1>3, <2>1 DEF PositionsStay, SellsKept
    <3> QED  BY <2>0, <3>1 DEF KeepsOthersAway
  <2>2. PICK b \in EntryRefs : b = BuyOf(x) /\ BuyOf(x)' = b /\ Recorded(b)
    BY <1>3
  <2>3. HasOpenPositionFor(b)' \/ MayOpen(b)' => HasOpenPositionFor(b) \/ MayOpen(b)
    BY <2>2 DEF OpenedAsAllowed, OrdersKept
  <2>4. MayOpen(b)' => MayOpen(b)
    BY <2>2 DEF OrdersKept
  <2>5. HealClosing(x) => HealClosing(x)'
    BY <1>5, <2>2, <2>4 DEF HealClosing, PositionsStay
  <2>6. HasOpenPositionFor(b)' \/ MayOpen(b)' => Unresolved(x)' \/ HealClosing(x)'
    BY <1>2, <1>3, <2>0, <2>2, <2>3, <2>5 DEF KeepsOthersAway
  <2> QED  BY <1>1, <2>1, <2>2, <2>6 DEF KeepsOthersAway
<1>7. OneSaleEach'
  BY <1>1, <1>3 DEF OneSaleEach, SaleInv
<1>8. ExitInHand'
  <2>1. CASE guardian' = guardian
    <3>1. guardian.pc = "persist" => positions'[guardian.pos].ref = positions[guardian.pos].ref
      BY <1>5 DEF PositionsStay
    <3> QED  BY <1>1, <1>3, <2>1, <3>1 DEF ExitInHand, SaleInv
  <2> QED  BY <2>1 DEF ExitInHand
<1> QED  BY <1>1, <1>2, <1>4, <1>6, <1>7, <1>8 DEF SaleInv

\* A BUY with a position open, or that may still get one.
Alive(r) == HasOpenPositionFor(r) \/ MayOpen(r)

LEMMA BuysOfIssued ==
  ASSUME PositionsInv, OriginInv, SaleInv, PositionsStay, issuedFor' = issuedFor
  PROVE  /\ Issued' = Issued
         /\ \A x \in Issued :
              /\ issuedFor[x] \in DOMAIN positions /\ issuedFor[x] \in DOMAIN positions'
              /\ BuyOf(x)' = BuyOf(x) /\ BuyOf(x) \in EntryRefs /\ Recorded(BuyOf(x))
              /\ x \in Ref /\ x.intent # "entry" /\ Recorded(x)
<1>1. Issued' = Issued
  BY DEF Issued
<1> QED  BY <1>1 DEF SaleInv, ForItsPosition, BuyOf, PositionsStay, OriginInv, PositionsInv, Issued

\* What no BUY had before, none has after.
LEMMA AliveBefore ==
  ASSUME PositionsInv, OriginInv, SaleInv, PositionsStay, issuedFor' = issuedFor,
         OrdersKept, OpenedAsAllowed, NEW x \in Issued
  PROVE  /\ (HasOpenPositionFor(BuyOf(x)) \/ MayOpen(BuyOf(x)))' => Alive(BuyOf(x))
         /\ MayOpen(BuyOf(x))' => MayOpen(BuyOf(x))
<1>1. PICK b \in EntryRefs : b = BuyOf(x) /\ BuyOf(x)' = b /\ Recorded(b)
  BY BuysOfIssued
<1>2. /\ HasOpenPositionFor(b)' \/ MayOpen(b)' => HasOpenPositionFor(b) \/ MayOpen(b)
      /\ MayOpen(b)' => MayOpen(b)
  BY <1>1 DEF OpenedAsAllowed, OrdersKept
<1> QED  BY <1>1, <1>2 DEF Alive

LEMMA SalesFollow ==
  ASSUME PositionsInv, OriginInv, SaleInv, OrdersKept, PositionsStay, issuedFor' = issuedFor,
         \A x \in Ref : x.intent # "entry" =>
           Recorded(x)' = Recorded(x) /\ orders'[x].qty = orders[x].qty,
         \A x \in Issued : KeepsOthersAway(x)',
         ExitInHand'
  PROVE  SaleInv'
<1>1. /\ Issued' = Issued
      /\ \A x \in Issued :
              /\ issuedFor[x] \in DOMAIN positions /\ issuedFor[x] \in DOMAIN positions'
              /\ BuyOf(x)' = BuyOf(x) /\ BuyOf(x) \in EntryRefs /\ Recorded(BuyOf(x))
              /\ x \in Ref /\ x.intent # "entry" /\ Recorded(x)
  BY BuysOfIssued
<1>2. \A x \in Issued : ForItsPosition(x)'
  <2> TAKE x \in Issued
  <2>1. orders'[BuyOf(x)].qty = orders[BuyOf(x)].qty /\ orders'[x].qty = orders[x].qty
    BY <1>1 DEF OrdersKept
  <2>2. ForItsPosition(x)
    BY DEF SaleInv
  <2>3. PICK b : b = BuyOf(x)
    OBVIOUS
  <2> QED  BY <1>1, <2>1, <2>2, <2>3 DEF ForItsPosition
<1>3. OneSaleEach'
  BY <1>1 DEF OneSaleEach, SaleInv
<1>4. \A x \in Ref : x.intent # "entry" /\ Recorded(x)' => x \in Issued'
  BY <1>1 DEF SaleInv
<1> QED  BY <1>1, <1>2, <1>3, <1>4 DEF SaleInv

\* Outside the steps that follow a SELL, none is sent for an open position
\* and each of a live BUY is unresolved.
LEMMA InTheLoop ==
  ASSUME SaleInv, guardian.pc \notin {"mark", "close", "heal_close"}, NEW x \in Issued
  PROVE  /\ issuedFor[x] \in OpenPositions => broker[x].placed = 0
         /\ Alive(BuyOf(x)) => Unresolved(x)
BY DEF SaleInv, KeepsOthersAway, HealClosing, Alive

GuardianRecord ==
  [pc : GuardianPCs, asOf : Days, fills : SUBSET Ref,
   todo : SUBSET DOMAIN positions, pos : Nat, ref : Ref \cup {NoRef}]

LEMMA ExitSales ==
  ASSUME TypeOK, BookingInv, PositionsInv, OriginInv, SaleInv,
         OrdersKept, PositionsStay, OpenedAsAllowed,
         NEW i \in guardian.todo, NEW reason \in ExitReasons, GuardianExit(i, reason)
  PROVE  SaleInv'
<1>a. guardian \in GuardianRecord
  BY DEF TypeOK, GuardianType, GuardianRecord
<1>1. /\ orders' = orders /\ positions' = positions /\ broker' = broker /\ issuedFor' = issuedFor
      /\ entry' = entry /\ guardian.pc = "loop" /\ ExitsOf(i) = {}
  BY DEF GuardianExit, ExitFires, ledger, history, GuardianOnly
<1>2. /\ guardian'.pc = "persist" /\ guardian'.pos = i
      /\ guardian'.ref.profile = positions[i].ref.profile
      /\ guardian'.ref.symbol = positions[i].ref.symbol
  BY <1>a DEF GuardianExit, GuardianRecord, OrderRef
<1>3. i \in OpenPositions
  BY DEF BookingInv
<1>4. /\ Issued' = Issued
      /\ \A x \in Issued : /\ BuyOf(x)' = BuyOf(x) /\ x \in Ref /\ x.intent # "entry"
  BY <1>1, BuysOfIssued
<1>5. ASSUME NEW x \in Issued PROVE KeepsOthersAway(x)'
  <2>1. /\ issuedFor[x] \in OpenPositions => broker[x].placed = 0
        /\ Alive(BuyOf(x)) => Unresolved(x)
    BY <1>1, InTheLoop
  <2>2. (HasOpenPositionFor(BuyOf(x)) \/ MayOpen(BuyOf(x)))' => Alive(BuyOf(x))
    BY <1>1, AliveBefore
  <2> QED  BY <1>1, <2>1, <2>2 DEF KeepsOthersAway, Unresolved, OpenPositions
<1>6. ASSUME NEW x \in Issued PROVE BuyOf(x) # positions[i].ref
  <2> SUFFICES ASSUME BuyOf(x) = positions[i].ref PROVE FALSE
    OBVIOUS
  <2>1. Alive(BuyOf(x))
    BY <1>3 DEF Alive, HasOpenPositionFor
  <2>2. Unresolved(x)
    BY <1>1, <2>1, InTheLoop
  <2>3. x.symbol = positions[i].ref.symbol /\ x.profile = positions[i].ref.profile
    BY DEF SaleInv, ForItsPosition
  <2>4. x \in ExitsOf(i)
    BY <1>4, <2>2, <2>3 DEF ExitsOf, UnresolvedOrders, Side
  <2> QED  BY <1>1, <2>4
<1>7. ExitInHand'
  BY <1>1, <1>2, <1>4, <1>6 DEF ExitInHand
<1>8. \A x \in Ref : x.intent # "entry" =>
        Recorded(x)' = Recorded(x) /\ orders'[x].qty = orders[x].qty
  BY <1>1 DEF Recorded
<1> QED  BY <1>1, <1>5, <1>7, <1>8, SalesFollow

LEMMA PlaceSales ==
  ASSUME TypeOK, BookingInv, PositionsInv, OriginInv, SaleInv,
         OrdersKept, PositionsStay, OpenedAsAllowed, GuardianPlace \/ GuardianMark
  PROVE  SaleInv'
<1>a. guardian \in GuardianRecord
  BY DEF TypeOK, GuardianType, GuardianRecord
<1>b. orders \in [Ref -> OrderRow] /\ broker \in [Ref -> Sendings]
  BY DEF TypeOK, LedgerType, GatewayType
<1>1. /\ positions' = positions /\ issuedFor' = issuedFor /\ entry' = entry
      /\ guardian'.pos = guardian.pos /\ guardian'.ref = guardian.ref
      /\ guardian.pc \in {"place", "mark"} /\ guardian'.pc \in {"mark", "close"}
      /\ guardian.ref \in Ref
  BY <1>a DEF GuardianPlace, GuardianMark, GuardianRecord, ledger, history, GuardianOnly,
              TypeOK, GuardianType
<1>2. /\ \A x \in Ref : x # guardian.ref => orders'[x] = orders[x] /\ broker'[x] = broker[x]
      /\ \A x \in Ref : orders'[x].qty = orders[x].qty
      /\ orders'[guardian.ref].status \in {orders[guardian.ref].status, "submitted"}
  BY <1>b, <1>1 DEF GuardianPlace, GuardianMark, ledger, SetStatus, PlaceOrder, OrderRow
<1>3. /\ Issued' = Issued
      /\ \A x \in Issued : BuyOf(x)' = BuyOf(x) /\ x \in Ref /\ x.intent # "entry" /\ Recorded(x)
  BY <1>1, BuysOfIssued
<1>4. guardian.ref \in Issued
  <2>1. issuedFor[guardian.ref] = guardian.pos
    BY <1>1 DEF SaleInv, ExitInHand
  <2>2. guardian.pos \in DOMAIN positions /\ positions \in Seq(Position)
    BY <1>1 DEF BookingInv, OpenPositions, TypeOK, LedgerType
  <2>3. guardian.pos # 0
    BY <2>2
  <2> QED  BY <1>1, <2>1, <2>3 DEF Issued
<1>5. ASSUME NEW x \in Issued PROVE KeepsOthersAway(x)'
  <2>1. /\ issuedFor[x] \in OpenPositions => broker[x].placed = 0 \/ x = guardian.ref
        /\ Alive(BuyOf(x)) => Unresolved(x)
    BY <1>1 DEF SaleInv, KeepsOthersAway, HealClosing, Alive
  <2>2. (HasOpenPositionFor(BuyOf(x)) \/ MayOpen(BuyOf(x)))' => Alive(BuyOf(x))
    BY <1>1, AliveBefore
  <2>3. Unresolved(x) => Unresolved(x)'
    BY <1>2, <1>3 DEF Unresolved
  <2>4. issuedFor[x] \in OpenPositions =>
          broker'[x].placed = 0 \/ (guardian'.pc \in {"mark", "close"} /\ guardian'.ref = x)
    BY <1>1, <1>2, <1>3, <2>1
  <2> QED  BY <1>1, <2>1, <2>2, <2>3, <2>4 DEF KeepsOthersAway, OpenPositions
<1>6. ExitInHand'
  BY <1>1 DEF ExitInHand, SaleInv
<1>7. \A x \in Ref : x.intent # "entry" =>
        Recorded(x)' = Recorded(x) /\ orders'[x].qty = orders[x].qty
  BY <1>2, <1>3, <1>4 DEF Recorded
<1> QED  BY <1>1, <1>5, <1>6, <1>7, SalesFollow

LEMMA CloseSales ==
  ASSUME TypeOK, BookingInv, PositionsInv, OriginInv, SaleInv,
         OrdersKept, PositionsStay, OpenedAsAllowed, GuardianClose \/ GuardianHealClose
  PROVE  SaleInv'
<1>a. guardian \in GuardianRecord /\ positions \in Seq(Position)
  BY DEF TypeOK, GuardianType, GuardianRecord, LedgerType
<1>0. guardian.pos \in OpenPositions
  BY DEF GuardianClose, GuardianHealClose, BookingInv
<1>1. /\ orders' = orders /\ broker' = broker /\ issuedFor' = issuedFor /\ entry' = entry
      /\ guardian.pc \in {"close", "heal_close"} /\ guardian' = GuardianNext
      /\ ClosePosition(guardian.pos, guardian.ref)
  BY <1>0 DEF GuardianClose, GuardianHealClose, history, GuardianOnly, OpenPositions
<1>2. guardian'.pc = "loop"
  BY <1>a, <1>1 DEF GuardianNext, GuardianRecord
<1>3. /\ Issued' = Issued
      /\ \A x \in Issued : BuyOf(x)' = BuyOf(x) /\ x \in Ref /\ x.intent # "entry" /\ Recorded(x)
  BY <1>1, BuysOfIssued
<1>4. /\ OpenPositions' \subseteq OpenPositions \ {guardian.pos}
      /\ \A j \in DOMAIN positions : positions'[j].ref = positions[j].ref
      /\ DOMAIN positions' = DOMAIN positions
  <2>1. PICK g : g = guardian.pos
    OBVIOUS
  <2>2. ClosePosition(g, guardian.ref) /\ g \in DOMAIN positions
    BY <1>0, <1>1, <2>1 DEF OpenPositions
  <2>3. BookShrinks /\ positions'[g].status = "closed"
    BY <1>a, <2>2, AfterClosePosition
  <2> QED  BY <2>1, <2>3 DEF BookShrinks, OpenPositions
<1>5. ASSUME NEW x \in Issued PROVE KeepsOthersAway(x)'
  <2>0. KeepsOthersAway(x)
    BY DEF SaleInv
  <2>1. issuedFor[x] \in OpenPositions' => broker[x].placed = 0
    <3>1. guardian.pc = "close" => issuedFor[guardian.ref] = guardian.pos
      BY DEF SaleInv, ExitInHand
    <3> QED  BY <1>1, <1>4, <2>0, <3>1 DEF KeepsOthersAway
  <2>2. PICK b : b = BuyOf(x) /\ BuyOf(x)' = b
    BY <1>3
  <2>3. HasOpenPositionFor(b)' \/ MayOpen(b)' => Alive(b)
    BY <1>1, <2>2, AliveBefore
  <2>4. HealClosing(x) => ~HasOpenPositionFor(b)' /\ ~MayOpen(b)'
    <3> SUFFICES ASSUME HealClosing(x) PROVE ~HasOpenPositionFor(b)' /\ ~MayOpen(b)'
      OBVIOUS
    <3>1. positions[guardian.pos].ref = b /\ ~MayOpen(b)
      BY <2>2 DEF HealClosing
    <3>2. \A j \in OpenPositions : positions[j].ref = b => j = guardian.pos
      BY <1>0, <3>1 DEF PositionsInv, OneOpenPositionPerOrder
    <3>3. ~HasOpenPositionFor(b)'
      BY <1>4, <3>2 DEF HasOpenPositionFor, OpenPositions
    <3> QED  BY <1>1, <3>1, <3>3 DEF MayOpen, OpeningFor, Unresolved
  <2>5. HasOpenPositionFor(b)' \/ MayOpen(b)' => Unresolved(x)
    BY <2>0, <2>2, <2>3, <2>4 DEF KeepsOthersAway, Alive
  <2> QED  BY <1>1, <2>1, <2>2, <2>5 DEF KeepsOthersAway, Unresolved
<1>6. ExitInHand'
  BY <1>2 DEF ExitInHand
<1>7. \A x \in Ref : x.intent # "entry" =>
        Recorded(x)' = Recorded(x) /\ orders'[x].qty = orders[x].qty
  BY <1>1 DEF Recorded
<1> QED  BY <1>1, <1>5, <1>6, <1>7, SalesFollow

LEMMA HealExitSales ==
  ASSUME TypeOK, StatusInv, BookingInv, PositionsInv, SymbolInv, OriginInv, SaleInv,
         OrdersKept, PositionsStay, OpenedAsAllowed,
         NEW i \in guardian.todo, GuardianHealExit(i)
  PROVE  SaleInv'
<1>a. guardian \in GuardianRecord /\ orders \in [Ref -> OrderRow]
  BY DEF TypeOK, GuardianType, GuardianRecord, LedgerType
<1>1. /\ positions' = positions /\ broker' = broker /\ issuedFor' = issuedFor /\ entry' = entry
      /\ guardian.pc = "loop"
  BY DEF GuardianHealExit, ExitFires, history, GuardianOnly
<1>2. PICK r \in Ref : /\ SetStatus(r, "filled") /\ r \in guardian.fills
                       /\ r \in ExitsOf(i) /\ r.intent # "entry"
                       /\ guardian' = [guardian EXCEPT !.pc = "heal_close", !.pos = i, !.ref = r]
  BY HealExitIn
<1>3. guardian'.pc = "heal_close" /\ guardian'.pos = i /\ guardian'.ref = r
  BY <1>a, <1>2 DEF GuardianRecord
<1>4. /\ \A x \in Ref : x # r => orders'[x] = orders[x]
      /\ \A x \in Ref : orders'[x].qty = orders[x].qty
      /\ orders'[r].status = "filled"
  BY <1>a, <1>2 DEF SetStatus, OrderRow
<1>5. /\ Unresolved(r) /\ r.symbol = positions[i].ref.symbol /\ broker[r].placed > 0
  BY <1>2 DEF ExitsOf, UnresolvedOrders, StatusInv
<1>6. i \in OpenPositions
  BY DEF BookingInv
<1>7. /\ Issued' = Issued
      /\ \A x \in Issued : /\ BuyOf(x)' = BuyOf(x) /\ BuyOf(x) \in EntryRefs
                           /\ issuedFor[x] \in DOMAIN positions
                           /\ x \in Ref /\ x.intent # "entry" /\ Recorded(x)
  BY <1>1, BuysOfIssued
<1>8. r \in Issued
  BY <1>2, <1>5 DEF SaleInv, Recorded, Unresolved
\* The BUY of r is that of the position at hand, when it is alive at all.
<1>9. Alive(BuyOf(r)) => positions[i].ref = BuyOf(r) /\ ~MayOpen(BuyOf(r))
  <2> SUFFICES ASSUME Alive(BuyOf(r)) PROVE positions[i].ref = BuyOf(r) /\ ~MayOpen(BuyOf(r))
    OBVIOUS
  <2>1. BuyOf(r).symbol = positions[i].ref.symbol
    BY <1>5, <1>8 DEF SaleInv, ForItsPosition
  <2>2. positions[i].ref = BuyOf(r)
    <3>1. CASE HasOpenPositionFor(BuyOf(r))
      BY <1>6, <2>1, <3>1 DEF HasOpenPositionFor, SymbolInv, BooksAgree, OneOpenPositionPerSymbol
    <3>2. CASE Unresolved(BuyOf(r))
      BY <1>6, <1>7, <1>8, <2>1, <3>2 DEF SymbolInv, BooksAgree
    <3>3. CASE OpeningFor(BuyOf(r))
      BY <1>6, <2>1, <3>3 DEF SymbolInv, OpeningFor
    <3> QED  BY <3>1, <3>2, <3>3 DEF Alive, MayOpen
  <2>3. issuedFor[r] \notin OpenPositions
    BY <1>1, <1>5, <1>8, InTheLoop, ConstantsAssumption DEF TypeOK, GatewayType, Sendings
  <2>4. i # issuedFor[r] /\ i \in DOMAIN positions /\ issuedFor[r] \in DOMAIN positions
    BY <1>6, <1>7, <1>8, <2>3 DEF OpenPositions
  <2>5. PICK b \in EntryRefs : b = BuyOf(r)
    BY <1>7, <1>8
  <2>6. positions[i].ref = b /\ positions[issuedFor[r]].ref = b
    BY <2>2, <2>5 DEF BuyOf
  <2>7. ~MayOpen(b)
    BY <2>4, <2>6 DEF OriginInv
  <2> QED  BY <2>2, <2>5, <2>7
<1>10. ASSUME NEW x \in Issued PROVE KeepsOthersAway(x)'
  <2>1. /\ issuedFor[x] \in OpenPositions => broker[x].placed = 0
        /\ Alive(BuyOf(x)) => Unresolved(x)
    BY <1>1, InTheLoop
  <2>2. PICK b : b = BuyOf(x) /\ BuyOf(x)' = b
    BY <1>7
  <2>3. /\ HasOpenPositionFor(b)' \/ MayOpen(b)' => Alive(b)
        /\ MayOpen(b)' => MayOpen(b)
    BY <1>1, <2>2, AliveBefore
  <2>4. x # r => (Unresolved(x) => Unresolved(x)')
    BY <1>4, <1>7 DEF Unresolved
  <2>5. x = r => (Alive(b) => HealClosing(x)')
    BY <1>1, <1>3, <1>9, <2>2, <2>3 DEF HealClosing
  <2> QED  BY <1>1, <2>1, <2>2, <2>3, <2>4, <2>5 DEF KeepsOthersAway, OpenPositions
<1>11. ExitInHand'
  BY <1>3 DEF ExitInHand
<1>12. \A x \in Ref : x.intent # "entry" =>
        Recorded(x)' = Recorded(x) /\ orders'[x].qty = orders[x].qty
  BY <1>4, <1>5 DEF Recorded, Unresolved
<1> QED  BY <1>1, <1>10, <1>11, <1>12, SalesFollow

LEMMA PersistSales ==
  ASSUME TypeOK, SubmissionInv, BookingInv, PositionsInv, OriginInv, SaleInv,
         OrdersKept, PositionsStay, OpenedAsAllowed, GuardianPersist, ~Recorded(guardian.ref)
  PROVE  SaleInv'
<1>a. guardian \in GuardianRecord /\ orders \in [Ref -> OrderRow] /\ issuedFor \in [Ref -> Nat]
  BY DEF TypeOK, GuardianType, GuardianRecord, LedgerType
<1>1. /\ positions' = positions /\ broker' = broker /\ entry' = entry /\ guardian.pc = "persist"
      /\ RecordOrder(guardian.ref, positions[guardian.pos].qty)
      /\ issuedFor' = [issuedFor EXCEPT ![guardian.ref] = guardian.pos]
      /\ guardian' = [guardian EXCEPT !.pc = "place"]
  BY DEF GuardianPersist, GuardianOnly
<1>g. PICK g \in Ref : g = guardian.ref
  BY <1>1 DEF TypeOK, GuardianType
<1>p. PICK p \in DOMAIN positions : p = guardian.pos /\ p # 0
  <2>1. guardian.pos \in DOMAIN positions /\ positions \in Seq(Position)
    BY <1>1 DEF BookingInv, OpenPositions, TypeOK, LedgerType
  <2> QED  BY <2>1
<1>2. /\ guardian'.pc = "place" /\ guardian'.ref = g /\ guardian'.pos = p
      /\ g.intent # "entry" /\ ~Recorded(g)
  BY <1>a, <1>1, <1>g, <1>p, ConstantsAssumption DEF GuardianRecord, SubmissionInv, OwnIntent
<1>3. /\ \A x \in Ref : x # g => orders'[x] = orders[x] /\ issuedFor'[x] = issuedFor[x]
      /\ orders'[g].status = "pending_submit" /\ orders'[g].qty = positions[p].qty
      /\ issuedFor'[g] = p
  BY <1>a, <1>1, <1>g, <1>p DEF RecordOrder
<1>4. positions[p].ref \in EntryRefs /\ Recorded(positions[p].ref)
      /\ positions[p].qty = orders[positions[p].ref].qty
  BY DEF OriginInv, PositionsInv
<1>5. \A x \in Issued : /\ x \in Ref /\ x.intent # "entry" /\ Recorded(x) /\ x # g
                        /\ BuyOf(x)' = BuyOf(x) /\ BuyOf(x) \in EntryRefs /\ Recorded(BuyOf(x))
                        /\ BuyOf(x) # positions[p].ref
  <2> TAKE x \in Issued
  <2>1. ForItsPosition(x) /\ x \in Ref
    BY DEF SaleInv, Issued
  <2>2. x # g /\ issuedFor'[x] = issuedFor[x]
    BY <1>2, <1>3, <2>1 DEF ForItsPosition
  <2>3. BuyOf(x) \in EntryRefs /\ Recorded(BuyOf(x))
    BY <2>1 DEF ForItsPosition, BuyOf, OriginInv, PositionsInv
  <2> QED  BY <1>1, <1>p, <2>1, <2>2, <2>3 DEF ForItsPosition, BuyOf, SaleInv, ExitInHand
<1>6. Issued' = Issued \cup {g}
  BY <1>3, <1>p DEF Issued
<1>7. BuyOf(g)' = positions[p].ref
  BY <1>1, <1>3 DEF BuyOf
<1>8. ASSUME NEW x \in Issued' PROVE ForItsPosition(x)' /\ KeepsOthersAway(x)'
  <2>1. CASE x \in Issued
    <3>1. ForItsPosition(x) /\ KeepsOthersAway(x)
      BY <2>1 DEF SaleInv
    <3>2. issuedFor'[x] = issuedFor[x] /\ orders'[x] = orders[x]
      BY <1>3, <1>5, <2>1
    <3>3. PICK b \in EntryRefs : b = BuyOf(x) /\ BuyOf(x)' = b /\ Recorded(b)
      BY <1>5, <2>1
    <3>4. /\ HasOpenPositionFor(b)' \/ MayOpen(b)' => HasOpenPositionFor(b) \/ MayOpen(b)
          /\ orders'[b].qty = orders[b].qty
      BY <3>3 DEF OpenedAsAllowed, OrdersKept
    <3>5. ForItsPosition(x)'
      BY <1>1, <3>1, <3>2, <3>3, <3>4 DEF ForItsPosition, Recorded
    <3>6. KeepsOthersAway(x)'
      BY <1>1, <3>1, <3>2, <3>3, <3>4 DEF KeepsOthersAway, HealClosing, Unresolved, OpenPositions
    <3> QED  BY <3>5, <3>6
  <2>2. CASE x = g
    <3>1. broker'[g].placed = 0
      <4>1. broker \in [Ref -> Sendings] /\ ~(broker[g].placed > 0)
        BY <1>2 DEF TypeOK, GatewayType, SubmissionInv, PersistBeforeSubmit
      <4> QED  BY <1>1, <4>1 DEF Sendings
    <3>2. Recorded(g)' /\ Unresolved(g)'
      BY <1>3 DEF Recorded, Unresolved
    <3>3. orders'[positions[p].ref].qty = orders[positions[p].ref].qty
      BY <1>4 DEF OrdersKept
    <3>4. g.symbol = positions[p].ref.symbol /\ g.profile = positions[p].ref.profile
      BY <1>1, <1>g, <1>p DEF SaleInv, ExitInHand
    <3>5. PICK b : b = positions[p].ref /\ BuyOf(g)' = b
      BY <1>7
    <3>6. ForItsPosition(g)'
      BY <1>1, <1>2, <1>3, <1>4, <3>2, <3>3, <3>4, <3>5 DEF ForItsPosition
    <3>7. KeepsOthersAway(g)'
      BY <1>1, <3>1, <3>2 DEF KeepsOthersAway
    <3> QED  BY <2>2, <3>6, <3>7
  <2> QED  BY <1>6, <2>1, <2>2
<1>9. OneSaleEach'
  BY <1>5, <1>6, <1>7 DEF OneSaleEach, SaleInv
<1>10. ExitInHand'
  BY <1>2, <1>3 DEF ExitInHand
<1>11. \A x \in Ref : x.intent # "entry" /\ Recorded(x)' => x \in Issued'
  <2> TAKE x \in Ref
  <2>1. x # g => Recorded(x)' = Recorded(x)
    BY <1>3 DEF Recorded
  <2> QED  BY <1>6, <2>1 DEF SaleInv
<1> QED  BY <1>8, <1>9, <1>10, <1>11 DEF SaleInv

LEMMA GuardianStepSales ==
  ASSUME TypeOK, SubmissionInv, StatusInv, BookingInv, PositionsInv, SymbolInv, OriginInv,
         SaleInv, GuardianStep
  PROVE  OriginInv' /\ SaleInv'
<1>1. /\ OriginInv' /\ OrdersKept /\ PositionsStay /\ OpenedAsAllowed
  BY GuardianBuysUntouched, GuardianBook, BuysKept
<1> SUFFICES SaleInv'
  BY <1>1
<1>a. guardian \in GuardianRecord
  BY DEF TypeOK, GuardianType, GuardianRecord
<1>2. ASSUME orders' = orders, broker' = broker, issuedFor' = issuedFor,
             guardian.pc \notin {"mark", "close", "heal_close"},
             guardian'.pc \in {"idle", "snapshot", "loop"}
      PROVE  SaleInv'
  <2>1. SellsKept
    BY <1>2 DEF SellsKept
  <2> QED  BY <1>1, <1>2, <2>1, SalesKept
<1>3. CASE GuardianStart \/ GuardianSnapshot \/ GuardianFinish
  <2>1. /\ orders' = orders /\ broker' = broker /\ issuedFor' = issuedFor
        /\ guardian.pc \in {"idle", "snapshot", "loop"}
    BY <1>3 DEF GuardianStart, GuardianSnapshot, GuardianFinish, ledger, history
  <2>2. guardian'.pc \in {"idle", "snapshot", "loop"}
    <3>1. IdleGuardian.pc = "idle"
      BY DEF IdleGuardian
    <3>2. GuardianStart => guardian'.pc = "snapshot"
      BY DEF GuardianStart, IdleGuardian
    <3>3. GuardianSnapshot => guardian'.pc = "loop"
      BY <1>a DEF GuardianSnapshot, GuardianRecord
    <3>4. GuardianFinish => guardian' = IdleGuardian
      BY DEF GuardianFinish
    <3> QED  BY <1>3, <3>1, <3>2, <3>3, <3>4
  <2> QED  BY <1>2, <2>1, <2>2
<1>4. ASSUME NEW i \in guardian.todo, GuardianHold(i) \/ GuardianInFlight(i) PROVE SaleInv'
  <2>1. /\ orders' = orders /\ broker' = broker /\ issuedFor' = issuedFor
        /\ guardian.pc = "loop"
    BY <1>4 DEF GuardianHold, GuardianInFlight, ExitFires, ledger, history
  <2>2. guardian'.pc = "loop"
    BY <1>4, <1>a, <2>1 DEF GuardianHold, GuardianInFlight, GuardianRecord
  <2> QED  BY <1>2, <2>1, <2>2
<1>5. CASE GuardianPersist
  <2>1. CASE Recorded(guardian.ref)
    <3>1. /\ orders' = orders /\ broker' = broker /\ issuedFor' = issuedFor
          /\ guardian.pc = "persist" /\ guardian'.pc = "idle"
      BY <1>5, <2>1 DEF GuardianPersist, IdleGuardian
    <3> QED  BY <1>2, <3>1
  <2> QED  BY <1>1, <1>5, <2>1, PersistSales
<1>6. ASSUME NEW i \in guardian.todo, GuardianHealExit(i) PROVE SaleInv'
  BY <1>1, <1>6, HealExitSales
<1>7. ASSUME NEW i \in guardian.todo, NEW reason \in ExitReasons, GuardianExit(i, reason)
      PROVE  SaleInv'
  BY <1>1, <1>7, ExitSales
<1>8. CASE GuardianPlace \/ GuardianMark
  BY <1>1, <1>8, PlaceSales
<1>9. CASE GuardianClose \/ GuardianHealClose
  BY <1>1, <1>9, CloseSales
<1> QED  BY <1>1, <1>3, <1>4, <1>5, <1>6, <1>7, <1>8, <1>9 DEF GuardianStep

\* A tick does not die with a SELL in hand that it has sent or healed.
LEMMA OtherStepsSales ==
  ASSUME TypeOK, BookingInv, PositionsInv, SymbolInv, OriginInv, SaleInv,
         \A pc \in {"mark", "close", "heal_close"} : <<"guardian", pc>> \notin CrashPoints,
         \/ ReconcileStep \/ HumanClear \/ NextDay \/ Crash
         \/ \E r \in Ref : BrokerFill(r) \/ BrokerReject(r)
         \/ \E p \in Profiles : Retire(p)
         \/ UNCHANGED vars
  PROVE  OriginInv' /\ SaleInv'
<1>1. OriginInv' /\ OrdersKept /\ PositionsStay /\ OpenedAsAllowed
  BY OtherBuysUntouched, OtherBook, BuysKept
<1>2. orders' = orders /\ issuedFor' = issuedFor
  BY DEF ReconcileStep, ReconcileReadLocal, ReconcileReadPending, ReconcileSnapshot,
         ReconcileRecord, ReconOnly, HumanClear, NextDay, Crash, BrokerFill, BrokerReject,
         BrokerOnly, Retire, vars, ledger, history
<1>3. \A r \in Ref : broker'[r].placed = broker[r].placed
  <2>1. broker \in [Ref -> Sendings]
    BY DEF TypeOK, GatewayType
  <2>2. CASE \E x \in Ref : BrokerFill(x) \/ BrokerReject(x)
    BY <2>1, <2>2 DEF BrokerFill, BrokerReject, Sendings
  <2>3. CASE \/ ReconcileStep \/ HumanClear \/ NextDay \/ Crash
             \/ (\E p \in Profiles : Retire(p)) \/ UNCHANGED vars
    BY <2>3 DEF ReconcileStep, ReconcileReadLocal, ReconcileReadPending, ReconcileSnapshot,
         ReconcileRecord, ReconOnly, HumanClear, NextDay, Crash, Retire, vars, gateway
  <2> QED  BY <2>2, <2>3
<1>4. SellsKept
  BY <1>2, <1>3 DEF SellsKept
<1>5. \/ guardian' = guardian
      \/ <<"guardian", guardian.pc>> \in CrashPoints /\ guardian' = IdleGuardian
  BY DEF ReconcileStep, ReconcileReadLocal, ReconcileReadPending, ReconcileSnapshot,
         ReconcileRecord, ReconOnly, HumanClear, NextDay, Crash, BrokerFill, BrokerReject,
         BrokerOnly, Retire, vars
<1>6. IdleGuardian.pc = "idle"
  BY DEF IdleGuardian
<1>7. \/ guardian' = guardian
      \/ /\ guardian.pc \notin {"mark", "close", "heal_close"}
         /\ guardian'.pc \in {"idle", "snapshot", "loop"}
  BY <1>5, <1>6
<1> QED  BY <1>1, <1>4, <1>7, SalesKept

LEMMA SalesSafe ==
  ASSUME SettledRoster, "owner" \notin Processes,
         \A pc \in {"mark", "close", "heal_close"} : <<"guardian", pc>> \notin CrashPoints
  PROVE  Spec => [](OriginInv /\ SaleInv)
<1> DEFINE Known == TypeOK /\ SubmissionInv /\ StatusInv /\ BuyInv /\ PositionsInv
                    /\ BookingInv /\ SymbolInv
           Inv == OriginInv /\ SaleInv
<1>1. Known /\ Inv /\ [Next]_vars => Inv'
  <2> SUFFICES ASSUME Known, Inv, [Next]_vars PROVE Inv'
    OBVIOUS
  <2>1. CASE EntryStep
    <3>1. /\ OriginInv' /\ OrdersKept /\ PositionsStay /\ SellsKept /\ OpenedAsAllowed
          /\ guardian' = guardian
      BY <2>1, EntryStepOrigin DEF SubmissionInv
    <3> QED  BY <3>1, SalesKept
  <2>2. CASE GuardianStep
    BY <2>2, GuardianStepSales
  <2>3. ~OwnerStep
    BY DEF BookingInv, OwnerStep, OwnerStart, OwnerPersist, OwnerPlace, OwnerMark, OwnerClose
  <2>4. CASE \/ ReconcileStep \/ HumanClear \/ NextDay \/ Crash
             \/ \E r \in Ref : BrokerFill(r) \/ BrokerReject(r)
             \/ \E p \in Profiles : Retire(p)
             \/ UNCHANGED vars
    BY <2>4, OtherStepsSales
  <2> QED  BY <2>1, <2>2, <2>3, <2>4 DEF Next
<1>2. Spec => []Known
  BY TypeCorrect, SubmissionSafe, StatusSafe, BuySafe, PositionsSafe, BookingSafe, SymbolsSafe, PTL
<1>3. Init => Inv
  BY InitOrigin, InitSales
<1> HIDE DEF Known, Inv
<1>4. Spec => []Inv
  BY <1>1, <1>2, <1>3, PTL DEF Spec
<1> QED  BY <1>4, PTL DEF Inv

LEMMA SentIsFinite ==
  ASSUME TypeOK, NEW s, NEW side
  PROVE  IsFiniteSet(Sent(s, side))
<1> DEFINE S == {q \in Ref : q.symbol = s /\ Side(q) = side}
           Lot(r) == {r} \X (1..(broker[r].placed * orders[r].qty))
           T == {Lot(r) : r \in S}
           f == [r \in S |-> Lot(r)]
<1>1. IsFiniteSet(S)
  BY FS_Subset, ConstantsAssumption
<1>2. f \in Surjection(S, T)
  BY DEF Surjection
<1>3. IsFiniteSet(T)
  BY <1>1, <1>2, FS_Surjection
<1>4. ASSUME NEW r \in S PROVE IsFiniteSet(Lot(r))
  <2>1. broker[r].placed * orders[r].qty \in Int
    BY DEF TypeOK, LedgerType, GatewayType, OrderRow, Sendings
  <2>2. IsFiniteSet(1..(broker[r].placed * orders[r].qty))
    BY <2>1, FS_Interval
  <2> QED  BY <2>2, FS_Singleton, FS_Product
<1>5. IsFiniteSet(UNION T)
  BY <1>3, <1>4, FS_UNION
<1> QED  BY <1>5 DEF Sent

\* Without closes by hand, with a settled roster, and as long as no tick dies
\* with a SELL in hand that it has sent or healed, the gateway never gets SELL
\* orders for more shares of a symbol than it got BUYs, although a healed BUY
\* may open a second position for shares already sold: the SELL of the first
\* is still unresolved then, and the second is never sold.
THEOREM SharesAreSoldOnce ==
  ASSUME SettledRoster, "owner" \notin Processes,
         \A pc \in {"mark", "close", "heal_close"} : <<"guardian", pc>> \notin CrashPoints
  PROVE  Spec => []NeverOversells
<1>1. TypeOK /\ SubmissionInv /\ OriginInv /\ SaleInv => NeverOversells
  <2> SUFFICES ASSUME TypeOK, SubmissionInv, OriginInv, SaleInv, NEW s \in Symbols
               PROVE  Cardinality(Sent(s, "sell")) <= Cardinality(Sent(s, "buy"))
    BY DEF NeverOversells
  <2> DEFINE f == [t \in Sent(s, "sell") |-> <<BuyOf(t[1]), t[2]>>]
  <2>0. broker \in [Ref -> Sendings] /\ orders \in [Ref -> OrderRow]
    BY DEF TypeOK, LedgerType, GatewayType
  <2>1. ASSUME NEW x \in Ref, Side(x) = "sell", x.symbol = s, broker[x].placed > 0
        PROVE  /\ x \in Issued /\ BuyOf(x) \in Ref /\ Side(BuyOf(x)) = "buy" /\ BuyOf(x).symbol = s
               /\ orders[BuyOf(x)].qty = orders[x].qty
               /\ broker[BuyOf(x)].placed = 1 /\ broker[x].placed = 1
    <3>1. x \in Issued
      BY <2>1 DEF SaleInv, Side, SubmissionInv, PersistBeforeSubmit
    <3>2. /\ issuedFor[x] \in DOMAIN positions /\ BuyOf(x).symbol = s
          /\ orders[BuyOf(x)].qty = orders[x].qty
      BY <2>1, <3>1 DEF SaleInv, ForItsPosition
    <3>3. BuyOf(x) \in EntryRefs /\ broker[BuyOf(x)].placed > 0
      BY <3>2 DEF OriginInv, BuyOf
    <3>4. \A r \in Ref : broker[r].placed > 0 => broker[r].placed = 1
      BY <2>0 DEF Sendings, SubmissionInv, SubmittedAtMostOnce
    <3> QED  BY <2>1, <3>1, <3>2, <3>3, <3>4 DEF EntryRefs, Side
  <2>2. ASSUME NEW t \in Sent(s, "sell")
        PROVE  /\ t[1] \in Ref /\ Side(t[1]) = "sell" /\ t[1].symbol = s
               /\ t = <<t[1], t[2]>> /\ broker[t[1]].placed > 0
               /\ t[2] \in 1..orders[t[1]].qty
    <3>1. PICK r \in Ref : /\ r.symbol = s /\ Side(r) = "sell"
                           /\ t \in {r} \X (1..(broker[r].placed * orders[r].qty))
      BY <2>2 DEF Sent
    <3>2. broker[r].placed \in Nat /\ orders[r].qty \in Nat /\ broker[r].placed <= 1
      BY <2>0 DEF Sendings, OrderRow, SubmissionInv, SubmittedAtMostOnce
    <3>3. broker[r].placed > 0 /\ t[2] \in 1..orders[r].qty
      <4>1. broker[r].placed = 0 \/ broker[r].placed = 1
        BY <3>2
      <4> QED  BY <3>1, <3>2, <4>1
    <3> QED  BY <3>1, <3>3
  <2>3. ASSUME NEW t \in Sent(s, "sell") PROVE f[t] \in Sent(s, "buy")
    <3>1. PICK b \in Ref : /\ b = BuyOf(t[1]) /\ Side(b) = "buy" /\ b.symbol = s
                           /\ orders[b].qty = orders[t[1]].qty /\ broker[b].placed = 1
      BY <2>1, <2>2, <2>3
    <3>2. broker[b].placed * orders[b].qty = orders[t[1]].qty
      BY <2>0, <3>1 DEF OrderRow
    <3>3. <<b, t[2]>> \in {b} \X (1..(broker[b].placed * orders[b].qty))
      BY <2>2, <2>3, <3>2
    <3> QED  BY <3>1, <3>3 DEF Sent
  <2>4. ASSUME NEW t \in Sent(s, "sell"), NEW u \in Sent(s, "sell"), f[t] = f[u] PROVE t = u
    <3>1. BuyOf(t[1]) = BuyOf(u[1]) /\ t[2] = u[2]
      BY <2>4
    <3>2. t[1] \in Issued /\ u[1] \in Issued
      BY <2>1, <2>2, <2>4
    <3>3. t[1] = u[1]
      BY <3>1, <3>2 DEF SaleInv, OneSaleEach
    <3> QED  BY <2>2, <2>4, <3>1, <3>3
  <2>5. f \in Injection(Sent(s, "sell"), Sent(s, "buy"))
    BY <2>3, <2>4 DEF Injection, IsInjective
  <2> QED  BY <2>5, SentIsFinite, FS_Injection
<1> QED  BY <1>1, SalesSafe, TypeCorrect, SubmissionSafe, PTL
=============================================================================
