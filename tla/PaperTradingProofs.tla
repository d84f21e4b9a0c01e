-------------------------- MODULE PaperTradingProofs --------------------------
(***************************************************************************)
(* What holds of PaperTrading for every set of symbols, profiles, exit     *)
(* intents, quantities and dates, and wherever a run may die: types, and   *)
(* that submission is safe.  An order is recorded before it is sent, and   *)
(* sent at most once, whichever of the processes sends it.                 *)
(***************************************************************************)
EXTENDS PaperTradingProperties, SequenceTheorems, CommonLemmas

-----------------------------------------------------------------------------
(* Lemmas about the helper operators.                                      *)

\* The oldest of a nonempty set of references is one of them.
LEMMA OldestIn ==
  ASSUME orders \in [Ref -> OrderRow], NEW S, S \subseteq Ref, S # {}
  PROVE  Oldest(S) \in S
<1> DEFINE T == {orders[r].row : r \in S}
<1>1. T \subseteq Nat /\ T # {}
  BY DEF OrderRow
<1>2. PICK m \in T : \A n \in T : m <= n
  BY <1>1, LeastNat
<1>3. PICK r \in S : orders[r].row = m
  BY <1>2
<1>4. \A q \in S : orders[r].row <= orders[q].row
  BY <1>2, <1>3
<1> QED  BY <1>4 DEF Oldest

\* The least of a nonempty set of naturals is one of them.
LEMMA MinIn ==
  ASSUME NEW S, S \subseteq Nat, S # {}
  PROVE  Min(S) \in S
<1>1. PICK m \in S : \A n \in S : m <= n
  BY LeastNat
<1> QED  BY <1>1 DEF Min

\* A new row takes its place after a natural number of rows.
LEMMA RowCount == Cardinality({x \in Ref : Recorded(x)}) \in Nat
<1>1. {x \in Ref : Recorded(x)} \in SUBSET Ref
  OBVIOUS
<1>2. IsFiniteSet({x \in Ref : Recorded(x)})
  BY <1>1, FS_Subset, ConstantsAssumption
<1> QED  BY <1>2, FS_CardinalityType

-----------------------------------------------------------------------------
(* Type correctness: what each ledger and gateway write leaves behind.     *)

LEMMA RecordOrderType ==
  ASSUME orders \in [Ref -> OrderRow], NEW r \in Ref, NEW q \in Nat, RecordOrder(r, q)
  PROVE  orders' \in [Ref -> OrderRow]
BY RowCount DEF RecordOrder, OrderRow

LEMMA SetStatusType ==
  ASSUME orders \in [Ref -> OrderRow], NEW r \in Ref,
         NEW status \in {"submitted", "filled"}, SetStatus(r, status)
  PROVE  orders' \in [Ref -> OrderRow]
BY DEF SetStatus, OrderRow

LEMMA OpenPositionType ==
  ASSUME positions \in Seq(Position), NEW r \in Ref, NEW q \in Nat, OpenPosition(r, q)
  PROVE  positions' \in Seq(Position) /\ DOMAIN positions \subseteq DOMAIN positions'
<1> DEFINE new == [ref |-> r, qty |-> q, status |-> "open"]
<1>1. new \in Position
  BY DEF Position
<1>2. positions' = Append(positions, new)
  BY DEF OpenPosition
<1> HIDE DEF new
<1>3. positions' \in Seq(Position) /\ Len(positions') = Len(positions) + 1
  BY <1>1, <1>2, AppendProperties
<1>4. DOMAIN positions = 1..Len(positions) /\ DOMAIN positions' = 1..Len(positions')
  BY <1>3
<1>5. Len(positions) \in Nat
  OBVIOUS
<1> QED  BY <1>3, <1>4, <1>5

\* A position in the book is a position.
LEMMA PositionAt ==
  ASSUME positions \in Seq(Position), NEW i \in DOMAIN positions
  PROVE  positions[i] \in Position /\ positions[i].ref \in Ref /\ positions[i].qty \in Nat
<1>1. i \in 1..Len(positions)
  OBVIOUS
<1>2. positions[i] \in Position
  BY <1>1, ElementOfSeq
<1> QED  BY <1>2 DEF Position

LEMMA ClosePositionType ==
  ASSUME positions \in Seq(Position), trades \in Seq(Trade),
         NEW i \in DOMAIN positions, NEW r \in Ref, ClosePosition(i, r)
  PROVE  /\ positions' \in Seq(Position) /\ DOMAIN positions' = DOMAIN positions
         /\ trades' \in Seq(Trade)
<1>1. [positions[i] EXCEPT !.status = "closed"] \in Position
  BY PositionAt DEF Position
<1>2. positions' = [positions EXCEPT ![i] = [positions[i] EXCEPT !.status = "closed"]]
  BY DEF ClosePosition
<1>3. positions' \in Seq(Position) /\ DOMAIN positions' = DOMAIN positions
  BY <1>1, <1>2
<1>4. [position |-> i, exitRef |-> r] \in Trade
  BY DEF Trade
<1> QED  BY <1>3, <1>4 DEF ClosePosition

LEMMA PlaceOrderType ==
  ASSUME broker \in [Ref -> Sendings], NEW r \in Ref, PlaceOrder(r)
  PROVE  broker' \in [Ref -> Sendings]
BY DEF PlaceOrder, Sendings

\* The initial state has its type.
LEMMA InitType == Init => TypeOK
<1> SUFFICES ASSUME Init PROVE TypeOK
  OBVIOUS
<1> USE DEF Init
<1>1. day \in Days
  BY ConstantsAssumption DEF Days
<1>2. LedgerType
  BY DEF LedgerType, OrderRow
<1>3. ControlType
  BY DEF ControlType
<1>4. GatewayType
  BY DEF GatewayType, Sendings
<1>5. EntryType
  BY <1>1 DEF EntryType, IdleEntry, EntryPCs
<1>6. GuardianType
  BY <1>1 DEF GuardianType, IdleGuardian, GuardianPCs
<1>7. ReconType
  BY DEF ReconType, IdleRecon, ReconPCs
<1>8. OwnerType
  BY DEF OwnerType, IdleOwner, OwnerPCs
<1> QED  BY <1>1, <1>2, <1>3, <1>4, <1>5, <1>6, <1>7, <1>8 DEF TypeOK

-----------------------------------------------------------------------------
(* The entry pipeline keeps the types.                                     *)

\* What is left to show of a step that only the entry pipeline takes.
LEMMA EntryFrame ==
  ASSUME TypeOK, EntryOnly, EntryType', lateBuys' \in Nat,
         orders' \in [Ref -> OrderRow], broker' \in [Ref -> Sendings],
         positions' \in Seq(Position), DOMAIN positions \subseteq DOMAIN positions'
  PROVE  TypeOK'
<1> USE DEF TypeOK, EntryOnly, control
<1>1. LedgerType' /\ ControlType' /\ GatewayType'
  BY DEF LedgerType, ControlType, GatewayType
<1>2. GuardianType'
  BY DEF GuardianType
<1>3. ReconType' /\ OwnerType'
  BY DEF ReconType, OwnerType
<1> QED  BY <1>1, <1>2, <1>3

LEMMA EntryFrameQuiet ==
  ASSUME TypeOK, EntryOnly, EntryType', UNCHANGED <<orders, positions, broker, lateBuys>>
  PROVE  TypeOK'
<1>1. /\ lateBuys' \in Nat
      /\ orders' \in [Ref -> OrderRow] /\ broker' \in [Ref -> Sendings]
      /\ positions' \in Seq(Position) /\ DOMAIN positions \subseteq DOMAIN positions'
  BY DEF TypeOK, LedgerType, GatewayType
<1> QED  BY <1>1, EntryFrame

\* What is due in a heal is a set of references.
LEMMA EntryDueIn ==
  ASSUME TypeOK, EntryHeal
  PROVE  \E r \in Ref : /\ SetStatus(r, "filled")
                        /\ entry' = [entry EXCEPT
                             !.pc = IF @ = "step0" THEN "step0_open" ELSE "step1_open",
                             !.todo = @ \ {r}, !.ref = r]
                        /\ r \in entry.todo \/ r \in entry.fills
<1> DEFINE due == IF entry.pc = "step0" THEN entry.todo
                  ELSE Matches(EntryUnresolved, entry.fills)
<1>1. due \subseteq Ref /\ due # {}
  BY DEF TypeOK, EntryType, EntryHeal, Matches
<1>2. Oldest(due) \in due
  BY <1>1, OldestIn DEF TypeOK, LedgerType
<1>3. Oldest(due) \in entry.todo \/ Oldest(due) \in entry.fills
  BY <1>2 DEF Matches
<1>4. /\ SetStatus(Oldest(due), "filled")
      /\ entry' = [entry EXCEPT
           !.pc = IF @ = "step0" THEN "step0_open" ELSE "step1_open",
           !.todo = @ \ {Oldest(due)}, !.ref = Oldest(due)]
  BY DEF EntryHeal
<1> HIDE DEF due
<1> QED  BY <1>1, <1>2, <1>3, <1>4

\* Every reference an entry run builds is one.
LEMMA EntryPickIn ==
  ASSUME TypeOK, NEW c \in entry.cands, EntryPick(c)
  PROVE  \/ entry' = IdleEntry
         \/ \E p \in entry.pool :
              entry' = [entry EXCEPT !.pc = "step1", !.cands = @ \ {c},
                          !.ref = OrderRef(p, c[1], entry.asOf, "entry")]
<1> DEFINE live == {p \in entry.pool : Family[p] = c[2]}
<1>1. CASE live = {}
  BY <1>1 DEF EntryPick
<1>2. CASE live # {}
  <2>1. c[1] \in Symbols /\ live \in (SUBSET Profiles) \ {{}}
    BY <1>2 DEF TypeOK, EntryType
  <2>2. AssignProfile[<<c[1], live>>] \in live
    BY <2>1, ConstantsAssumption
  <2>3. entry' = [entry EXCEPT !.pc = "step1", !.cands = @ \ {c},
                    !.ref = OrderRef(AssignProfile[<<c[1], live>>], c[1], entry.asOf, "entry")]
    BY <1>2 DEF EntryPick
  <2> QED  BY <2>2, <2>3
<1> QED  BY <1>1, <1>2

LEMMA OrderRefIn ==
  ASSUME NEW p \in Profiles, NEW s \in Symbols, NEW d \in Days, NEW i \in Intents
  PROVE  /\ OrderRef(p, s, d, i) \in Ref
         /\ OrderRef(p, s, d, i).intent = i
BY DEF OrderRef, Ref

LEMMA EntryStepType == TypeOK /\ EntryStep => TypeOK'
<1> SUFFICES ASSUME TypeOK, EntryStep PROVE TypeOK'
  OBVIOUS
<1>0. IdleEntry \in [pc : EntryPCs, asOf : Days, fills : SUBSET Ref, todo : SUBSET Ref,
                     cands : SUBSET (Symbols \X {Family[p] : p \in Profiles}),
                     pool : SUBSET Profiles, ref : Ref \cup {NoRef}]
  BY ConstantsAssumption DEF IdleEntry, EntryPCs, Days
<1> USE DEF EntryType, EntryPCs
<1>1. CASE EntryStart
  <2>1. EntryType'
    BY <1>0, <1>1 DEF TypeOK, GatewayType, EntryStart, IdleEntry
  <2> QED  BY <1>1, <2>1, EntryFrameQuiet DEF EntryStart
<1>2. CASE EntryHeal
  <2>1. PICK r \in Ref : /\ SetStatus(r, "filled")
                         /\ entry' = [entry EXCEPT
                              !.pc = IF @ = "step0" THEN "step0_open" ELSE "step1_open",
                              !.todo = @ \ {r}, !.ref = r]
    BY <1>2, EntryDueIn
  <2>2. EntryType'
    BY <2>1 DEF TypeOK
  <2>3. orders' \in [Ref -> OrderRow]
    BY <2>1, SetStatusType DEF TypeOK, LedgerType
  <2>4. broker' \in [Ref -> Sendings] /\ positions' \in Seq(Position) /\ lateBuys' \in Nat
        /\ DOMAIN positions \subseteq DOMAIN positions' /\ EntryOnly
    BY <1>2 DEF EntryHeal, TypeOK, LedgerType, GatewayType
  <2> QED  BY <2>2, <2>3, <2>4, EntryFrame
<1>3. CASE EntryHealOpen
  <2>1. EntryType'
    BY <1>3 DEF EntryHealOpen, TypeOK
  <2>2. entry.ref \in Ref /\ orders[entry.ref].qty \in Nat
    BY <1>3 DEF EntryHealOpen, TypeOK, LedgerType, OrderRow
  <2>3. positions' \in Seq(Position) /\ DOMAIN positions \subseteq DOMAIN positions'
    BY <1>3, <2>2, OpenPositionType DEF EntryHealOpen, TypeOK, LedgerType
  <2>4. /\ broker' \in [Ref -> Sendings] /\ orders' \in [Ref -> OrderRow]
        /\ lateBuys' \in Nat /\ EntryOnly
    BY <1>3 DEF EntryHealOpen, TypeOK, LedgerType, GatewayType
  <2> QED  BY <2>1, <2>3, <2>4, EntryFrame
<1>4. CASE EntryNothingToScan
  <2>1. EntryType'
    BY <1>0, <1>4 DEF EntryNothingToScan, IdleEntry
  <2> QED  BY <1>4, <2>1, EntryFrameQuiet DEF EntryNothingToScan
<1>5. CASE EntryScan
  <2>0. PICK S \in SUBSET (Symbols \ OpenSymbols) :
          \E claim \in [S -> {Family[p] : p \in registry}] :
            entry' = [entry EXCEPT !.pc = "loop", !.pool = LivePool,
                                   !.cands = {<<s, claim[s]>> : s \in S}]
    BY <1>5 DEF EntryScan
  <2>1. PICK claim \in [S -> {Family[p] : p \in registry}] :
          entry' = [entry EXCEPT !.pc = "loop", !.pool = LivePool,
                                 !.cands = {<<s, claim[s]>> : s \in S}]
    BY <2>0
  <2>2. {<<s, claim[s]>> : s \in S} \subseteq Symbols \X {Family[p] : p \in Profiles}
    BY DEF TypeOK, ControlType
  <2>3. LivePool \subseteq Profiles
    BY DEF LivePool, TypeOK, ControlType
  <2>4. EntryType'
    BY <2>1, <2>2, <2>3 DEF TypeOK
  <2> QED  BY <1>5, <2>4, EntryFrameQuiet DEF EntryScan
<1>6. CASE \E c \in entry.cands : EntryPick(c)
  <2>1. PICK c \in entry.cands : EntryPick(c)
    BY <1>6
  <2>2. CASE entry' = IdleEntry
    <3>1. EntryType'
      BY <1>0, <2>2 DEF IdleEntry
    <3> QED  BY <2>1, <3>1, EntryFrameQuiet DEF EntryPick
  <2>3. CASE \E p \in entry.pool :
               entry' = [entry EXCEPT !.pc = "step1", !.cands = @ \ {c},
                           !.ref = OrderRef(p, c[1], entry.asOf, "entry")]
    <3>1. PICK p \in entry.pool :
            entry' = [entry EXCEPT !.pc = "step1", !.cands = @ \ {c},
                        !.ref = OrderRef(p, c[1], entry.asOf, "entry")]
      BY <2>3
    <3>2. p \in Profiles /\ c[1] \in Symbols /\ entry.asOf \in Days
      BY DEF TypeOK
    <3>3. OrderRef(p, c[1], entry.asOf, "entry") \in Ref
      BY <3>2, OrderRefIn DEF Intents
    <3>4. EntryType'
      BY <3>1, <3>3 DEF TypeOK
    <3> QED  BY <2>1, <3>4, EntryFrameQuiet DEF EntryPick
  <2> QED  BY <2>1, <2>2, <2>3, EntryPickIn
<1>7. CASE EntryBlocked
  <2>1. EntryType'
    BY <1>7 DEF EntryBlocked, TypeOK
  <2> QED  BY <1>7, <2>1, EntryFrameQuiet DEF EntryBlocked
<1>8. CASE EntryGate
  <2>1. EntryType'
    BY <1>8 DEF EntryGate, TypeOK
  <2> QED  BY <1>8, <2>1, EntryFrameQuiet DEF EntryGate
<1>9. CASE EntryPersist
  <2>1. EntryType'
    BY <1>0, <1>9 DEF EntryPersist, TypeOK, IdleEntry
  <2>2. orders' \in [Ref -> OrderRow]
    <3>1. CASE Recorded(entry.ref)
      BY <1>9, <3>1 DEF EntryPersist, TypeOK, LedgerType
    <3>2. CASE ~Recorded(entry.ref)
      <4>1. PICK q \in Quantities : RecordOrder(entry.ref, q)
        BY <1>9, <3>2 DEF EntryPersist
      <4>2. q \in Nat /\ entry.ref \in Ref
        BY <1>9, ConstantsAssumption DEF EntryPersist, TypeOK
      <4> QED  BY <4>1, <4>2, RecordOrderType DEF TypeOK, LedgerType
    <3> QED  BY <3>1, <3>2
  <2>3. broker' \in [Ref -> Sendings] /\ positions' \in Seq(Position) /\ lateBuys' \in Nat
        /\ DOMAIN positions \subseteq DOMAIN positions' /\ EntryOnly
    BY <1>9 DEF EntryPersist, TypeOK, LedgerType, GatewayType
  <2> QED  BY <2>1, <2>2, <2>3, EntryFrame
<1>10. CASE EntryPlace
  <2>1. EntryType'
    BY <1>10 DEF EntryPlace, TypeOK
  <2>2. broker' \in [Ref -> Sendings]
    BY <1>10, PlaceOrderType DEF EntryPlace, TypeOK, GatewayType
  <2>3. orders' \in [Ref -> OrderRow] /\ positions' \in Seq(Position) /\ lateBuys' \in Nat
        /\ DOMAIN positions \subseteq DOMAIN positions' /\ EntryOnly
    BY <1>10 DEF EntryPlace, TypeOK, LedgerType
  <2> QED  BY <2>1, <2>2, <2>3, EntryFrame
<1>11. CASE EntryMark
  <2>1. EntryType'
    BY <1>11 DEF EntryMark, TypeOK
  <2>2. orders' \in [Ref -> OrderRow]
    BY <1>11, SetStatusType DEF EntryMark, TypeOK, LedgerType
  <2>3. broker' \in [Ref -> Sendings] /\ positions' \in Seq(Position) /\ lateBuys' \in Nat
        /\ DOMAIN positions \subseteq DOMAIN positions' /\ EntryOnly
    BY <1>11 DEF EntryMark, TypeOK, LedgerType, GatewayType
  <2> QED  BY <2>1, <2>2, <2>3, EntryFrame
<1>12. CASE EntryOpen
  <2>1. EntryType'
    BY <1>12 DEF EntryOpen, TypeOK
  <2>2. entry.ref \in Ref /\ orders[entry.ref].qty \in Nat
    BY <1>12 DEF EntryOpen, TypeOK, LedgerType, OrderRow
  <2>3. positions' \in Seq(Position) /\ DOMAIN positions \subseteq DOMAIN positions'
    BY <1>12, <2>2, OpenPositionType DEF EntryOpen, TypeOK, LedgerType
  <2>4. /\ broker' \in [Ref -> Sendings] /\ orders' \in [Ref -> OrderRow]
        /\ lateBuys' \in Nat /\ EntryOnly
    BY <1>12 DEF EntryOpen, TypeOK, LedgerType, GatewayType
  <2> QED  BY <2>1, <2>3, <2>4, EntryFrame
<1>13. CASE EntryDone
  <2>1. EntryType'
    BY <1>0, <1>13 DEF EntryDone, IdleEntry
  <2> QED  BY <1>13, <2>1, EntryFrameQuiet DEF EntryDone
<1> QED  BY <1>1, <1>2, <1>3, <1>4, <1>5, <1>6, <1>7, <1>8, <1>9, <1>10, <1>11, <1>12, <1>13
         DEF EntryStep

-----------------------------------------------------------------------------
(* The guardian keeps the types.                                           *)

LEMMA GuardianFrame ==
  ASSUME TypeOK, GuardianOnly, GuardianType', killed' \subseteq Profiles, tripped' \in BOOLEAN,
         orders' \in [Ref -> OrderRow], broker' \in [Ref -> Sendings],
         positions' \in Seq(Position), DOMAIN positions \subseteq DOMAIN positions',
         trades' \in Seq(Trade), issuedFor' \in [Ref -> Nat], lateBuys' \in Nat
  PROVE  TypeOK'
<1> USE DEF TypeOK, GuardianOnly
<1>1. LedgerType' /\ ControlType' /\ GatewayType'
  BY DEF LedgerType, ControlType, GatewayType
<1>2. EntryType'
  BY DEF EntryType
<1>3. ReconType' /\ OwnerType'
  BY DEF ReconType, OwnerType
<1> QED  BY <1>1, <1>2, <1>3

LEMMA GuardianFrameQuiet ==
  ASSUME TypeOK, GuardianOnly, GuardianType',
         UNCHANGED <<ledger, killed, tripped, broker, history>>
  PROVE  TypeOK'
<1>1. /\ killed' \subseteq Profiles /\ tripped' \in BOOLEAN
      /\ orders' \in [Ref -> OrderRow] /\ broker' \in [Ref -> Sendings]
      /\ positions' \in Seq(Position) /\ DOMAIN positions \subseteq DOMAIN positions'
      /\ trades' \in Seq(Trade) /\ issuedFor' \in [Ref -> Nat] /\ lateBuys' \in Nat
  BY DEF TypeOK, LedgerType, GatewayType, ControlType, ledger, history
<1> QED  BY <1>1, GuardianFrame

\* A sell the guardian finds filled is an order.
LEMMA HealExitIn ==
  ASSUME TypeOK, NEW i \in guardian.todo, GuardianHealExit(i)
  PROVE  \E r \in Ref : /\ SetStatus(r, "filled") /\ r \in guardian.fills
                        /\ r \in ExitsOf(i) /\ r.intent # "entry"
                        /\ guardian' = [guardian EXCEPT !.pc = "heal_close", !.pos = i, !.ref = r]
<1> DEFINE S == Matches(ExitsOf(i), guardian.fills)
<1>1. S \subseteq Ref /\ S # {}
  BY DEF TypeOK, GuardianType, GuardianHealExit, Matches
<1>2. Oldest(S) \in S
  BY <1>1, OldestIn DEF TypeOK, LedgerType
<1>3. Oldest(S) \in guardian.fills /\ Oldest(S) \in ExitsOf(i) /\ Oldest(S).intent # "entry"
  BY <1>2 DEF Matches, ExitsOf, UnresolvedOrders, Side
<1>4. /\ SetStatus(Oldest(S), "filled")
      /\ guardian' = [guardian EXCEPT !.pc = "heal_close", !.pos = i, !.ref = Oldest(S)]
  BY DEF GuardianHealExit
<1> HIDE DEF S
<1> QED  BY <1>1, <1>2, <1>3, <1>4

LEMMA GuardianStepType == TypeOK /\ GuardianStep => TypeOK'
<1> SUFFICES ASSUME TypeOK, GuardianStep PROVE TypeOK'
  OBVIOUS
<1>0. IdleGuardian \in [pc : GuardianPCs, asOf : Days, fills : SUBSET Ref,
                        todo : SUBSET DOMAIN positions', pos : Nat, ref : Ref \cup {NoRef}]
  BY ConstantsAssumption DEF IdleGuardian, GuardianPCs, Days
<1>p. DOMAIN positions = 1..Len(positions) /\ Len(positions) \in Nat
  BY DEF TypeOK, LedgerType
<1> DEFINE Rest == /\ tripped' \in BOOLEAN /\ killed' \subseteq Profiles
                   /\ lateBuys' \in Nat /\ GuardianOnly
<1> USE DEF GuardianType, GuardianPCs
<1>1. CASE GuardianStart
  <2>1. GuardianType'
    BY <1>0, <1>1 DEF TypeOK, GuardianStart, IdleGuardian, OpenPositions, ledger
  <2> QED  BY <1>1, <2>1, GuardianFrameQuiet DEF GuardianStart
<1>2. CASE GuardianSnapshot
  <2>1. GuardianType'
    BY <1>2 DEF TypeOK, GatewayType, GuardianSnapshot, ledger
  <2> QED  BY <1>2, <2>1, GuardianFrameQuiet DEF GuardianSnapshot
<1>3. ASSUME NEW i \in guardian.todo, GuardianHold(i) PROVE TypeOK'
  <2>1. GuardianType'
    BY <1>3 DEF TypeOK, GuardianHold, ledger
  <2> QED  BY <1>3, <2>1, GuardianFrameQuiet DEF GuardianHold
<1>4. ASSUME NEW i \in guardian.todo, GuardianHealExit(i) PROVE TypeOK'
  <2>1. PICK r \in Ref : /\ SetStatus(r, "filled")
                         /\ guardian' = [guardian EXCEPT !.pc = "heal_close", !.pos = i, !.ref = r]
    BY <1>4, HealExitIn
  <2>2. orders' \in [Ref -> OrderRow]
    BY <2>1, SetStatusType DEF TypeOK, LedgerType
  <2>3. /\ positions' = positions /\ trades' \in Seq(Trade) /\ broker' \in [Ref -> Sendings]
        /\ positions' \in Seq(Position) /\ issuedFor' \in [Ref -> Nat] /\ Rest
    BY <1>4 DEF GuardianHealExit, TypeOK, LedgerType, GatewayType, ControlType, history
  <2>4. i \in DOMAIN positions /\ i \in Nat
    BY <1>p DEF TypeOK
  <2>5. GuardianType'
    BY <2>1, <2>3, <2>4 DEF TypeOK
  <2> QED  BY <2>2, <2>3, <2>5, GuardianFrame
<1>5. CASE GuardianHealClose
  <2>1. guardian.pos \in DOMAIN positions /\ guardian.ref \in Ref
    BY <1>5 DEF TypeOK, GuardianHealClose
  <2>2. /\ positions' \in Seq(Position) /\ DOMAIN positions' = DOMAIN positions
        /\ trades' \in Seq(Trade)
    BY <1>5, <2>1, ClosePositionType DEF GuardianHealClose, TypeOK, LedgerType
  <2>3. /\ orders' \in [Ref -> OrderRow] /\ broker' \in [Ref -> Sendings]
        /\ issuedFor' \in [Ref -> Nat] /\ Rest
    BY <1>5 DEF GuardianHealClose, TypeOK, LedgerType, GatewayType, ControlType, history
  <2>4. GuardianType'
    BY <1>5, <2>2 DEF GuardianHealClose, GuardianNext, TypeOK
  <2> QED  BY <2>2, <2>3, <2>4, GuardianFrame
<1>6. ASSUME NEW i \in guardian.todo, GuardianInFlight(i) PROVE TypeOK'
  <2>1. GuardianType'
    BY <1>6 DEF TypeOK, GuardianInFlight, ledger
  <2> QED  BY <1>6, <2>1, GuardianFrameQuiet DEF GuardianInFlight
<1>7. ASSUME NEW i \in guardian.todo, NEW reason \in ExitReasons, GuardianExit(i, reason)
      PROVE  TypeOK'
  <2>1. i \in DOMAIN positions /\ i \in Nat /\ guardian.asOf \in Days
    BY <1>p DEF TypeOK
  <2>2. positions[i].ref.profile \in Profiles /\ positions[i].ref.symbol \in Symbols
    BY <2>1, PositionAt DEF Ref, TypeOK, LedgerType
  <2>3. OrderRef(positions[i].ref.profile, positions[i].ref.symbol, guardian.asOf, reason) \in Ref
    BY <2>1, <2>2, OrderRefIn DEF Intents
  <2>4. GuardianType'
    BY <1>7, <2>1, <2>3 DEF TypeOK, GuardianExit, ledger
  <2> QED  BY <1>7, <2>4, GuardianFrameQuiet DEF GuardianExit
<1>8. CASE GuardianPersist
  <2>1. guardian.pos \in DOMAIN positions /\ guardian.ref \in Ref /\ guardian.pos \in Nat
    BY <1>8, <1>p DEF TypeOK, GuardianPersist
  <2>2. positions[guardian.pos].qty \in Nat
    BY <2>1, PositionAt DEF TypeOK, LedgerType
  <2>3. orders' \in [Ref -> OrderRow]
    BY <1>8, <2>1, <2>2, RecordOrderType DEF GuardianPersist, TypeOK, LedgerType
  <2>4. issuedFor' \in [Ref -> Nat]
    BY <1>8, <2>1 DEF GuardianPersist, TypeOK
  <2>5. /\ positions' = positions /\ positions' \in Seq(Position) /\ trades' \in Seq(Trade)
        /\ broker' \in [Ref -> Sendings] /\ Rest
    BY <1>8 DEF GuardianPersist, TypeOK, LedgerType, GatewayType, ControlType
  <2>6. GuardianType'
    BY <1>0, <1>8, <2>1, <2>5 DEF GuardianPersist, TypeOK, IdleGuardian
  <2> QED  BY <2>3, <2>4, <2>5, <2>6, GuardianFrame
<1>9. CASE GuardianPlace
  <2>1. guardian.ref \in Ref
    BY <1>9 DEF TypeOK, GuardianPlace
  <2>2. broker' \in [Ref -> Sendings]
    BY <1>9, <2>1, PlaceOrderType DEF GuardianPlace, TypeOK, GatewayType
  <2>3. /\ positions' = positions /\ positions' \in Seq(Position) /\ trades' \in Seq(Trade)
        /\ orders' \in [Ref -> OrderRow] /\ issuedFor' \in [Ref -> Nat] /\ Rest
    BY <1>9 DEF GuardianPlace, TypeOK, LedgerType, ControlType, history, ledger
  <2>4. GuardianType'
    BY <1>9, <2>3 DEF GuardianPlace, TypeOK
  <2> QED  BY <2>2, <2>3, <2>4, GuardianFrame
<1>10. CASE GuardianMark
  <2>1. guardian.ref \in Ref
    BY <1>10 DEF TypeOK, GuardianMark
  <2>2. orders' \in [Ref -> OrderRow]
    BY <1>10, <2>1, SetStatusType DEF GuardianMark, TypeOK, LedgerType
  <2>3. /\ positions' = positions /\ positions' \in Seq(Position) /\ trades' \in Seq(Trade)
        /\ broker' \in [Ref -> Sendings] /\ issuedFor' \in [Ref -> Nat] /\ Rest
    BY <1>10 DEF GuardianMark, TypeOK, LedgerType, GatewayType, ControlType, history
  <2>4. GuardianType'
    BY <1>10, <2>3 DEF GuardianMark, TypeOK
  <2> QED  BY <2>2, <2>3, <2>4, GuardianFrame
<1>11. CASE GuardianClose
  <2>1. guardian.pos \in DOMAIN positions /\ guardian.ref \in Ref
    BY <1>11 DEF TypeOK, GuardianClose
  <2>2. /\ positions' \in Seq(Position) /\ DOMAIN positions' = DOMAIN positions
        /\ trades' \in Seq(Trade)
    BY <1>11, <2>1, ClosePositionType DEF GuardianClose, TypeOK, LedgerType
  <2>3. /\ orders' \in [Ref -> OrderRow] /\ broker' \in [Ref -> Sendings]
        /\ issuedFor' \in [Ref -> Nat] /\ Rest
    BY <1>11 DEF GuardianClose, TypeOK, LedgerType, GatewayType, ControlType, history
  <2>4. GuardianType'
    BY <1>11, <2>2 DEF GuardianClose, GuardianNext, TypeOK
  <2> QED  BY <2>2, <2>3, <2>4, GuardianFrame
<1>12. CASE GuardianFinish
  <2>1. tripped' \in BOOLEAN /\ killed' \subseteq Profiles /\ lateBuys' \in Nat /\ GuardianOnly
    BY <1>12, ConstantsAssumption DEF GuardianFinish, TypeOK, ControlType
  <2>2. /\ positions' = positions /\ positions' \in Seq(Position) /\ trades' \in Seq(Trade)
        /\ orders' \in [Ref -> OrderRow] /\ broker' \in [Ref -> Sendings]
        /\ issuedFor' \in [Ref -> Nat]
    BY <1>12 DEF GuardianFinish, TypeOK, LedgerType, GatewayType, ledger
  <2>3. GuardianType'
    BY <1>0, <1>12, <2>2 DEF GuardianFinish, IdleGuardian
  <2> QED  BY <2>1, <2>2, <2>3, GuardianFrame
<1> QED  BY <1>1, <1>2, <1>3, <1>4, <1>5, <1>6, <1>7, <1>8, <1>9, <1>10, <1>11, <1>12
         DEF GuardianStep

-----------------------------------------------------------------------------
(* Reconciliation, the owner and the environment keep the types.           *)

LEMMA ReconcileStepType == TypeOK /\ (ReconcileStep \/ HumanClear) => TypeOK'
<1> SUFFICES ASSUME TypeOK, ReconcileStep \/ HumanClear PROVE TypeOK'
  OBVIOUS
<1>1. /\ UNCHANGED <<day, ledger, registry, killed, tripped, gateway,
                     entry, guardian, owner, issuedFor>>
      /\ lateBuys' \in Nat
  BY DEF ReconcileStep, ReconcileReadLocal, ReconcileReadPending, ReconcileSnapshot,
         ReconcileRecord, ReconOnly, HumanClear, TypeOK
<1>2. halt' \in {"none", "halt", "clear"}
  BY DEF ReconcileStep, ReconcileReadLocal, ReconcileReadPending, ReconcileSnapshot,
         ReconcileRecord, HumanClear, TypeOK, ControlType
<1>3. ReconType'
  <2> USE DEF ReconType, ReconPCs, IdleRecon, TypeOK
  <2>1. CASE ReconcileReadLocal
    <3>1. recon'.unexplained = recon.unexplained \/ recon'.unexplained = {}
      BY <2>1 DEF ReconcileReadLocal
    <3> QED  BY <2>1, <3>1 DEF ReconcileReadLocal
  <2>2. CASE ReconcileReadPending
    BY <2>2 DEF ReconcileReadPending
  <2>3. CASE ReconcileSnapshot
    BY <2>3 DEF ReconcileSnapshot
  <2>4. CASE ReconcileRecord
    BY <2>4 DEF ReconcileRecord
  <2>5. CASE HumanClear
    BY <2>5 DEF HumanClear
  <2> QED  BY <2>1, <2>2, <2>3, <2>4, <2>5 DEF ReconcileStep
<1>4. LedgerType' /\ GatewayType'
  BY <1>1 DEF TypeOK, LedgerType, GatewayType, ledger, gateway
<1>5. ControlType'
  BY <1>1, <1>2 DEF TypeOK, ControlType
<1>6. EntryType' /\ GuardianType' /\ OwnerType'
  BY <1>1 DEF TypeOK, EntryType, GuardianType, OwnerType, ledger
<1> QED  BY <1>1, <1>3, <1>4, <1>5, <1>6 DEF TypeOK

LEMMA OwnerFrame ==
  ASSUME TypeOK, OwnerOnly, OwnerType',
         orders' \in [Ref -> OrderRow], broker' \in [Ref -> Sendings],
         positions' \in Seq(Position), DOMAIN positions' = DOMAIN positions,
         trades' \in Seq(Trade), issuedFor' \in [Ref -> Nat]
  PROVE  TypeOK'
<1> USE DEF TypeOK, OwnerOnly, control
<1>1. LedgerType' /\ ControlType' /\ GatewayType'
  BY DEF LedgerType, ControlType, GatewayType
<1>2. EntryType'
  BY DEF EntryType
<1>3. GuardianType' /\ ReconType'
  BY DEF GuardianType, ReconType
<1> QED  BY <1>1, <1>2, <1>3

LEMMA OwnerStepType == TypeOK /\ OwnerStep => TypeOK'
<1> SUFFICES ASSUME TypeOK, OwnerStep PROVE TypeOK'
  OBVIOUS
<1>p. DOMAIN positions = 1..Len(positions) /\ Len(positions) \in Nat
  BY DEF TypeOK, LedgerType
<1> USE DEF OwnerType, OwnerPCs
<1>1. ASSUME NEW s \in Symbols, OwnerStart(s) PROVE TypeOK'
  <2> DEFINE i == Min(OpenIn(s))
  <2>1. OpenIn(s) \subseteq DOMAIN positions /\ OpenIn(s) \subseteq Nat /\ OpenIn(s) # {}
    BY <1>1, <1>p DEF OpenIn, OpenPositions, OwnerStart
  <2>2. i \in DOMAIN positions /\ i \in Nat
    BY <2>1, MinIn
  <2>3. positions[i].ref.profile \in Profiles
    BY <2>2, PositionAt DEF Ref, TypeOK, LedgerType
  <2>4. OrderRef(positions[i].ref.profile, s, day, "exit_owner_close") \in Ref
    BY <2>3, OrderRefIn DEF Intents, TypeOK
  <2>5. owner' = [pc |-> "persist", pos |-> i,
                  ref |-> OrderRef(positions[i].ref.profile, s, day, "exit_owner_close")]
    BY <1>1 DEF OwnerStart
  <2>6. /\ orders' \in [Ref -> OrderRow] /\ broker' \in [Ref -> Sendings]
        /\ positions' \in Seq(Position) /\ DOMAIN positions' = DOMAIN positions
        /\ trades' \in Seq(Trade) /\ issuedFor' \in [Ref -> Nat] /\ OwnerOnly
    BY <1>1 DEF OwnerStart, TypeOK, LedgerType, GatewayType, ledger
  <2> HIDE DEF i
  <2>7. OwnerType'
    BY <2>2, <2>4, <2>5, <2>6
  <2> QED  BY <2>6, <2>7, OwnerFrame
<1>2. CASE OwnerPersist
  <2>1. owner.pos \in DOMAIN positions /\ owner.ref \in Ref /\ owner.pos \in Nat
    BY <1>2, <1>p DEF TypeOK, OwnerPersist
  <2>2. positions[owner.pos].qty \in Nat
    BY <2>1, PositionAt DEF TypeOK, LedgerType
  <2>3. orders' \in [Ref -> OrderRow]
    BY <1>2, <2>1, <2>2, RecordOrderType DEF OwnerPersist, TypeOK, LedgerType
  <2>4. issuedFor' \in [Ref -> Nat]
    BY <1>2, <2>1 DEF OwnerPersist, TypeOK
  <2>5. /\ positions' \in Seq(Position) /\ DOMAIN positions' = DOMAIN positions
        /\ trades' \in Seq(Trade) /\ broker' \in [Ref -> Sendings] /\ OwnerOnly
    BY <1>2 DEF OwnerPersist, TypeOK, LedgerType, GatewayType
  <2>6. OwnerType'
    <3>1. owner' = IdleOwner \/ owner' = [owner EXCEPT !.pc = "place"]
      BY <1>2 DEF OwnerPersist
    <3>2. CASE owner' = IdleOwner
      BY <3>2 DEF IdleOwner
    <3>3. CASE owner' = [owner EXCEPT !.pc = "place"]
      BY <3>3, <2>1, <2>5 DEF TypeOK
    <3> QED  BY <3>1, <3>2, <3>3
  <2> QED  BY <2>3, <2>4, <2>5, <2>6, OwnerFrame
<1>3. CASE OwnerPlace
  <2>1. owner.ref \in Ref
    BY <1>3 DEF TypeOK, OwnerPlace
  <2>2. broker' \in [Ref -> Sendings]
    BY <1>3, <2>1, PlaceOrderType DEF OwnerPlace, TypeOK, GatewayType
  <2>3. /\ positions' \in Seq(Position) /\ DOMAIN positions' = DOMAIN positions
        /\ trades' \in Seq(Trade) /\ orders' \in [Ref -> OrderRow]
        /\ issuedFor' \in [Ref -> Nat] /\ OwnerOnly
    BY <1>3 DEF OwnerPlace, TypeOK, LedgerType, ledger
  <2>4. OwnerType'
    BY <1>3, <2>3 DEF OwnerPlace, TypeOK
  <2> QED  BY <2>2, <2>3, <2>4, OwnerFrame
<1>4. CASE OwnerMark
  <2>1. owner.ref \in Ref
    BY <1>4 DEF TypeOK, OwnerMark
  <2>2. orders' \in [Ref -> OrderRow]
    BY <1>4, <2>1, SetStatusType DEF OwnerMark, TypeOK, LedgerType
  <2>3. /\ positions' \in Seq(Position) /\ DOMAIN positions' = DOMAIN positions
        /\ trades' \in Seq(Trade) /\ broker' \in [Ref -> Sendings]
        /\ issuedFor' \in [Ref -> Nat] /\ OwnerOnly
    BY <1>4 DEF OwnerMark, TypeOK, LedgerType, GatewayType
  <2>4. OwnerType'
    BY <1>4, <2>3 DEF OwnerMark, TypeOK
  <2> QED  BY <2>2, <2>3, <2>4, OwnerFrame
<1>5. CASE OwnerClose
  <2>1. owner.pos \in DOMAIN positions /\ owner.ref \in Ref
    BY <1>5 DEF TypeOK, OwnerClose
  <2>2. /\ positions' \in Seq(Position) /\ DOMAIN positions' = DOMAIN positions
        /\ trades' \in Seq(Trade)
    BY <1>5, <2>1, ClosePositionType DEF OwnerClose, TypeOK, LedgerType
  <2>3. /\ orders' \in [Ref -> OrderRow] /\ broker' \in [Ref -> Sendings]
        /\ issuedFor' \in [Ref -> Nat] /\ OwnerOnly
    BY <1>5 DEF OwnerClose, TypeOK, LedgerType, GatewayType
  <2>4. OwnerType'
    BY <1>5, <2>2 DEF OwnerClose, IdleOwner, TypeOK
  <2> QED  BY <2>2, <2>3, <2>4, OwnerFrame
<1> QED  BY <1>1, <1>2, <1>3, <1>4, <1>5 DEF OwnerStep

LEMMA BrokerStepType ==
  ASSUME TypeOK, NEW r \in Ref, BrokerFill(r) \/ BrokerReject(r)
  PROVE  TypeOK'
<1>1. BrokerOnly
  BY DEF BrokerFill, BrokerReject
<1>2. r.symbol \in Symbols /\ orders[r].qty \in Nat
  BY DEF Ref, TypeOK, LedgerType, OrderRow
<1>3. GatewayType'
  <2>1. CASE BrokerFill(r)
    <3>1. broker' \in [Ref -> Sendings]
      BY <2>1 DEF BrokerFill, TypeOK, GatewayType, Sendings
    <3>2. held' \in [Symbols -> Int]
      BY <2>1, <1>2 DEF BrokerFill, TypeOK, GatewayType
    <3>3. fills' \subseteq Ref
      BY <2>1 DEF BrokerFill, TypeOK, GatewayType
    <3> QED  BY <3>1, <3>2, <3>3 DEF GatewayType
  <2>2. CASE BrokerReject(r)
    BY <2>2 DEF BrokerReject, TypeOK, GatewayType, Sendings
  <2> QED  BY <2>1, <2>2
<1>4. LedgerType' /\ ControlType'
  BY <1>1 DEF BrokerOnly, TypeOK, LedgerType, ControlType, ledger, control
<1>5. EntryType' /\ GuardianType' /\ ReconType' /\ OwnerType'
  BY <1>1 DEF BrokerOnly, TypeOK, EntryType, GuardianType, ReconType, OwnerType, ledger
<1> QED  BY <1>1, <1>3, <1>4, <1>5 DEF BrokerOnly, TypeOK, history

LEMMA EnvironmentStepType ==
  ASSUME TypeOK, NextDay \/ Crash \/ \E p \in Profiles : Retire(p)
  PROVE  TypeOK'
<1>1. CASE NextDay
  <2>1. day' \in Days
    BY <1>1, ConstantsAssumption DEF NextDay, TypeOK, Days
  <2>2. GatewayType'
    BY <1>1 DEF NextDay, TypeOK, GatewayType
  <2>3. LedgerType' /\ ControlType'
    BY <1>1 DEF NextDay, TypeOK, LedgerType, ControlType, ledger, control
  <2>4. EntryType' /\ GuardianType' /\ ReconType' /\ OwnerType'
    BY <1>1 DEF NextDay, TypeOK, EntryType, GuardianType, ReconType, OwnerType, ledger
  <2> QED  BY <1>1, <2>1, <2>2, <2>3, <2>4 DEF NextDay, TypeOK, history
<1>2. CASE Crash
  <2>1. LedgerType' /\ ControlType' /\ GatewayType'
    BY <1>2 DEF Crash, TypeOK, LedgerType, ControlType, GatewayType, ledger, control, gateway
  <2>2. entry' = entry \/ entry' = IdleEntry
    BY <1>2 DEF Crash
  <2>3. guardian' = guardian \/ guardian' = IdleGuardian
    BY <1>2 DEF Crash
  <2>4. recon' = recon \/ recon' = IdleRecon
    BY <1>2 DEF Crash
  <2>5. owner' = owner \/ owner' = IdleOwner
    BY <1>2 DEF Crash
  <2>6. 0 \in Days /\ positions' = positions
    BY <1>2, ConstantsAssumption DEF Days, Crash, ledger
  <2>7. EntryType'
    BY <2>2, <2>6 DEF TypeOK, EntryType, IdleEntry, EntryPCs
  <2>8. GuardianType'
    BY <2>3, <2>6 DEF TypeOK, GuardianType, IdleGuardian, GuardianPCs
  <2>9. ReconType'
    BY <2>4 DEF TypeOK, ReconType, IdleRecon, ReconPCs
  <2>10. OwnerType'
    BY <2>5, <2>6 DEF TypeOK, OwnerType, IdleOwner, OwnerPCs
  <2> QED  BY <1>2, <2>1, <2>7, <2>8, <2>9, <2>10 DEF Crash, TypeOK, history
<1>3. ASSUME NEW p \in Profiles, Retire(p) PROVE TypeOK'
  <2>1. LedgerType' /\ ControlType' /\ GatewayType'
    BY <1>3 DEF Retire, TypeOK, LedgerType, ControlType, GatewayType, ledger, gateway
  <2>2. EntryType' /\ GuardianType' /\ ReconType' /\ OwnerType'
    BY <1>3 DEF Retire, TypeOK, EntryType, GuardianType, ReconType, OwnerType, ledger
  <2> QED  BY <1>3, <2>1, <2>2 DEF Retire, TypeOK, history
<1> QED  BY <1>1, <1>2, <1>3

LEMMA StutterType == TypeOK /\ UNCHANGED vars => TypeOK'
BY DEF TypeOK, LedgerType, ControlType, GatewayType, EntryType, GuardianType, ReconType,
       OwnerType, vars, ledger, control, gateway, history

\* Every variable keeps its type, and no process acts on a position or an
\* order reference that does not exist, wherever runs interleave or die.
THEOREM TypeCorrect == Spec => []TypeOK
<1>1. TypeOK /\ [Next]_vars => TypeOK'
  BY EntryStepType, GuardianStepType, ReconcileStepType, OwnerStepType, BrokerStepType,
     EnvironmentStepType, StutterType DEF Next
<1> QED  BY InitType, <1>1, PTL DEF Spec


-----------------------------------------------------------------------------
(* What a step may do to the rows and to the gateway's record.             *)

\* Nothing is recorded or sent.
Idles == /\ \A r \in Ref : Recorded(r)' = Recorded(r)
         /\ \A r \in Ref : broker'[r].placed = broker[r].placed

\* One reference gets its row.
Records(x) == /\ Recorded(x)'
              /\ \A r \in Ref : r # x => Recorded(r)' = Recorded(r)
              /\ \A r \in Ref : broker'[r].placed = broker[r].placed

\* One order is sent.
Sends(x) == /\ broker'[x].placed = broker[x].placed + 1
            /\ \A r \in Ref : r # x => broker'[r].placed = broker[r].placed
            /\ \A r \in Ref : Recorded(r)' = Recorded(r)

LEMMA RecordOrderRecords ==
  ASSUME orders \in [Ref -> OrderRow], NEW x \in Ref, NEW q, RecordOrder(x, q), broker' = broker
  PROVE  Records(x)
BY DEF RecordOrder, Recorded, Records, OrderRow

LEMMA SetStatusRecords ==
  ASSUME orders \in [Ref -> OrderRow], NEW x \in Ref,
         NEW status \in {"submitted", "filled"}, SetStatus(x, status), broker' = broker
  PROVE  Records(x)
BY DEF SetStatus, Recorded, Records, OrderRow

LEMMA PlaceOrderSends ==
  ASSUME broker \in [Ref -> Sendings], NEW x \in Ref, PlaceOrder(x), orders' = orders
  PROVE  Sends(x)
BY DEF PlaceOrder, Recorded, Sends, Sendings

LEMMA UnchangedIdles ==
  ASSUME orders' = orders, broker' = broker
  PROVE  Idles
BY DEF Idles, Recorded

-----------------------------------------------------------------------------
LEMMA InitSubmission == Init => SubmissionInv
BY DEF Init, SubmissionInv, PersistBeforeSubmit, SubmittedAtMostOnce, OwnIntent,
       IdleEntry, IdleGuardian, IdleOwner

\* No process becomes about to send.
NoNewSender ==
  /\ entry'.pc = "place" => entry.pc = "place" /\ entry'.ref = entry.ref
  /\ guardian'.pc = "place" => guardian.pc = "place" /\ guardian'.ref = guardian.ref
  /\ owner'.pc = "place" => owner.pc = "place" /\ owner'.ref = owner.ref

\* A process with a reference to send has a reference.
LEMMA SenderRefs ==
  ASSUME TypeOK
  PROVE  /\ entry.pc = "place" => entry.ref \in Ref
         /\ guardian.pc = "place" => guardian.ref \in Ref
         /\ owner.pc = "place" => owner.ref \in Ref
         /\ \A r \in Ref : broker[r].placed \in Nat
BY DEF TypeOK, EntryType, GuardianType, OwnerType, GatewayType, Sendings

LEMMA IdlesKeeps ==
  ASSUME TypeOK, SubmissionInv, Idles, OwnIntent', NoNewSender
  PROVE  SubmissionInv'
BY SenderRefs DEF SubmissionInv, PersistBeforeSubmit, SubmittedAtMostOnce, ReadyToSend,
                  Idles, NoNewSender

LEMMA MarkKeeps ==
  ASSUME TypeOK, SubmissionInv, NEW x \in Ref, Records(x), OwnIntent', NoNewSender
  PROVE  SubmissionInv'
BY SenderRefs DEF SubmissionInv, PersistBeforeSubmit, SubmittedAtMostOnce, ReadyToSend,
                  Records, NoNewSender

\* A fresh row may be sent: the gateway has never heard of its reference.
LEMMA FreshKeeps ==
  ASSUME TypeOK, SubmissionInv, NEW x \in Ref, Records(x), ~Recorded(x), OwnIntent',
         \/ entry'.ref = x /\ UNCHANGED <<guardian, owner>>
         \/ guardian'.ref = x /\ UNCHANGED <<entry, owner>>
         \/ owner'.ref = x /\ UNCHANGED <<entry, guardian>>
  PROVE  SubmissionInv'
<1>1. broker'[x].placed = 0 /\ Recorded(x)'
  BY SenderRefs DEF SubmissionInv, PersistBeforeSubmit, Records
<1>2. \A r \in Ref : Recorded(r) => Recorded(r)'
  BY DEF Records
<1>3. \A r \in Ref : broker'[r].placed = broker[r].placed
  BY DEF Records
<1>4. PersistBeforeSubmit' /\ SubmittedAtMostOnce'
  BY <1>2, <1>3 DEF SubmissionInv, PersistBeforeSubmit, SubmittedAtMostOnce
<1>5. /\ entry'.pc = "place" => ReadyToSend(entry.ref)'
      /\ guardian'.pc = "place" => ReadyToSend(guardian.ref)'
      /\ owner'.pc = "place" => ReadyToSend(owner.ref)'
  BY <1>1, <1>2, <1>3, SenderRefs DEF SubmissionInv, ReadyToSend
<1> QED  BY <1>4, <1>5 DEF SubmissionInv

\* Whoever sends an order, no other process is about to send the same one.
LEMMA SendKeeps ==
  ASSUME TypeOK, SubmissionInv, NEW x \in Ref, Sends(x), ReadyToSend(x), OwnIntent',
         NoNewSender,
         /\ entry'.pc = "place" => entry.ref # x
         /\ guardian'.pc = "place" => guardian.ref # x
         /\ owner'.pc = "place" => owner.ref # x
  PROVE  SubmissionInv'
<1>1. broker'[x].placed = 1 /\ Recorded(x)'
  BY DEF Sends, ReadyToSend
<1>2. \A r \in Ref : r # x => broker'[r].placed = broker[r].placed
  BY DEF Sends
<1>3. \A r \in Ref : Recorded(r)' = Recorded(r)
  BY DEF Sends
<1>4. PersistBeforeSubmit' /\ SubmittedAtMostOnce'
  BY <1>1, <1>2, <1>3 DEF SubmissionInv, PersistBeforeSubmit, SubmittedAtMostOnce
<1>5. /\ entry'.pc = "place" => ReadyToSend(entry.ref)'
      /\ guardian'.pc = "place" => ReadyToSend(guardian.ref)'
      /\ owner'.pc = "place" => ReadyToSend(owner.ref)'
  BY <1>2, <1>3, SenderRefs DEF SubmissionInv, ReadyToSend, NoNewSender
<1> QED  BY <1>4, <1>5 DEF SubmissionInv

-----------------------------------------------------------------------------
\* Each process keeps the submission invariant.
LEMMA EntryStepSubmission ==
  ASSUME TypeOK, SubmissionInv, EntryStep
  PROVE  SubmissionInv'
<1>a. entry \in [pc : EntryPCs, asOf : Days, fills : SUBSET Ref, todo : SUBSET Ref,
                 cands : SUBSET (Symbols \X {Family[p] : p \in Profiles}),
                 pool : SUBSET Profiles, ref : Ref \cup {NoRef}]
  BY DEF TypeOK, EntryType
<1>b. orders \in [Ref -> OrderRow] /\ broker \in [Ref -> Sendings]
  BY DEF TypeOK, LedgerType, GatewayType
<1>c. OwnIntent
  BY DEF SubmissionInv
<1>1. ASSUME UNCHANGED <<orders, broker>>, EntryOnly,
             entry' = IdleEntry \/ entry'.pc \in {"step0", "loop"}
      PROVE  SubmissionInv'
  <2>1. NoNewSender /\ OwnIntent'
    BY <1>1, <1>c DEF NoNewSender, OwnIntent, EntryOnly, IdleEntry
  <2>2. Idles
    BY <1>1, UnchangedIdles
  <2> QED  BY <2>1, <2>2, IdlesKeeps
<1>2. CASE EntryStart \/ EntryHealOpen \/ EntryNothingToScan \/ EntryScan
           \/ EntryBlocked \/ EntryOpen \/ EntryDone
  <2>1. UNCHANGED <<orders, broker>> /\ EntryOnly
    BY <1>2 DEF EntryStart, EntryHealOpen, EntryNothingToScan, EntryScan, EntryBlocked,
                EntryOpen, EntryDone
  <2>2. entry' = IdleEntry \/ entry'.pc \in {"step0", "loop"}
    BY <1>2, <1>a DEF EntryStart, EntryHealOpen, EntryNothingToScan, EntryScan, EntryBlocked,
                EntryOpen, EntryDone, IdleEntry
  <2> QED  BY <1>1, <2>1, <2>2
<1>3. CASE EntryHeal
  <2>1. PICK r \in Ref : /\ SetStatus(r, "filled")
                         /\ entry' = [entry EXCEPT
                              !.pc = IF @ = "step0" THEN "step0_open" ELSE "step1_open",
                              !.todo = @ \ {r}, !.ref = r]
    BY <1>3, EntryDueIn
  <2>2. broker' = broker /\ EntryOnly
    BY <1>3 DEF EntryHeal
  <2>3. Records(r)
    BY <2>1, <2>2, <1>b, SetStatusRecords
  <2>4. entry'.pc \in {"step0_open", "step1_open"}
    BY <2>1, <1>a
  <2>5. NoNewSender /\ OwnIntent'
    BY <2>2, <2>4, <1>c DEF NoNewSender, OwnIntent, EntryOnly
  <2> QED  BY <2>3, <2>5, MarkKeeps
<1>4. ASSUME NEW c \in entry.cands, EntryPick(c) PROVE SubmissionInv'
  <2>1. UNCHANGED <<orders, broker>> /\ EntryOnly
    BY <1>4 DEF EntryPick
  <2>2. CASE entry' = IdleEntry
    BY <1>1, <2>1, <2>2
  <2>3. CASE entry' # IdleEntry
    <3>1. PICK p \in entry.pool :
            entry' = [entry EXCEPT !.pc = "step1", !.cands = @ \ {c},
                        !.ref = OrderRef(p, c[1], entry.asOf, "entry")]
      BY <1>4, <2>3, EntryPickIn
    <3>2. entry'.pc = "step1" /\ entry'.ref.intent = "entry"
      BY <3>1, <1>a DEF OrderRef
    <3>3. NoNewSender /\ OwnIntent'
      BY <2>1, <3>2, <1>c DEF NoNewSender, OwnIntent, EntryOnly
    <3> QED  BY <2>1, <3>3, UnchangedIdles, IdlesKeeps
  <2> QED  BY <2>2, <2>3
<1>5. CASE EntryGate
  <2>1. entry'.pc = "persist" /\ entry'.ref = entry.ref /\ entry.pc = "step1"
    BY <1>5, <1>a DEF EntryGate
  <2>2. NoNewSender /\ OwnIntent' /\ Idles
    BY <1>5, <2>1, <1>c, UnchangedIdles DEF EntryGate, NoNewSender, OwnIntent, EntryOnly
  <2> QED  BY <2>2, IdlesKeeps
<1>6. CASE EntryPersist
  <2>1. CASE Recorded(entry.ref)
    BY <1>1, <1>6, <2>1 DEF EntryPersist
  <2>2. CASE ~Recorded(entry.ref)
    <3>1. PICK q \in Quantities : RecordOrder(entry.ref, q)
      BY <1>6, <2>2 DEF EntryPersist
    <3>2. entry.ref \in Ref /\ entry.pc = "persist"
      BY <1>6 DEF EntryPersist, TypeOK, EntryType
    <3>3. Records(entry.ref)
      BY <1>6, <3>1, <3>2, <1>b, RecordOrderRecords DEF EntryPersist
    <3>4. entry'.pc = "place" /\ entry'.ref = entry.ref
      BY <1>6, <2>2, <1>a DEF EntryPersist
    <3>5. UNCHANGED <<guardian, owner>>
      BY <1>6 DEF EntryPersist, EntryOnly
    <3>6. OwnIntent'
      BY <3>2, <3>4, <3>5, <1>c DEF OwnIntent
    <3> QED  BY <2>2, <3>2, <3>3, <3>4, <3>5, <3>6, FreshKeeps
  <2> QED  BY <2>1, <2>2
<1>7. CASE EntryPlace
  <2>1. entry.pc = "place" /\ entry.ref \in Ref /\ entry'.pc = "mark" /\ entry'.ref = entry.ref
    BY <1>7, <1>a DEF EntryPlace, TypeOK, EntryType
  <2>2. UNCHANGED <<guardian, owner>>
    BY <1>7 DEF EntryPlace, EntryOnly
  <2>3. Sends(entry.ref) /\ ReadyToSend(entry.ref)
    BY <1>7, <2>1, <1>b, PlaceOrderSends DEF EntryPlace, SubmissionInv
  <2>4. OwnIntent' /\ NoNewSender
    BY <2>1, <2>2, <1>c DEF OwnIntent, NoNewSender
  <2>5. /\ guardian.pc = "place" => guardian.ref # entry.ref
        /\ owner.pc = "place" => owner.ref # entry.ref
    BY <2>1, <1>c, ConstantsAssumption DEF OwnIntent
  <2> QED  BY <2>1, <2>2, <2>3, <2>4, <2>5, SendKeeps
<1>8. CASE EntryMark
  <2>1. entry.pc = "mark" /\ entry.ref \in Ref /\ entry'.pc = "open"
    BY <1>8, <1>a DEF EntryMark, TypeOK, EntryType
  <2>2. UNCHANGED <<broker, guardian, owner>>
    BY <1>8 DEF EntryMark, EntryOnly
  <2>3. Records(entry.ref)
    BY <1>8, <2>1, <2>2, <1>b, SetStatusRecords DEF EntryMark
  <2>4. OwnIntent' /\ NoNewSender
    BY <2>1, <2>2, <1>c DEF OwnIntent, NoNewSender
  <2> QED  BY <2>1, <2>3, <2>4, MarkKeeps
<1> QED  BY <1>2, <1>3, <1>4, <1>5, <1>6, <1>7, <1>8 DEF EntryStep

LEMMA GuardianStepSubmission ==
  ASSUME TypeOK, SubmissionInv, GuardianStep
  PROVE  SubmissionInv'
<1>a. guardian \in [pc : GuardianPCs, asOf : Days, fills : SUBSET Ref,
                    todo : SUBSET DOMAIN positions, pos : Nat, ref : Ref \cup {NoRef}]
  BY DEF TypeOK, GuardianType
<1>b. orders \in [Ref -> OrderRow] /\ broker \in [Ref -> Sendings]
  BY DEF TypeOK, LedgerType, GatewayType
<1>c. OwnIntent
  BY DEF SubmissionInv
<1>1. ASSUME UNCHANGED <<orders, broker>>, GuardianOnly,
             guardian' = IdleGuardian \/ guardian'.pc \in {"snapshot", "loop"}
      PROVE  SubmissionInv'
  <2>1. NoNewSender /\ OwnIntent'
    BY <1>1, <1>c DEF NoNewSender, OwnIntent, GuardianOnly, IdleGuardian
  <2> QED  BY <1>1, <2>1, UnchangedIdles, IdlesKeeps
<1>2. CASE GuardianStart \/ GuardianSnapshot \/ GuardianHealClose \/ GuardianClose
           \/ GuardianFinish
  <2>1. UNCHANGED <<orders, broker>> /\ GuardianOnly
    BY <1>2 DEF GuardianStart, GuardianSnapshot, GuardianHealClose, GuardianClose,
                GuardianFinish, ledger
  <2>2. guardian' = IdleGuardian \/ guardian'.pc \in {"snapshot", "loop"}
    BY <1>2, <1>a DEF GuardianStart, GuardianSnapshot, GuardianHealClose, GuardianClose,
                GuardianFinish, GuardianNext, IdleGuardian
  <2> QED  BY <1>1, <2>1, <2>2
<1>3. ASSUME NEW i \in guardian.todo, GuardianHold(i) \/ GuardianInFlight(i)
      PROVE  SubmissionInv'
  <2>1. UNCHANGED <<orders, broker>> /\ GuardianOnly /\ guardian'.pc = "loop"
    BY <1>3, <1>a DEF GuardianHold, GuardianInFlight, ExitFires, ledger
  <2> QED  BY <1>1, <2>1
<1>4. ASSUME NEW i \in guardian.todo, GuardianHealExit(i) PROVE SubmissionInv'
  <2>1. PICK r \in Ref : /\ SetStatus(r, "filled")
                         /\ guardian' = [guardian EXCEPT !.pc = "heal_close", !.pos = i, !.ref = r]
    BY <1>4, HealExitIn
  <2>2. UNCHANGED <<broker, entry, owner>>
    BY <1>4 DEF GuardianHealExit, GuardianOnly
  <2>3. Records(r)
    BY <2>1, <2>2, <1>b, SetStatusRecords
  <2>4. guardian'.pc = "heal_close"
    BY <2>1, <1>a
  <2>5. NoNewSender /\ OwnIntent'
    BY <2>2, <2>4, <1>c DEF NoNewSender, OwnIntent
  <2> QED  BY <2>3, <2>5, MarkKeeps
<1>5. ASSUME NEW i \in guardian.todo, NEW reason \in ExitReasons, GuardianExit(i, reason)
      PROVE  SubmissionInv'
  <2>1. guardian'.pc = "persist" /\ guardian'.ref.intent = reason
    BY <1>5, <1>a DEF GuardianExit, OrderRef
  <2>2. UNCHANGED <<orders, broker, entry, owner>>
    BY <1>5 DEF GuardianExit, GuardianOnly, ledger
  <2>3. NoNewSender /\ OwnIntent'
    BY <2>1, <2>2, <1>c DEF NoNewSender, OwnIntent
  <2> QED  BY <2>2, <2>3, UnchangedIdles, IdlesKeeps
<1>6. CASE GuardianPersist
  <2>1. CASE Recorded(guardian.ref)
    BY <1>1, <1>6, <2>1 DEF GuardianPersist
  <2>2. CASE ~Recorded(guardian.ref)
    <3>1. guardian.ref \in Ref /\ guardian.pc = "persist"
      BY <1>6 DEF GuardianPersist, TypeOK, GuardianType
    <3>2. UNCHANGED <<broker, entry, owner>>
      BY <1>6 DEF GuardianPersist, GuardianOnly
    <3>3. Records(guardian.ref)
      BY <1>6, <2>2, <3>1, <3>2, <1>b, RecordOrderRecords DEF GuardianPersist
    <3>4. guardian'.pc = "place" /\ guardian'.ref = guardian.ref
      BY <1>6, <2>2, <1>a DEF GuardianPersist
    <3>5. OwnIntent'
      BY <3>1, <3>2, <3>4, <1>c DEF OwnIntent
    <3> QED  BY <2>2, <3>1, <3>2, <3>3, <3>4, <3>5, FreshKeeps
  <2> QED  BY <2>1, <2>2
<1>7. CASE GuardianPlace
  <2>1. /\ guardian.pc = "place" /\ guardian.ref \in Ref
        /\ guardian'.pc = "mark" /\ guardian'.ref = guardian.ref
    BY <1>7, <1>a DEF GuardianPlace, TypeOK, GuardianType
  <2>2. UNCHANGED <<orders, entry, owner>>
    BY <1>7 DEF GuardianPlace, GuardianOnly, ledger
  <2>3. Sends(guardian.ref) /\ ReadyToSend(guardian.ref)
    BY <1>7, <2>1, <2>2, <1>b, PlaceOrderSends DEF GuardianPlace, SubmissionInv
  <2>4. OwnIntent' /\ NoNewSender
    BY <2>1, <2>2, <1>c DEF OwnIntent, NoNewSender
  <2>5. /\ entry.pc = "place" => entry.ref # guardian.ref
        /\ owner.pc = "place" => owner.ref # guardian.ref
    BY <2>1, <1>c, ConstantsAssumption DEF OwnIntent
  <2> QED  BY <2>1, <2>2, <2>3, <2>4, <2>5, SendKeeps
<1>8. CASE GuardianMark
  <2>1. guardian.pc = "mark" /\ guardian.ref \in Ref /\ guardian'.pc = "close"
    BY <1>8, <1>a DEF GuardianMark, TypeOK, GuardianType
  <2>2. UNCHANGED <<broker, entry, owner>>
    BY <1>8 DEF GuardianMark, GuardianOnly
  <2>3. Records(guardian.ref)
    BY <1>8, <2>1, <2>2, <1>b, SetStatusRecords DEF GuardianMark
  <2>4. OwnIntent' /\ NoNewSender
    BY <2>1, <2>2, <1>c DEF OwnIntent, NoNewSender
  <2> QED  BY <2>1, <2>3, <2>4, MarkKeeps
<1> QED  BY <1>2, <1>3, <1>4, <1>5, <1>6, <1>7, <1>8 DEF GuardianStep

LEMMA OwnerStepSubmission ==
  ASSUME TypeOK, SubmissionInv, OwnerStep
  PROVE  SubmissionInv'
<1>a. owner \in [pc : OwnerPCs, pos : Nat, ref : Ref \cup {NoRef}]
  BY DEF TypeOK, OwnerType
<1>b. orders \in [Ref -> OrderRow] /\ broker \in [Ref -> Sendings]
  BY DEF TypeOK, LedgerType, GatewayType
<1>c. OwnIntent
  BY DEF SubmissionInv
<1>1. ASSUME NEW s \in Symbols, OwnerStart(s) PROVE SubmissionInv'
  <2>1. owner'.pc = "persist" /\ owner'.ref.intent = "exit_owner_close"
    BY <1>1 DEF OwnerStart, OrderRef
  <2>2. UNCHANGED <<orders, broker, entry, guardian>>
    BY <1>1 DEF OwnerStart, OwnerOnly, ledger
  <2>3. NoNewSender /\ OwnIntent'
    BY <2>1, <2>2, <1>c DEF NoNewSender, OwnIntent
  <2> QED  BY <2>2, <2>3, UnchangedIdles, IdlesKeeps
<1>2. CASE OwnerPersist
  <2>0. UNCHANGED <<broker, entry, guardian>>
    BY <1>2 DEF OwnerPersist, OwnerOnly
  <2>1. CASE Recorded(owner.ref)
    <3>1. orders' = orders /\ owner' = IdleOwner
      BY <1>2, <2>1 DEF OwnerPersist
    <3>2. NoNewSender /\ OwnIntent'
      BY <2>0, <3>1, <1>c DEF NoNewSender, OwnIntent, IdleOwner
    <3> QED  BY <2>0, <3>1, <3>2, UnchangedIdles, IdlesKeeps
  <2>2. CASE ~Recorded(owner.ref)
    <3>1. owner.ref \in Ref /\ owner.pc = "persist"
      BY <1>2 DEF OwnerPersist, TypeOK, OwnerType
    <3>2. Records(owner.ref)
      BY <1>2, <2>0, <2>2, <3>1, <1>b, RecordOrderRecords DEF OwnerPersist
    <3>3. owner'.pc = "place" /\ owner'.ref = owner.ref
      BY <1>2, <2>2, <1>a DEF OwnerPersist
    <3>4. OwnIntent'
      BY <2>0, <3>1, <3>3, <1>c DEF OwnIntent
    <3> QED  BY <2>0, <2>2, <3>1, <3>2, <3>3, <3>4, FreshKeeps
  <2> QED  BY <2>1, <2>2
<1>3. CASE OwnerPlace
  <2>1. owner.pc = "place" /\ owner.ref \in Ref /\ owner'.pc = "mark" /\ owner'.ref = owner.ref
    BY <1>3, <1>a DEF OwnerPlace, TypeOK, OwnerType
  <2>2. UNCHANGED <<orders, entry, guardian>>
    BY <1>3 DEF OwnerPlace, OwnerOnly, ledger
  <2>3. Sends(owner.ref) /\ ReadyToSend(owner.ref)
    BY <1>3, <2>1, <2>2, <1>b, PlaceOrderSends DEF OwnerPlace, SubmissionInv
  <2>4. OwnIntent' /\ NoNewSender
    BY <2>1, <2>2, <1>c DEF OwnIntent, NoNewSender
  <2>5. /\ entry.pc = "place" => entry.ref # owner.ref
        /\ guardian.pc = "place" => guardian.ref # owner.ref
    BY <2>1, <1>c, ConstantsAssumption DEF OwnIntent
  <2> QED  BY <2>1, <2>2, <2>3, <2>4, <2>5, SendKeeps
<1>4. CASE OwnerMark
  <2>1. /\ owner.pc = "mark" /\ owner.ref \in Ref
        /\ owner'.pc = "close" /\ owner'.ref = owner.ref
    BY <1>4, <1>a DEF OwnerMark, TypeOK, OwnerType
  <2>2. UNCHANGED <<broker, entry, guardian>>
    BY <1>4 DEF OwnerMark, OwnerOnly
  <2>3. Records(owner.ref)
    BY <1>4, <2>1, <2>2, <1>b, SetStatusRecords DEF OwnerMark
  <2>4. OwnIntent' /\ NoNewSender
    BY <2>1, <2>2, <1>c DEF OwnIntent, NoNewSender
  <2> QED  BY <2>1, <2>3, <2>4, MarkKeeps
<1>5. CASE OwnerClose
  <2>1. owner' = IdleOwner /\ UNCHANGED <<orders, broker, entry, guardian>>
    BY <1>5 DEF OwnerClose, OwnerOnly
  <2>2. NoNewSender /\ OwnIntent'
    BY <2>1, <1>c DEF NoNewSender, OwnIntent, IdleOwner
  <2> QED  BY <2>1, <2>2, UnchangedIdles, IdlesKeeps
<1> QED  BY <1>1, <1>2, <1>3, <1>4, <1>5 DEF OwnerStep

\* The gateway changes what it executed, never what it was sent; the other
\* steps touch neither orders nor gateway, and a death sends nothing.
LEMMA OtherStepsSubmission ==
  ASSUME TypeOK, SubmissionInv,
         \/ ReconcileStep \/ HumanClear \/ NextDay \/ Crash
         \/ \E r \in Ref : BrokerFill(r) \/ BrokerReject(r)
         \/ \E p \in Profiles : Retire(p)
         \/ UNCHANGED vars
  PROVE  SubmissionInv' /\ Idles
<1>1. /\ orders' = orders
      /\ entry' = entry \/ entry' = IdleEntry
      /\ guardian' = guardian \/ guardian' = IdleGuardian
      /\ owner' = owner \/ owner' = IdleOwner
  BY DEF ReconcileStep, ReconcileReadLocal, ReconcileReadPending, ReconcileSnapshot,
         ReconcileRecord, ReconOnly, HumanClear, NextDay, Crash, BrokerFill, BrokerReject,
         BrokerOnly, Retire, vars, ledger
<1>2. NoNewSender /\ OwnIntent'
  BY <1>1 DEF SubmissionInv, NoNewSender, OwnIntent, IdleEntry, IdleGuardian, IdleOwner
<1>3. \A r \in Ref : broker'[r].placed = broker[r].placed
  <2>1. ASSUME NEW x \in Ref, BrokerFill(x) \/ BrokerReject(x)
        PROVE  \A r \in Ref : broker'[r].placed = broker[r].placed
    BY <2>1 DEF BrokerFill, BrokerReject, TypeOK, GatewayType, Sendings
  <2>2. CASE ReconcileStep \/ HumanClear \/ NextDay \/ Crash
             \/ (\E p \in Profiles : Retire(p)) \/ UNCHANGED vars
    BY <2>2 DEF ReconcileStep, ReconcileReadLocal, ReconcileReadPending, ReconcileSnapshot,
                ReconcileRecord, ReconOnly, HumanClear, NextDay, Crash, Retire, vars, gateway
  <2> QED  BY <2>1, <2>2
<1>4. Idles
  BY <1>1, <1>3 DEF Idles, Recorded
<1> QED  BY <1>2, <1>4, IdlesKeeps

LEMMA SubmissionStep == TypeOK /\ SubmissionInv /\ [Next]_vars => SubmissionInv'
BY EntryStepSubmission, GuardianStepSubmission, OwnerStepSubmission, OtherStepsSubmission
   DEF Next

LEMMA SubmissionSafe == Spec => []SubmissionInv
<1> QED  BY InitSubmission, SubmissionStep, TypeCorrect, PTL DEF Spec

\* The gateway never receives an order the ledger has no row for: the row is
\* committed before the order is sent, by every process.
THEOREM PersistedFirst == Spec => []PersistBeforeSubmit
<1>1. SubmissionInv => PersistBeforeSubmit
  BY DEF SubmissionInv
<1> QED  BY <1>1, SubmissionSafe, PTL

\* The gateway never receives an order reference twice, whichever runs repeat,
\* race or die.
THEOREM NeverResubmitted == Spec => []SubmittedAtMostOnce
<1>1. SubmissionInv => SubmittedAtMostOnce
  BY DEF SubmissionInv
<1> QED  BY <1>1, SubmissionSafe, PTL

-----------------------------------------------------------------------------
(* The system implements OrderProtocol.                                    *)

SameExecutions == \A r \in Ref : broker'[r].executed = broker[r].executed

\* A step that the protocol sees as Record, Send, or nothing.
RecordsOrSends ==
  /\ SameExecutions
  /\ Idles \/ \E x \in Ref : Records(x) \/ (ReadyToSend(x) /\ Sends(x))

LEMMA SameBroker == broker' = broker => SameExecutions
BY DEF SameExecutions

LEMMA PlaceExecutesNothing ==
  ASSUME broker \in [Ref -> Sendings], NEW x \in Ref, PlaceOrder(x)
  PROVE  SameExecutions
BY DEF PlaceOrder, Sendings, SameExecutions

LEMMA EntryStepKind ==
  ASSUME TypeOK, SubmissionInv, EntryStep
  PROVE  RecordsOrSends
<1>a. orders \in [Ref -> OrderRow] /\ broker \in [Ref -> Sendings]
  BY DEF TypeOK, LedgerType, GatewayType
<1>1. CASE UNCHANGED <<orders, broker>>
  BY <1>1, UnchangedIdles, SameBroker DEF RecordsOrSends
<1>2. CASE EntryHeal
  <2>1. PICK r \in Ref : SetStatus(r, "filled")
    BY <1>2, EntryDueIn
  <2>2. broker' = broker
    BY <1>2 DEF EntryHeal
  <2> QED  BY <2>1, <2>2, <1>a, SetStatusRecords, SameBroker DEF RecordsOrSends
<1>3. CASE EntryPersist /\ ~Recorded(entry.ref)
  <2>1. PICK q \in Quantities : RecordOrder(entry.ref, q)
    BY <1>3 DEF EntryPersist
  <2>2. entry.ref \in Ref /\ broker' = broker
    BY <1>3 DEF EntryPersist, TypeOK, EntryType
  <2> QED  BY <2>1, <2>2, <1>a, RecordOrderRecords, SameBroker DEF RecordsOrSends
<1>4. CASE EntryPlace
  <2>1. entry.ref \in Ref /\ ReadyToSend(entry.ref)
    BY <1>4 DEF EntryPlace, TypeOK, EntryType, SubmissionInv
  <2>2. PlaceOrder(entry.ref) /\ orders' = orders
    BY <1>4 DEF EntryPlace
  <2>3. Sends(entry.ref) /\ SameExecutions
    BY <2>1, <2>2, <1>a, PlaceOrderSends, PlaceExecutesNothing
  <2> QED  BY <2>1, <2>3 DEF RecordsOrSends
<1>5. CASE EntryMark
  <2>1. entry.ref \in Ref /\ SetStatus(entry.ref, "submitted") /\ broker' = broker
    BY <1>5 DEF EntryMark, TypeOK, EntryType
  <2> QED  BY <2>1, <1>a, SetStatusRecords, SameBroker DEF RecordsOrSends
<1>6. \/ UNCHANGED <<orders, broker>>
      \/ EntryHeal \/ (EntryPersist /\ ~Recorded(entry.ref)) \/ EntryPlace \/ EntryMark
  BY DEF EntryStep, EntryStart, EntryHealOpen, EntryNothingToScan, EntryScan, EntryPick,
         EntryBlocked, EntryGate, EntryPersist, EntryOpen, EntryDone
<1> QED  BY <1>1, <1>2, <1>3, <1>4, <1>5, <1>6

LEMMA GuardianStepKind ==
  ASSUME TypeOK, SubmissionInv, GuardianStep
  PROVE  RecordsOrSends
<1>a. orders \in [Ref -> OrderRow] /\ broker \in [Ref -> Sendings]
  BY DEF TypeOK, LedgerType, GatewayType
<1>1. CASE UNCHANGED <<orders, broker>>
  BY <1>1, UnchangedIdles, SameBroker DEF RecordsOrSends
<1>2. ASSUME NEW i \in guardian.todo, GuardianHealExit(i) PROVE RecordsOrSends
  <2>1. PICK r \in Ref : SetStatus(r, "filled")
    BY <1>2, HealExitIn
  <2>2. broker' = broker
    BY <1>2 DEF GuardianHealExit
  <2> QED  BY <2>1, <2>2, <1>a, SetStatusRecords, SameBroker DEF RecordsOrSends
<1>3. CASE GuardianPersist /\ ~Recorded(guardian.ref)
  <2>1. guardian.ref \in Ref /\ broker' = broker
    BY <1>3 DEF GuardianPersist, TypeOK, GuardianType
  <2>2. RecordOrder(guardian.ref, positions[guardian.pos].qty)
    BY <1>3 DEF GuardianPersist
  <2> QED  BY <2>1, <2>2, <1>a, RecordOrderRecords, SameBroker DEF RecordsOrSends
<1>4. CASE GuardianPlace
  <2>1. guardian.ref \in Ref /\ ReadyToSend(guardian.ref)
    BY <1>4 DEF GuardianPlace, TypeOK, GuardianType, SubmissionInv
  <2>2. PlaceOrder(guardian.ref) /\ orders' = orders
    BY <1>4 DEF GuardianPlace, ledger
  <2>3. Sends(guardian.ref) /\ SameExecutions
    BY <2>1, <2>2, <1>a, PlaceOrderSends, PlaceExecutesNothing
  <2> QED  BY <2>1, <2>3 DEF RecordsOrSends
<1>5. CASE GuardianMark
  <2>1. guardian.ref \in Ref /\ SetStatus(guardian.ref, "submitted") /\ broker' = broker
    BY <1>5 DEF GuardianMark, TypeOK, GuardianType
  <2> QED  BY <2>1, <1>a, SetStatusRecords, SameBroker DEF RecordsOrSends
<1>6. \/ UNCHANGED <<orders, broker>>
      \/ \E i \in guardian.todo : GuardianHealExit(i)
      \/ (GuardianPersist /\ ~Recorded(guardian.ref)) \/ GuardianPlace \/ GuardianMark
  BY DEF GuardianStep, GuardianStart, GuardianSnapshot, GuardianHold, GuardianHealClose,
         GuardianInFlight, GuardianExit, GuardianPersist, GuardianClose, GuardianFinish, ledger
<1> QED  BY <1>1, <1>2, <1>3, <1>4, <1>5, <1>6

LEMMA OwnerStepKind ==
  ASSUME TypeOK, SubmissionInv, OwnerStep
  PROVE  RecordsOrSends
<1>a. orders \in [Ref -> OrderRow] /\ broker \in [Ref -> Sendings]
  BY DEF TypeOK, LedgerType, GatewayType
<1>1. CASE UNCHANGED <<orders, broker>>
  BY <1>1, UnchangedIdles, SameBroker DEF RecordsOrSends
<1>2. CASE OwnerPersist /\ ~Recorded(owner.ref)
  <2>1. owner.ref \in Ref /\ broker' = broker
    BY <1>2 DEF OwnerPersist, TypeOK, OwnerType
  <2>2. RecordOrder(owner.ref, positions[owner.pos].qty)
    BY <1>2 DEF OwnerPersist
  <2> QED  BY <2>1, <2>2, <1>a, RecordOrderRecords, SameBroker DEF RecordsOrSends
<1>3. CASE OwnerPlace
  <2>1. owner.ref \in Ref /\ ReadyToSend(owner.ref)
    BY <1>3 DEF OwnerPlace, TypeOK, OwnerType, SubmissionInv
  <2>2. PlaceOrder(owner.ref) /\ orders' = orders
    BY <1>3 DEF OwnerPlace, ledger
  <2>3. Sends(owner.ref) /\ SameExecutions
    BY <2>1, <2>2, <1>a, PlaceOrderSends, PlaceExecutesNothing
  <2> QED  BY <2>1, <2>3 DEF RecordsOrSends
<1>4. CASE OwnerMark
  <2>1. owner.ref \in Ref /\ SetStatus(owner.ref, "submitted") /\ broker' = broker
    BY <1>4 DEF OwnerMark, TypeOK, OwnerType
  <2> QED  BY <2>1, <1>a, SetStatusRecords, SameBroker DEF RecordsOrSends
<1>5. \/ UNCHANGED <<orders, broker>>
      \/ (OwnerPersist /\ ~Recorded(owner.ref)) \/ OwnerPlace \/ OwnerMark
  BY DEF OwnerStep, OwnerStart, OwnerPersist, OwnerClose, ledger
<1> QED  BY <1>1, <1>2, <1>3, <1>4, <1>5

\* The protocol's view of such a step.
LEMMA RecordsOrSendsMaps ==
  ASSUME RecordsOrSends
  PROVE  [Protocol!Next]_<<{r \in Ref : Recorded(r)}, [r \in Ref |-> broker[r].placed],
                           [r \in Ref |-> broker[r].executed]>>
<1> DEFINE K == {r \in Ref : Recorded(r)}
           S == [r \in Ref |-> broker[r].placed]
           E == [r \in Ref |-> broker[r].executed]
<1>1. E' = E
  BY DEF RecordsOrSends, SameExecutions
<1>2. CASE Idles
  <2>1. K' = K /\ S' = S
    BY <1>2 DEF Idles
  <2> QED  BY <1>1, <2>1
<1>3. ASSUME NEW x \in Ref, Records(x)
      PROVE  [Protocol!Next]_<<K, S, E>>
  <2>1. S' = S
    BY <1>3 DEF Records
  <2>2. K' = K \cup {x}
    BY <1>3 DEF Records
  <2>3. CASE x \in K
    BY <1>1, <2>1, <2>2, <2>3
  <2>4. CASE x \notin K
    BY <1>1, <2>1, <2>2, <2>4 DEF Protocol!Next, Protocol!Record
  <2> QED  BY <2>3, <2>4
<1>4. ASSUME NEW x \in Ref, ReadyToSend(x), Sends(x)
      PROVE  [Protocol!Next]_<<K, S, E>>
  <2>1. K' = K
    BY <1>4 DEF Sends
  <2>2. S' = [S EXCEPT ![x] = 1]
    <3>1. broker'[x].placed = 1
      BY <1>4 DEF Sends, ReadyToSend
    <3>2. \A r \in Ref : r # x => broker'[r].placed = broker[r].placed
      BY <1>4 DEF Sends
    <3> QED  BY <3>1, <3>2
  <2>3. x \in K /\ S[x] = 0
    BY <1>4 DEF ReadyToSend
  <2> QED  BY <1>1, <2>1, <2>2, <2>3 DEF Protocol!Next, Protocol!Send
<1> QED  BY <1>2, <1>3, <1>4 DEF RecordsOrSends

\* What no trading process does maps to an execution or to nothing.
LEMMA OtherStepsMap ==
  ASSUME TypeOK, SubmissionInv,
         \/ ReconcileStep \/ HumanClear \/ NextDay \/ Crash
         \/ \E r \in Ref : BrokerFill(r) \/ BrokerReject(r)
         \/ \E p \in Profiles : Retire(p)
         \/ UNCHANGED vars
  PROVE  [Protocol!Next]_<<{r \in Ref : Recorded(r)}, [r \in Ref |-> broker[r].placed],
                           [r \in Ref |-> broker[r].executed]>>
<1> DEFINE K == {r \in Ref : Recorded(r)}
           S == [r \in Ref |-> broker[r].placed]
           E == [r \in Ref |-> broker[r].executed]
<1>1. Idles
  BY OtherStepsSubmission
<1>2. K' = K /\ S' = S
  BY <1>1 DEF Idles
<1>3. ASSUME NEW x \in Ref, BrokerFill(x) PROVE [Protocol!Next]_<<K, S, E>>
  <2>1. E' = [E EXCEPT ![x] = @ + 1]
    BY <1>3 DEF BrokerFill, TypeOK, GatewayType, Sendings
  <2>2. E[x] < S[x]
    <3>1. /\ broker[x].placed \in Nat /\ broker[x].executed \in Nat
          /\ broker[x].rejected \in Nat
      BY DEF TypeOK, GatewayType, Sendings
    <3>2. broker[x].placed > broker[x].executed + broker[x].rejected
      BY <1>3 DEF BrokerFill, Working
    <3> QED  BY <3>1, <3>2
  <2> QED  BY <1>2, <2>1, <2>2 DEF Protocol!Next, Protocol!Execute
<1>4. ASSUME NEW x \in Ref, BrokerReject(x) PROVE SameExecutions
  BY <1>4 DEF BrokerReject, TypeOK, GatewayType, Sendings, SameExecutions
<1>5. CASE ReconcileStep \/ HumanClear \/ NextDay \/ Crash
           \/ (\E p \in Profiles : Retire(p)) \/ UNCHANGED vars
  <2>1. broker' = broker
    BY <1>5 DEF ReconcileStep, ReconcileReadLocal, ReconcileReadPending, ReconcileSnapshot,
                ReconcileRecord, ReconOnly, HumanClear, NextDay, Crash, Retire, vars, gateway
  <2> QED  BY <2>1, <1>1, SameBroker, RecordsOrSendsMaps DEF RecordsOrSends
<1>6. ASSUME SameExecutions PROVE [Protocol!Next]_<<K, S, E>>
  BY <1>1, <1>6, RecordsOrSendsMaps DEF RecordsOrSends
<1> QED  BY <1>3, <1>4, <1>5, <1>6

\* Whatever runs interleave, repeat or die, the system as a whole implements
\* the submission protocol: record, then send at most once, then execute.
THEOREM Implements == Spec => ImplementsProtocol
<1>1. Init => Protocol!Init
  BY DEF Init, Protocol!Init, Recorded
<1>2. TypeOK /\ SubmissionInv /\ [Next]_vars
        => [Protocol!Next]_<<{r \in Ref : Recorded(r)}, [r \in Ref |-> broker[r].placed],
                             [r \in Ref |-> broker[r].executed]>>
  BY EntryStepKind, GuardianStepKind, OwnerStepKind, RecordsOrSendsMaps, OtherStepsMap DEF Next
<1> QED  BY <1>1, <1>2, TypeCorrect, SubmissionSafe, PTL
         DEF Spec, ImplementsProtocol, Protocol!Spec

=============================================================================
