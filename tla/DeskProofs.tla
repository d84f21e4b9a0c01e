----------------------------- MODULE DeskProofs -----------------------------
(***************************************************************************)
(* The simulated crypto book, for every set of profiles and coins, every   *)
(* length of the clock and wherever runs die: what each run holds is what  *)
(* it may act on, closes are booked once, and a coin is held, and sniped,  *)
(* once.                                                                   *)
(***************************************************************************)
EXTENDS CryptoDeskProperties, SequenceTheorems, CommonLemmas

Position == [ref : Ref, hour : Hours, status : {"open", "closed"}]
Days == {Day(h) : h \in Hours}
NoneOrAction == {"none", "trip", "reset"}

EntryRun ==
  [pc : {"idle", "loop", "persist", "fill", "open"}, day : Days,
   cands : SUBSET (Profiles \X Symbols), ref : Ref \cup {Never}, asked : Nat]
GuardianRun ==
  [pc : {"idle", "loop", "persist", "fill", "close", "record", "kill"}, day : Days,
   todo : SUBSET Nat, pos : Nat, ref : Ref \cup {Never}, seen : Nat,
   rows : [BreakerTypes -> NoneOrAction]]
SnipeRun ==
  [pc : {"idle", "close", "sold", "bought"}, hour : Hours, todo : SUBSET Nat, pos : Nat,
   ref : Ref \cup {Never}]

DeskTypes ==
  /\ hour \in Hours /\ listed \in [Tickers -> Hours \cup {Never}]
  /\ DOMAIN orders \subseteq Ref
  /\ orders \in [DOMAIN orders -> {"pending_submit", "filled"}]
  /\ positions \in Seq(Position)
  /\ trades \in Seq([pos : Nat, pnl : Int])
  /\ events \in Seq(Event) /\ killed \subseteq Profiles
  /\ entry \in EntryRun /\ guardian \in GuardianRun /\ snipe \in SnipeRun

\* A closed position has one trade.
TradesInv ==
  /\ \A k \in DOMAIN trades : /\ trades[k].pos \in DOMAIN positions /\ trades[k].pnl \in Pnls
                              /\ positions[trades[k].pos].status = "closed"
  /\ ClosedOnce

\* The snipe holds tickers, everyone else coins of the universe.
Own(i) == positions[i].ref.strategy = Snipe
HomeInv ==
  \A i \in DOMAIN positions :
    IF Own(i) THEN positions[i].ref.symbol \in Tickers
    ELSE positions[i].ref.strategy \in Profiles /\ positions[i].ref.symbol \in Symbols

\* A run between two steps about one order has recorded it and acts on an open
\* position of its list; nothing is in two hands.
EntryInv ==
  /\ entry.pc \in {"persist", "fill", "open"} =>
       entry.ref \in Ref /\ entry.ref.strategy \in Profiles /\ entry.ref.symbol \in Symbols
  /\ entry.pc \in {"fill", "open"} => Recorded(entry.ref)
GuardianInv ==
  /\ guardian.todo \subseteq OpenPositions /\ \A i \in guardian.todo : ~Own(i)
  /\ guardian.pc \in {"persist", "fill", "close"} =>
       guardian.ref \in Ref /\ guardian.pos \in guardian.todo
  /\ guardian.pc \in {"fill", "close"} => Recorded(guardian.ref)
  /\ guardian.seen <= Len(trades)
SnipeInv ==
  /\ snipe.todo \subseteq OpenPositions /\ \A i \in snipe.todo : Own(i)
  /\ snipe.pc = "sold" => snipe.ref \in Ref /\ Recorded(snipe.ref) /\ snipe.pos \in snipe.todo
  /\ snipe.pc = "bought" => /\ snipe.ref \in Ref /\ snipe.ref.strategy = Snipe
                            /\ snipe.ref.symbol \in Tickers

DeskInv == DeskTypes /\ TradesInv /\ HomeInv /\ EntryInv /\ GuardianInv /\ SnipeInv

-----------------------------------------------------------------------------
(* The clock and references.                                                *)

LEMMA HoursAndDays ==
  /\ 0 \in Hours /\ Day(0) = 0 /\ 0 \in Days
  /\ \A h \in Hours : Day(h) \in Days
<1>1. 0 \in Hours
  BY DeskAssumption DEF Hours
<1>2. {m \in Midnights : m <= 0} = {}
  <2>1. ASSUME NEW m \in Midnights  PROVE  ~(m <= 0)
    <3>1. m \in 0..LastHour /\ m # 0
      BY DeskAssumption DEF Hours
    <3> QED  BY <3>1, DeskAssumption
  <2> QED  BY <2>1
<1>3. Day(0) = 0
  BY <1>2, FS_EmptySet DEF Day
<1> QED  BY <1>1, <1>3 DEF Days

LEMMA StampsType ==
  /\ \A h \in Hours : HourStamp(h) \in Stamps
  /\ \A d \in Days : [unit |-> "day", at |-> d] \in Stamps
BY DEF HourStamp, Stamps, Days

LEMMA RefType ==
  ASSUME NEW p \in Profiles \cup {Snipe}, NEW s \in Symbols \cup Tickers, NEW at \in Stamps,
         NEW i \in {"entry", "exit_time_stop"} \cup ExitReasons
  PROVE  /\ OrderRef(p, s, at, i) \in Ref
         /\ OrderRef(p, s, at, i).strategy = p /\ OrderRef(p, s, at, i).symbol = s
         /\ OrderRef(p, s, at, i).intent = i
BY DEF OrderRef, Ref

LEMMA IdleRuns ==
  /\ IdleEntry \in EntryRun /\ IdleGuardian \in GuardianRun /\ IdleSnipe \in SnipeRun
<1>1. IdleEntry \in EntryRun
  BY HoursAndDays DEF IdleEntry, EntryRun
<1>2. [t \in BreakerTypes |-> "none"] \in [BreakerTypes -> NoneOrAction]
  BY DEF NoneOrAction
<1>3. IdleGuardian \in GuardianRun
  BY HoursAndDays, <1>2 DEF IdleGuardian, GuardianRun
<1>4. IdleSnipe \in SnipeRun
  BY HoursAndDays DEF IdleSnipe, SnipeRun
<1> QED  BY <1>1, <1>3, <1>4

-----------------------------------------------------------------------------
(* Ledger calls.                                                            *)

LEMMA StatusSet ==
  ASSUME DeskTypes, NEW r \in Ref, NEW s \in {"pending_submit", "filled"}, SetStatus(r, s)
  PROVE  /\ DOMAIN orders' \subseteq Ref
         /\ orders' \in [DOMAIN orders' -> {"pending_submit", "filled"}]
         /\ DOMAIN orders' = DOMAIN orders \cup {r}
BY DEF DeskTypes, SetStatus

LEMMA PositionOpened ==
  ASSUME DeskTypes, NEW r \in Ref, OpenPosition(r)
  PROVE  /\ positions' \in Seq(Position)
         /\ DOMAIN positions' = DOMAIN positions \cup {Len(positions) + 1}
         /\ \A i \in DOMAIN positions : positions'[i] = positions[i]
         /\ Len(positions) + 1 \notin DOMAIN positions
         /\ positions'[Len(positions) + 1].ref = r
         /\ positions'[Len(positions) + 1].status = "open"
<1> DEFINE new == [ref |-> r, hour |-> hour, status |-> "open"]
<1>1. new \in Position /\ positions \in Seq(Position) /\ positions' = Append(positions, new)
  BY DEF Position, DeskTypes, OpenPosition
<1>2. new.ref = r /\ new.status = "open"
  OBVIOUS
<1> HIDE DEF new
<1> QED  BY <1>1, <1>2

LEMMA PositionClosed ==
  ASSUME DeskTypes, NEW i \in DOMAIN positions, ClosePosition(i)
  PROVE  /\ positions' \in Seq(Position) /\ DOMAIN positions' = DOMAIN positions
         /\ \A j \in DOMAIN positions :
              /\ positions'[j].ref = positions[j].ref
              /\ positions'[j].status = IF j = i THEN "closed" ELSE positions[j].status
         /\ trades' \in Seq([pos : Nat, pnl : Int]) /\ Len(trades') = Len(trades) + 1
         /\ \A k \in DOMAIN trades : trades'[k] = trades[k]
         /\ trades'[Len(trades')].pos = i /\ trades'[Len(trades')].pnl \in Pnls
<1>1. positions \in Seq(Position) /\ trades \in Seq([pos : Nat, pnl : Int])
  BY DEF DeskTypes
<1>2. i \in Nat /\ positions[i] \in Position
  BY <1>1
<1>3. /\ positions' = [positions EXCEPT ![i].status = "closed"]
      /\ [positions[i] EXCEPT !.status = "closed"] \in Position
  BY <1>2 DEF ClosePosition, Position
<1>4. /\ positions' \in Seq(Position) /\ DOMAIN positions' = DOMAIN positions
      /\ \A j \in DOMAIN positions :
           /\ positions'[j].ref = positions[j].ref
           /\ positions'[j].status = IF j = i THEN "closed" ELSE positions[j].status
  BY <1>1, <1>2, <1>3 DEF Position
<1>5. PICK pnl \in Pnls : trades' = Append(trades, [pos |-> i, pnl |-> pnl])
  BY DEF ClosePosition
<1>6. [pos |-> i, pnl |-> pnl] \in [pos : Nat, pnl : Int]
  BY <1>2, DeskAssumption
<1>7. /\ trades' \in Seq([pos : Nat, pnl : Int]) /\ Len(trades') = Len(trades) + 1
      /\ \A k \in DOMAIN trades : trades'[k] = trades[k]
      /\ trades'[Len(trades')] = [pos |-> i, pnl |-> pnl]
  BY <1>1, <1>5, <1>6
<1> QED  BY <1>4, <1>7

-----------------------------------------------------------------------------
(* What stays true of the others while one run acts.                        *)

\* An order is recorded or filled.
LEMMA OrdersGrow ==
  ASSUME DeskInv, NEW r \in Ref, NEW s \in {"pending_submit", "filled"}, SetStatus(r, s)
  PROVE  \A q : Recorded(q) => Recorded(q)'
BY StatusSet DEF DeskInv, Recorded

LEMMA OpenAfterOpening ==
  ASSUME DeskInv, NEW r \in Ref, OpenPosition(r)
  PROVE  /\ OpenPositions \subseteq OpenPositions'
         /\ \A i \in DOMAIN positions : Own(i)' = Own(i)
         /\ trades' = trades => TradesInv'
         /\ (r.strategy = Snipe /\ r.symbol \in Tickers)
              \/ (r.strategy \in Profiles /\ r.symbol \in Symbols) => HomeInv'
<1>1. /\ DOMAIN positions' = DOMAIN positions \cup {Len(positions) + 1}
      /\ \A i \in DOMAIN positions : positions'[i] = positions[i]
      /\ positions'[Len(positions) + 1].ref = r
  BY PositionOpened DEF DeskInv
<1>2. OpenPositions \subseteq OpenPositions' /\ \A i \in DOMAIN positions : Own(i)' = Own(i)
  BY <1>1 DEF OpenPositions, Own
<1>3. trades' = trades => TradesInv'
  BY <1>1 DEF DeskInv, TradesInv, ClosedOnce
<1>4. (r.strategy = Snipe /\ r.symbol \in Tickers)
              \/ (r.strategy \in Profiles /\ r.symbol \in Symbols) => HomeInv'
  BY <1>1, DeskAssumption DEF DeskInv, HomeInv, Own
<1> QED  BY <1>2, <1>3, <1>4

LEMMA OpenAfterClosing ==
  ASSUME DeskInv, NEW i \in OpenPositions, ClosePosition(i)
  PROVE  /\ OpenPositions' = OpenPositions \ {i}
         /\ \A j \in DOMAIN positions : Own(j)' = Own(j)
         /\ TradesInv' /\ HomeInv' /\ Len(trades') = Len(trades) + 1
<1>0. i \in DOMAIN positions /\ positions[i].status = "open" /\ DeskTypes
  BY DEF OpenPositions, DeskInv
<1>1. /\ DOMAIN positions' = DOMAIN positions
      /\ \A j \in DOMAIN positions :
           /\ positions'[j].ref = positions[j].ref
           /\ positions'[j].status = IF j = i THEN "closed" ELSE positions[j].status
      /\ Len(trades') = Len(trades) + 1
      /\ \A k \in DOMAIN trades : trades'[k] = trades[k]
      /\ trades'[Len(trades')].pos = i /\ trades'[Len(trades')].pnl \in Pnls
  BY <1>0, PositionClosed
<1>2. OpenPositions' = OpenPositions \ {i}
  BY <1>0, <1>1 DEF OpenPositions
<1>3. (\A j \in DOMAIN positions : Own(j)' = Own(j)) /\ HomeInv'
  BY <1>1 DEF Own, HomeInv, DeskInv
<1>4. /\ Len(trades) \in Nat /\ DOMAIN trades = 1..Len(trades)
      /\ DOMAIN trades' = 1..(Len(trades) + 1)
  BY <1>0, <1>1, PositionClosed DEF DeskTypes
<1>5. \A k \in DOMAIN trades : trades[k].pos # i
  BY <1>0 DEF DeskInv, TradesInv
<1>6. ASSUME NEW k \in DOMAIN trades'
      PROVE  /\ trades'[k].pos \in DOMAIN positions' /\ trades'[k].pnl \in Pnls
             /\ positions'[trades'[k].pos].status = "closed"
  <2>1. CASE k \in DOMAIN trades
    BY <1>1, <2>1 DEF DeskInv, TradesInv
  <2>2. CASE k = Len(trades')
    BY <1>0, <1>1, <2>2
  <2> QED  BY <1>1, <1>4, <2>1, <2>2
<1>7. ClosedOnce'
  <2> SUFFICES ASSUME NEW j \in DOMAIN trades', NEW k \in DOMAIN trades',
                      trades'[j].pos = trades'[k].pos
               PROVE  j = k
    BY DEF ClosedOnce
  <2>1. CASE j \in DOMAIN trades /\ k \in DOMAIN trades
    BY <1>1, <2>1 DEF DeskInv, TradesInv, ClosedOnce
  <2>2. CASE j \in DOMAIN trades /\ k = Len(trades')
    BY <1>1, <1>5, <2>2
  <2>3. CASE j = Len(trades') /\ k \in DOMAIN trades
    BY <1>1, <1>5, <2>3
  <2> QED  BY <1>1, <1>4, <2>1, <2>2, <2>3
<1> QED  BY <1>1, <1>2, <1>3, <1>6, <1>7 DEF TradesInv

\* Runs that do not move keep what they hold.
LEMMA EntryKept ==
  ASSUME DeskInv, entry' = entry, \A q : Recorded(q) => Recorded(q)'
  PROVE  EntryInv'
BY DEF DeskInv, EntryInv

LEMMA GuardianKept ==
  ASSUME DeskInv, guardian' = guardian, \A q : Recorded(q) => Recorded(q)',
         guardian.todo \subseteq OpenPositions',
         \A i \in DOMAIN positions : Own(i)' = Own(i),
         Len(trades') \in Nat, Len(trades) <= Len(trades')
  PROVE  GuardianInv'
<1>1. guardian.seen \in Nat /\ Len(trades) \in Nat
  BY DEF DeskInv, DeskTypes, GuardianRun
<1>2. guardian.seen <= Len(trades')
  BY <1>1 DEF DeskInv, GuardianInv
<1>3. \A i \in guardian.todo : ~Own(i)'
  BY DEF DeskInv, GuardianInv, OpenPositions
<1> QED  BY <1>2, <1>3 DEF DeskInv, GuardianInv

LEMMA SnipeKept ==
  ASSUME DeskInv, snipe' = snipe, \A q : Recorded(q) => Recorded(q)',
         snipe.todo \subseteq OpenPositions',
         \A i \in DOMAIN positions : Own(i)' = Own(i)
  PROVE  SnipeInv'
<1>1. \A i \in snipe.todo : Own(i)'
  BY DEF DeskInv, SnipeInv, OpenPositions
<1> QED  BY <1>1 DEF DeskInv, SnipeInv

\* The book did not move.
LEMMA LedgerKept ==
  ASSUME DeskInv, UNCHANGED <<positions, trades>>
  PROVE  /\ OpenPositions' = OpenPositions
         /\ \A i \in DOMAIN positions : Own(i)' = Own(i)
         /\ TradesInv' /\ HomeInv'
         /\ Len(trades') \in Nat /\ Len(trades) <= Len(trades')
<1>1. Len(trades) \in Nat
  BY DEF DeskInv, DeskTypes
<1> QED  BY <1>1 DEF DeskInv, OpenPositions, Own, TradesInv, ClosedOnce, HomeInv

-----------------------------------------------------------------------------
(* Initially.                                                               *)

LEMMA DeskInit ==
  ASSUME Init
  PROVE  DeskInv
<1>1. orders = <<>> /\ positions = <<>> /\ trades = <<>> /\ events = <<>>
  BY DEF Init
<1>2. DOMAIN positions = {} /\ DOMAIN trades = {} /\ DOMAIN orders = {}
  BY <1>1
<1>3. DeskTypes
  BY <1>1, <1>2, HoursAndDays, IdleRuns DEF Init, DeskTypes
<1>4. TradesInv /\ HomeInv
  BY <1>2 DEF TradesInv, ClosedOnce, HomeInv
<1>5. EntryInv /\ GuardianInv /\ SnipeInv
  BY <1>1 DEF Init, EntryInv, GuardianInv, SnipeInv, IdleEntry, IdleGuardian, IdleSnipe
<1> QED  BY <1>3, <1>4, <1>5 DEF DeskInv

-----------------------------------------------------------------------------
(* The entry run.                                                           *)

\* A step that moves nothing but the run itself.
LEMMA EntryMoves ==
  ASSUME DeskInv, UNCHANGED <<orders, positions>>, EntryOnly,
         entry' \in EntryRun,
         entry'.pc \in {"persist", "fill", "open"} =>
           entry'.ref \in Ref /\ entry'.ref.strategy \in Profiles /\ entry'.ref.symbol \in Symbols,
         entry'.pc \in {"fill", "open"} => Recorded(entry'.ref)
  PROVE  DeskInv'
<1>1. \A q : Recorded(q)' = Recorded(q)
  BY DEF Recorded
<1>2. DeskTypes'
  BY DEF DeskInv, DeskTypes, EntryOnly, Ref
<1>3. EntryInv'
  BY <1>1 DEF EntryInv
<1>4. GuardianInv' /\ SnipeInv'
  BY <1>1, LedgerKept, GuardianKept, SnipeKept DEF EntryOnly, DeskInv, GuardianInv, SnipeInv
<1> QED  BY <1>2, <1>3, <1>4, LedgerKept DEF DeskInv, EntryOnly

\* A step that writes one order row.
LEMMA EntryRecords ==
  ASSUME DeskInv, NEW r \in Ref, NEW s \in {"pending_submit", "filled"}, SetStatus(r, s),
         UNCHANGED positions, EntryOnly, entry' \in EntryRun,
         entry'.ref = r, r.strategy \in Profiles, r.symbol \in Symbols
  PROVE  DeskInv'
<1>1. (\A q : Recorded(q) => Recorded(q)') /\ Recorded(r)'
  BY OrdersGrow, StatusSet DEF DeskInv, Recorded
<1>0. /\ DOMAIN orders' \subseteq Ref
      /\ orders' \in [DOMAIN orders' -> {"pending_submit", "filled"}]
  BY StatusSet DEF DeskInv
<1>2. DeskTypes'
  BY <1>0 DEF DeskInv, DeskTypes, EntryOnly
<1>3. EntryInv'
  BY <1>1 DEF EntryInv
<1>4. GuardianInv' /\ SnipeInv'
  BY <1>1, LedgerKept, GuardianKept, SnipeKept DEF EntryOnly, DeskInv, GuardianInv, SnipeInv
<1> QED  BY <1>2, <1>3, <1>4, LedgerKept DEF DeskInv, EntryOnly

LEMMA EntryRefType ==
  ASSUME DeskInv, NEW c \in entry.cands
  PROVE  /\ EntryRef(c) \in Ref
         /\ EntryRef(c).strategy \in Profiles /\ EntryRef(c).symbol \in Symbols
         /\ EntryRef(c).symbol = c[2]
<1>1. c[1] \in Profiles /\ c[2] \in Symbols /\ entry.day \in Days /\ hour \in Hours
  BY DEF DeskInv, DeskTypes, EntryRun
<1> QED  BY <1>1, StampsType, RefType DEF EntryRef

LEMMA EntryStepKeepsInv ==
  ASSUME DeskInv, EntryStep
  PROVE  DeskInv'
<1>0. entry \in EntryRun /\ hour \in Hours /\ Len(events) \in Nat
  BY DEF DeskInv, DeskTypes
<1>1. CASE EntryScan
  <2>1. PICK C \in SUBSET (Profiles \X Symbols) :
          entry' = [IdleEntry EXCEPT !.pc = "loop", !.day = Day(hour), !.cands = C]
    BY <1>1 DEF EntryScan
  <2>2. entry' \in EntryRun /\ entry'.pc = "loop"
    BY <1>0, <2>1, HoursAndDays, IdleRuns DEF IdleEntry, EntryRun
  <2> QED  BY <1>1, <2>2, EntryMoves DEF EntryScan
<1>2. CASE \E c \in entry.cands : EntryBlocked(c)
  <2>1. entry' \in EntryRun /\ entry'.pc = "loop"
    BY <1>0, <1>2 DEF EntryBlocked, EntryRun
  <2> QED  BY <1>2, <2>1, EntryMoves DEF EntryBlocked
<1>3. CASE \E c \in entry.cands : EntryGate(c)
  <2>1. PICK c \in entry.cands : EntryGate(c)
    BY <1>3
  <2>2. entry' \in EntryRun /\ entry'.pc = "persist" /\ entry'.ref = EntryRef(c)
    BY <1>0, <2>1, EntryRefType DEF EntryGate, EntryRun
  <2> QED  BY <2>1, <2>2, EntryMoves, EntryRefType DEF EntryGate
<1>4. CASE EntryPersist
  <2>0. /\ entry.ref \in Ref /\ entry.ref.strategy \in Profiles
        /\ entry.ref.symbol \in Symbols
    BY <1>4 DEF EntryPersist, DeskInv, EntryInv
  <2>1. CASE Recorded(entry.ref)
    <3>1. entry' \in EntryRun /\ entry'.pc = "idle"
      BY <1>4, <2>1, IdleRuns DEF EntryPersist, IdleEntry
    <3> QED  BY <1>4, <2>1, <3>1, EntryMoves DEF EntryPersist
  <2>2. CASE ~Recorded(entry.ref)
    <3>1. /\ entry' \in EntryRun /\ entry'.ref = entry.ref
          /\ SetStatus(entry.ref, "pending_submit")
      BY <1>0, <1>4, <2>2 DEF EntryPersist, EntryRun
    <3> QED  BY <1>4, <2>0, <3>1, EntryRecords DEF EntryPersist
  <2> QED  BY <2>1, <2>2
<1>5. CASE EntryFill
  <2>0. /\ entry.ref \in Ref /\ entry.ref.strategy \in Profiles
        /\ entry.ref.symbol \in Symbols
    BY <1>5 DEF EntryFill, DeskInv, EntryInv
  <2>1. entry' \in EntryRun /\ entry'.ref = entry.ref
    BY <1>0, <1>5 DEF EntryFill, EntryRun
  <2> QED  BY <1>5, <2>0, <2>1, EntryRecords DEF EntryFill
<1>6. CASE EntryOpen
  <2>0. /\ entry.ref \in Ref /\ entry.ref.strategy \in Profiles
        /\ entry.ref.symbol \in Symbols /\ OpenPosition(entry.ref)
    BY <1>6 DEF EntryOpen, DeskInv, EntryInv
  <2>1. entry' \in EntryRun /\ entry'.pc = "loop"
    BY <1>0, <1>6 DEF EntryOpen, EntryRun
  <2>2. DeskTypes'
    BY <1>6, <2>0, <2>1, PositionOpened DEF EntryOpen, EntryOnly, DeskInv, DeskTypes, Ref
  <2>3. \A q : Recorded(q) => Recorded(q)'
    BY <1>6 DEF EntryOpen, Recorded
  <2>4. EntryInv'
    BY <2>1 DEF EntryInv
  <2>5. /\ OpenPositions \subseteq OpenPositions'
        /\ \A i \in DOMAIN positions : Own(i)' = Own(i)
        /\ TradesInv' /\ HomeInv'
    BY <1>6, <2>0, OpenAfterOpening DEF EntryOpen, EntryOnly
  <2>6. Len(trades') \in Nat /\ Len(trades) <= Len(trades')
    BY <1>6 DEF EntryOpen, EntryOnly, DeskInv, DeskTypes
  <2>7. GuardianInv'
    BY <1>6, <2>3, <2>5, <2>6, GuardianKept DEF EntryOpen, EntryOnly, DeskInv, GuardianInv
  <2>8. SnipeInv'
    BY <1>6, <2>3, <2>5, SnipeKept DEF EntryOpen, EntryOnly, DeskInv, SnipeInv
  <2> QED  BY <2>2, <2>4, <2>5, <2>7, <2>8 DEF DeskInv
<1>7. CASE EntryDone
  <2>1. entry' \in EntryRun /\ entry'.pc = "idle"
    BY <1>7, IdleRuns DEF EntryDone, IdleEntry
  <2> QED  BY <1>7, <2>1, EntryMoves DEF EntryDone
<1> QED  BY <1>1, <1>2, <1>3, <1>4, <1>5, <1>6, <1>7 DEF EntryStep

-----------------------------------------------------------------------------
(* The guardian's run.                                                      *)

LEMMA GuardianMoves ==
  ASSUME DeskInv, UNCHANGED <<orders, positions, trades>>, GuardianOnly,
         events' \in Seq(Event), killed' \subseteq Profiles,
         guardian' \in GuardianRun, GuardianInv'
  PROVE  DeskInv'
<1>1. \A q : Recorded(q)' = Recorded(q)
  BY DEF Recorded
<1>2. DeskTypes'
  BY DEF DeskInv, DeskTypes, GuardianOnly, Ref
<1>3. EntryInv'
  BY <1>1, EntryKept DEF GuardianOnly
<1>4. SnipeInv'
  BY <1>1, LedgerKept, SnipeKept DEF GuardianOnly, DeskInv, SnipeInv
<1> QED  BY <1>2, <1>3, <1>4, LedgerKept DEF DeskInv

LEMMA GuardianRecords ==
  ASSUME DeskInv, SetStatus(guardian.ref, "pending_submit") \/ SetStatus(guardian.ref, "filled"),
         guardian.pc \in {"persist", "fill"},
         UNCHANGED <<positions, trades, events, killed>>, GuardianOnly,
         NEW pc \in {"fill", "close"}, guardian' = [guardian EXCEPT !.pc = pc]
  PROVE  DeskInv'
<1>0. guardian \in GuardianRun /\ guardian.ref \in Ref /\ guardian.pos \in guardian.todo
  BY DEF DeskInv, DeskTypes, GuardianInv
<1>1. PICK s \in {"pending_submit", "filled"} : SetStatus(guardian.ref, s)
  OBVIOUS
<1>2. /\ (\A q : Recorded(q) => Recorded(q)')
      /\ DOMAIN orders' \subseteq Ref
      /\ orders' \in [DOMAIN orders' -> {"pending_submit", "filled"}]
      /\ DOMAIN orders' = DOMAIN orders \cup {guardian.ref}
  BY <1>0, <1>1, OrdersGrow, StatusSet DEF DeskInv
<1>3. /\ guardian' \in GuardianRun /\ guardian'.pc = pc /\ guardian'.ref = guardian.ref
      /\ guardian'.todo = guardian.todo /\ guardian'.pos = guardian.pos
      /\ guardian'.seen = guardian.seen
  BY <1>0 DEF GuardianRun
<1>4. DeskTypes'
  BY <1>2, <1>3 DEF DeskInv, DeskTypes, GuardianOnly
<1>5. /\ OpenPositions' = OpenPositions
      /\ \A i \in DOMAIN positions : Own(i)' = Own(i)
      /\ TradesInv' /\ HomeInv'
  BY LedgerKept
<1>6. GuardianInv'
  <2>1. \A i \in guardian.todo : ~Own(i)'
    BY <1>5 DEF DeskInv, GuardianInv, OpenPositions
  <2> QED  BY <1>0, <1>2, <1>3, <1>5, <2>1 DEF DeskInv, GuardianInv, Recorded
<1>7. EntryInv'
  BY <1>2, EntryKept DEF GuardianOnly
<1>8. SnipeInv'
  BY <1>2, <1>5, SnipeKept DEF GuardianOnly, DeskInv, SnipeInv
<1> QED  BY <1>4, <1>5, <1>6, <1>7, <1>8 DEF DeskInv

\* The breakers' rows are written in a fixed order.
LEMMA FirstRow ==
  ASSUME NEW L \in SUBSET BreakerTypes, L # {}
  PROVE  \E u \in L : \A w \in L : Rank[u] <= Rank[w]
<1>1. L \subseteq {"daily_loss", "consecutive_loss", "drawdown"}
  BY DEF BreakerTypes, AutoBreakers
<1>2. Rank["daily_loss"] = 1 /\ Rank["consecutive_loss"] = 2 /\ Rank["drawdown"] = 3
  BY DEF Rank
<1>3. CASE "daily_loss" \in L
  BY <1>1, <1>2, <1>3
<1>4. CASE "daily_loss" \notin L /\ "consecutive_loss" \in L
  BY <1>1, <1>2, <1>4
<1>5. CASE "daily_loss" \notin L /\ "consecutive_loss" \notin L
  <2>1. L = {"drawdown"}
    BY <1>1, <1>5
  <2> QED  BY <1>2, <2>1
<1> QED  BY <1>3, <1>4, <1>5

\* One of the rows due is appended.
LEMMA RowWritten ==
  ASSUME DeskInv, GuardianRecord, NEW L, L = {t \in BreakerTypes : guardian.rows[t] # "none"},
         L # {}
  PROVE  \E t \in L :
           /\ AppendEvent(t, guardian.rows[t], guardian.seen)
           /\ guardian' = [guardian EXCEPT !.rows[t] = "none"]
<1> DEFINE t == CHOOSE u \in L : \A w \in L : Rank[u] <= Rank[w]
<1>1. t \in L
  BY FirstRow
<1>2. /\ AppendEvent(t, guardian.rows[t], guardian.seen)
      /\ guardian' = [guardian EXCEPT !.rows[t] = "none"]
  BY DEF GuardianRecord
<1> QED  BY <1>1, <1>2

LEMMA EventAppended ==
  ASSUME events \in Seq(Event), NEW t \in BreakerTypes,
         NEW a \in {"trip", "reset", "manual_restart"}, NEW n \in Nat, AppendEvent(t, a, n)
  PROVE  /\ events' \in Seq(Event)
         /\ Len(events') = Len(events) + 1
         /\ \A k \in DOMAIN events : events'[k] = events[k]
         /\ events'[Len(events')] = [type |-> t, action |-> a, seen |-> n]
<1>1. [type |-> t, action |-> a, seen |-> n] \in Event
  BY DEF Event
<1> QED  BY <1>1 DEF AppendEvent

LEMMA GuardianStepKeepsInv ==
  ASSUME DeskInv, GuardianStep
  PROVE  DeskInv'
<1>0. /\ guardian \in GuardianRun /\ hour \in Hours /\ events \in Seq(Event)
      /\ killed \subseteq Profiles /\ Len(trades) \in Nat
      /\ positions \in Seq(Position)
  BY DEF DeskInv, DeskTypes
<1>9. ASSUME UNCHANGED <<orders, positions, trades>>, guardian'.pc \in {"idle", "loop", "record", "kill"},
             guardian'.todo = {}, guardian'.seen \in Nat, guardian'.seen <= Len(trades)
      PROVE  GuardianInv'
  BY <1>9 DEF GuardianInv
<1>1. CASE GuardianStart
  <2> DEFINE T == {i \in OpenPositions : positions[i].ref.symbol \in Symbols}
  <2>1. T \subseteq Nat /\ T \subseteq OpenPositions /\ \A i \in T : ~Own(i)
    BY <1>0, DeskAssumption DEF DeskInv, HomeInv, OpenPositions
  <2>2. guardian' = [IdleGuardian EXCEPT !.pc = "loop", !.day = Day(hour), !.todo = T]
    BY <1>1 DEF GuardianStart
  <2> HIDE DEF T
  <2>3. /\ guardian' \in GuardianRun /\ guardian'.pc = "loop" /\ guardian'.todo = T
        /\ guardian'.seen = 0
    BY <1>0, <2>1, <2>2, HoursAndDays, IdleRuns DEF IdleGuardian, GuardianRun
  <2>4. OpenPositions' = OpenPositions /\ \A i \in DOMAIN positions : Own(i)' = Own(i)
    BY <1>1, LedgerKept DEF GuardianStart
  <2>5. GuardianInv'
    BY <1>0, <1>1, <2>1, <2>3, <2>4 DEF GuardianInv, GuardianStart, OpenPositions
  <2> QED  BY <1>0, <1>1, <2>3, <2>5, GuardianMoves DEF GuardianStart
<1>2. CASE \E i \in guardian.todo, reason \in ExitReasons : GuardianExit(i, reason)
  <2>1. PICK i \in guardian.todo, reason \in ExitReasons : GuardianExit(i, reason)
    BY <1>2
  <2> DEFINE r == OrderRef(positions[i].ref.strategy, positions[i].ref.symbol,
                           [unit |-> "day", at |-> guardian.day], reason)
  <2>2. i \in DOMAIN positions /\ positions[i].ref \in Ref /\ i \in Nat
    <3>1. i \in DOMAIN positions
      BY DEF DeskInv, GuardianInv, OpenPositions
    <3>2. positions[i] \in Position /\ i \in Nat
      BY <1>0, <3>1
    <3> QED  BY <3>1, <3>2 DEF Position
  <2>3. r \in Ref
    <3>1. /\ positions[i].ref.strategy \in Profiles \cup {Snipe}
          /\ positions[i].ref.symbol \in Symbols \cup Tickers
      BY <2>2 DEF Ref
    <3>2. guardian.day \in Days
      BY <1>0 DEF GuardianRun
    <3> QED  BY <3>1, <3>2, StampsType, RefType
  <2>4. guardian' = [guardian EXCEPT !.pc = "persist", !.pos = i, !.ref = r]
    BY <2>1 DEF GuardianExit
  <2> HIDE DEF r
  <2>5. /\ guardian' \in GuardianRun /\ guardian'.pc = "persist" /\ guardian'.ref = r
        /\ guardian'.pos = i /\ guardian'.todo = guardian.todo /\ guardian'.seen = guardian.seen
    BY <1>0, <2>2, <2>3, <2>4 DEF GuardianRun
  <2>6. OpenPositions' = OpenPositions /\ \A j \in DOMAIN positions : Own(j)' = Own(j)
    BY <2>1, LedgerKept DEF GuardianExit
  <2>7. GuardianInv'
    BY <2>1, <2>3, <2>5, <2>6 DEF DeskInv, GuardianInv, GuardianExit, OpenPositions
  <2> QED  BY <1>0, <2>1, <2>5, <2>7, GuardianMoves DEF GuardianExit
<1>3. CASE GuardianPersist
  <2>1. CASE Recorded(guardian.ref)
    <3>1. guardian' = IdleGuardian /\ UNCHANGED <<orders, positions, trades>>
      BY <1>3, <2>1 DEF GuardianPersist
    <3>2. guardian' \in GuardianRun /\ GuardianInv'
      BY <1>0, <1>9, <3>1, IdleRuns DEF IdleGuardian
    <3> QED  BY <1>0, <1>3, <3>1, <3>2, GuardianMoves DEF GuardianPersist
  <2>2. CASE ~Recorded(guardian.ref)
    BY <1>3, <2>2, GuardianRecords DEF GuardianPersist
  <2> QED  BY <2>1, <2>2
<1>4. CASE GuardianFill
  BY <1>4, GuardianRecords DEF GuardianFill
<1>5. CASE GuardianClose
  <2> DEFINE i == guardian.pos
  <2>0. i \in OpenPositions /\ ~Own(i) /\ i \in DOMAIN positions /\ ClosePosition(i)
    BY <1>5 DEF GuardianClose, DeskInv, GuardianInv, OpenPositions
  <2>1. /\ OpenPositions' = OpenPositions \ {i}
        /\ \A j \in DOMAIN positions : Own(j)' = Own(j)
        /\ TradesInv' /\ HomeInv' /\ Len(trades') = Len(trades) + 1
    BY <2>0, OpenAfterClosing
  <2>2. guardian' = [guardian EXCEPT !.pc = "loop", !.todo = @ \ {i}, !.pos = 0, !.ref = Never]
    BY <1>5 DEF GuardianClose
  <2>3. /\ guardian' \in GuardianRun /\ guardian'.pc = "loop"
        /\ guardian'.todo = guardian.todo \ {i} /\ guardian'.seen = guardian.seen
    BY <1>0, <2>2 DEF GuardianRun
  <2>4. DeskTypes'
    BY <1>5, <2>0, <2>3, PositionClosed DEF GuardianClose, GuardianOnly, DeskInv, DeskTypes, Ref
  <2>5. GuardianInv'
    <3>1. guardian.seen \in Nat
      BY <1>0 DEF GuardianRun
    <3>2. \A j \in guardian'.todo : ~Own(j)'
      BY <2>1, <2>3 DEF DeskInv, GuardianInv, OpenPositions
    <3> QED  BY <1>0, <2>1, <2>3, <3>1, <3>2 DEF DeskInv, GuardianInv
  <2>6. \A q : Recorded(q) => Recorded(q)'
    BY <1>5 DEF GuardianClose, Recorded
  <2>7. EntryInv'
    BY <1>5, <2>6, EntryKept DEF GuardianClose, GuardianOnly
  <2>8. SnipeInv'
    <3>1. i \notin snipe.todo
      BY <2>0 DEF DeskInv, SnipeInv
    <3>2. snipe.todo \subseteq OpenPositions'
      BY <2>1, <3>1 DEF DeskInv, SnipeInv
    <3> QED  BY <1>5, <2>1, <2>6, <3>2, SnipeKept DEF GuardianClose, GuardianOnly
  <2> QED  BY <2>1, <2>4, <2>5, <2>7, <2>8 DEF DeskInv
<1>6. CASE GuardianEvaluate
  <2> DEFINE R == [t \in BreakerTypes |->
                     Transition(t, Tripped(t), Breached(PnlsOf(trades))[t])]
  <2>1. R \in [BreakerTypes -> NoneOrAction]
    BY DEF Transition, NoneOrAction
  <2>2. guardian' = [guardian EXCEPT !.pc = "record", !.todo = {}, !.seen = Len(trades),
                                     !.rows = R]
    BY <1>6 DEF GuardianEvaluate
  <2> HIDE DEF R
  <2>3. /\ guardian' \in GuardianRun /\ guardian'.pc = "record" /\ guardian'.todo = {}
        /\ guardian'.seen = Len(trades)
    BY <1>0, <2>1, <2>2 DEF GuardianRun
  <2>4. GuardianInv'
    BY <1>0, <1>6, <1>9, <2>3 DEF GuardianEvaluate
  <2> QED  BY <1>0, <1>6, <2>3, <2>4, GuardianMoves DEF GuardianEvaluate
<1>7. CASE GuardianRecord
  <2> DEFINE L == {t \in BreakerTypes : guardian.rows[t] # "none"}
  <2>0. guardian.seen \in Nat /\ guardian.seen <= Len(trades)
    BY <1>0 DEF GuardianRun, DeskInv, GuardianInv
  <2>1. CASE L = {}
    <3>1. guardian' = [guardian EXCEPT !.pc = "kill"] /\ UNCHANGED events
      BY <1>7, <2>1 DEF GuardianRecord
    <3>2. /\ guardian' \in GuardianRun /\ guardian'.pc = "kill"
          /\ guardian'.todo = guardian.todo /\ guardian'.seen = guardian.seen
      BY <1>0, <3>1 DEF GuardianRun
    <3>3. OpenPositions' = OpenPositions /\ \A j \in DOMAIN positions : Own(j)' = Own(j)
      BY <1>7, LedgerKept DEF GuardianRecord
    <3>4. GuardianInv'
      BY <1>7, <3>2, <3>3 DEF DeskInv, GuardianInv, GuardianRecord, OpenPositions
    <3> QED  BY <1>0, <1>7, <3>1, <3>2, <3>4, GuardianMoves DEF GuardianRecord
  <2>2. CASE L # {}
    <3>1. PICK t \in L : /\ AppendEvent(t, guardian.rows[t], guardian.seen)
                         /\ guardian' = [guardian EXCEPT !.rows[t] = "none"]
      BY <1>7, <2>2, RowWritten
    <3>2. /\ t \in BreakerTypes /\ guardian.rows[t] \in {"trip", "reset"}
          /\ guardian.rows \in [BreakerTypes -> NoneOrAction]
      BY <1>0 DEF GuardianRun, NoneOrAction
    <3>3. events' \in Seq(Event)
      BY <1>0, <2>0, <3>1, <3>2, EventAppended
    <3>4. guardian' = [guardian EXCEPT !.rows = [guardian.rows EXCEPT ![t] = "none"]]
      BY <3>1
    <3>5. [guardian.rows EXCEPT ![t] = "none"] \in [BreakerTypes -> NoneOrAction]
      BY <3>2 DEF NoneOrAction
    <3>6. /\ guardian' \in GuardianRun /\ guardian'.pc = "record"
          /\ guardian'.todo = guardian.todo /\ guardian'.seen = guardian.seen
      BY <1>0, <1>7, <3>4, <3>5 DEF GuardianRun, GuardianRecord
    <3>7. OpenPositions' = OpenPositions /\ \A j \in DOMAIN positions : Own(j)' = Own(j)
      BY <1>7, LedgerKept DEF GuardianRecord
    <3>8. GuardianInv'
      BY <1>7, <3>6, <3>7 DEF DeskInv, GuardianInv, GuardianRecord, OpenPositions
    <3> QED  BY <1>0, <1>7, <3>3, <3>6, <3>8, GuardianMoves DEF GuardianRecord
  <2> QED  BY <2>1, <2>2
<1>8. CASE GuardianKill
  <2>1. guardian' \in GuardianRun /\ GuardianInv'
    BY <1>0, <1>8, <1>9, IdleRuns DEF GuardianKill, IdleGuardian
  <2>2. killed' \subseteq Profiles
    BY <1>0, <1>8 DEF GuardianKill
  <2> QED  BY <1>0, <1>8, <2>1, <2>2, GuardianMoves DEF GuardianKill
<1> QED  BY <1>1, <1>2, <1>3, <1>4, <1>5, <1>6, <1>7, <1>8 DEF GuardianStep

-----------------------------------------------------------------------------
(* The snipe's run.                                                         *)

LEMMA SnipeMoves ==
  ASSUME DeskInv, UNCHANGED <<orders, positions, trades>>, SnipeOnly,
         snipe' \in SnipeRun, SnipeInv'
  PROVE  DeskInv'
<1>1. \A q : Recorded(q)' = Recorded(q)
  BY DEF Recorded
<1>2. DeskTypes'
  BY DEF DeskInv, DeskTypes, SnipeOnly, Ref
<1>3. EntryInv' /\ GuardianInv'
  BY <1>1, LedgerKept, EntryKept, GuardianKept DEF SnipeOnly, DeskInv, GuardianInv
<1> QED  BY <1>2, <1>3, LedgerKept DEF DeskInv

LEMMA SnipeRecords ==
  ASSUME DeskInv, NEW r \in Ref, NEW s \in {"pending_submit", "filled"}, SetStatus(r, s),
         UNCHANGED <<positions, trades>>, SnipeOnly, snipe' \in SnipeRun,
         snipe'.pc \in {"sold", "bought"}, snipe'.ref = r, snipe'.todo = snipe.todo,
         snipe'.pc = "sold" => snipe'.pos \in snipe.todo,
         snipe'.pc = "bought" => r.strategy = Snipe /\ r.symbol \in Tickers
  PROVE  DeskInv'
<1>1. /\ (\A q : Recorded(q) => Recorded(q)') /\ Recorded(r)'
      /\ DOMAIN orders' \subseteq Ref
      /\ orders' \in [DOMAIN orders' -> {"pending_submit", "filled"}]
  BY OrdersGrow, StatusSet DEF DeskInv, Recorded
<1>2. DeskTypes'
  BY <1>1 DEF DeskInv, DeskTypes, SnipeOnly
<1>3. EntryInv' /\ GuardianInv'
  BY <1>1, LedgerKept, EntryKept, GuardianKept DEF SnipeOnly, DeskInv, GuardianInv
<1>4. SnipeInv'
  <2>1. OpenPositions' = OpenPositions /\ \A j \in DOMAIN positions : Own(j)' = Own(j)
    BY LedgerKept
  <2>2. \A j \in snipe.todo : Own(j)'
    BY <2>1 DEF DeskInv, SnipeInv, OpenPositions
  <2> QED  BY <1>1, <2>1, <2>2 DEF DeskInv, SnipeInv
<1> QED  BY <1>2, <1>3, <1>4, LedgerKept DEF DeskInv

LEMMA SnipeStepKeepsInv ==
  ASSUME DeskInv, SnipeStep
  PROVE  DeskInv'
<1>0. /\ snipe \in SnipeRun /\ hour \in Hours /\ Len(trades) \in Nat
      /\ positions \in Seq(Position)
  BY DEF DeskInv, DeskTypes
<1>9. ASSUME snipe' = IdleSnipe
      PROVE  snipe' \in SnipeRun /\ SnipeInv'
  BY <1>9, IdleRuns DEF SnipeInv, IdleSnipe
<1>1. CASE SnipeStart
  <2>1. Ripe \subseteq OpenPositions /\ Ripe \subseteq Nat /\ \A i \in Ripe : Own(i)
    BY <1>0 DEF Ripe, OpenPositions, Own
  <2>2. snipe' = [IdleSnipe EXCEPT !.pc = "close", !.hour = hour, !.todo = Ripe]
    BY <1>1 DEF SnipeStart
  <2>3. snipe' \in SnipeRun /\ snipe'.pc = "close" /\ snipe'.todo = Ripe
    BY <1>0, <2>1, <2>2 DEF IdleSnipe, SnipeRun
  <2>4. SnipeInv'
    <3>1. OpenPositions' = OpenPositions /\ \A j \in DOMAIN positions : Own(j)' = Own(j)
      BY <1>1, LedgerKept DEF SnipeStart
    <3>2. \A i \in snipe'.todo : Own(i)'
      BY <2>1, <2>3, <3>1 DEF OpenPositions
    <3> QED  BY <2>1, <2>3, <3>1, <3>2 DEF SnipeInv
  <2> QED  BY <1>1, <2>3, <2>4, SnipeMoves DEF SnipeStart
<1>2. CASE \E i \in snipe.todo : SnipeSell(i)
  <2>1. PICK i \in snipe.todo : SnipeSell(i)
    BY <1>2
  <2>2. CASE Recorded(SnipeSellRef(i))
    BY <1>9, <2>1, <2>2, SnipeMoves DEF SnipeSell
  <2>3. CASE ~Recorded(SnipeSellRef(i))
    <3> DEFINE r == SnipeSellRef(i)
    <3>1. r \in Ref
      <4>1. i \in DOMAIN positions
        BY DEF DeskInv, SnipeInv, OpenPositions
      <4>2. positions[i] \in Position
        BY <1>0, <4>1
      <4>3. positions[i].ref.symbol \in Symbols \cup Tickers /\ snipe.hour \in Hours
        BY <1>0, <4>2 DEF Position, Ref, SnipeRun
      <4> QED  BY <4>3, StampsType, RefType DEF SnipeSellRef
    <3>2. /\ SetStatus(r, "pending_submit")
          /\ snipe' = [snipe EXCEPT !.pc = "sold", !.pos = i, !.ref = r]
      BY <2>1, <2>3 DEF SnipeSell
    <3> HIDE DEF r
    <3>3. i \in Nat
      BY <1>0 DEF SnipeRun
    <3>4. /\ snipe' \in SnipeRun /\ snipe'.pc = "sold" /\ snipe'.pos = i
          /\ snipe'.ref = r /\ snipe'.todo = snipe.todo
      BY <1>0, <3>1, <3>2, <3>3 DEF SnipeRun
    <3> QED  BY <2>1, <3>1, <3>2, <3>4, SnipeRecords DEF SnipeSell
  <2> QED  BY <2>2, <2>3
<1>3. CASE SnipeBook
  <2> DEFINE i == snipe.pos
  <2>0. /\ i \in OpenPositions /\ Own(i) /\ i \in DOMAIN positions /\ ClosePosition(i)
        /\ snipe.ref \in Ref /\ SetStatus(snipe.ref, "filled")
    BY <1>3 DEF SnipeBook, DeskInv, SnipeInv, OpenPositions
  <2>1. /\ OpenPositions' = OpenPositions \ {i}
        /\ \A j \in DOMAIN positions : Own(j)' = Own(j)
        /\ TradesInv' /\ HomeInv' /\ Len(trades') = Len(trades) + 1
    BY <2>0, OpenAfterClosing
  <2>2. /\ (\A q : Recorded(q) => Recorded(q)')
        /\ DOMAIN orders' \subseteq Ref
        /\ orders' \in [DOMAIN orders' -> {"pending_submit", "filled"}]
    BY <2>0, OrdersGrow, StatusSet DEF DeskInv
  <2>3. snipe' = [snipe EXCEPT !.pc = "close", !.todo = @ \ {i}, !.pos = 0, !.ref = Never]
    BY <1>3 DEF SnipeBook
  <2>4. /\ snipe' \in SnipeRun /\ snipe'.pc = "close" /\ snipe'.todo = snipe.todo \ {i}
    BY <1>0, <2>3 DEF SnipeRun
  <2>5. /\ positions' \in Seq(Position) /\ trades' \in Seq([pos : Nat, pnl : Int])
    BY <2>0, PositionClosed DEF DeskInv
  <2>6. DeskTypes'
    BY <1>3, <2>2, <2>4, <2>5 DEF SnipeBook, SnipeOnly, DeskInv, DeskTypes
  <2>7. SnipeInv'
    <3>1. \A j \in snipe'.todo : Own(j)'
      BY <2>1, <2>4 DEF DeskInv, SnipeInv, OpenPositions
    <3> QED  BY <2>1, <2>4, <3>1 DEF DeskInv, SnipeInv
  <2>8. EntryInv'
    BY <1>3, <2>2, EntryKept DEF SnipeBook, SnipeOnly
  <2>9. GuardianInv'
    <3>1. i \notin guardian.todo
      BY <2>0 DEF DeskInv, GuardianInv
    <3>2. guardian.todo \subseteq OpenPositions'
      BY <2>1, <3>1 DEF DeskInv, GuardianInv
    <3>3. Len(trades') \in Nat /\ Len(trades) <= Len(trades')
      BY <1>0, <2>1
    <3> QED  BY <1>3, <2>1, <2>2, <3>2, <3>3, GuardianKept DEF SnipeBook, SnipeOnly
  <2> QED  BY <2>1, <2>6, <2>7, <2>8, <2>9 DEF DeskInv
<1>4. CASE \E t \in Tickers : SnipeBuy(t)
  <2>1. PICK t \in Tickers : SnipeBuy(t)
    BY <1>4
  <2> DEFINE r == OrderRef(Snipe, t, HourStamp(snipe.hour), "entry")
  <2>2. r \in Ref /\ r.strategy = Snipe /\ r.symbol = t
    <3>1. snipe.hour \in Hours
      BY <1>0 DEF SnipeRun
    <3>2. HourStamp(snipe.hour) \in Stamps
      BY <3>1, StampsType
    <3> QED  BY <3>2, RefType
  <2>3. /\ SetStatus(r, "pending_submit") /\ snipe' = [snipe EXCEPT !.pc = "bought", !.ref = r]
    BY <2>1 DEF SnipeBuy
  <2> HIDE DEF r
  <2>4. /\ snipe' \in SnipeRun /\ snipe'.pc = "bought" /\ snipe'.ref = r
        /\ snipe'.todo = snipe.todo
    BY <1>0, <2>2, <2>3 DEF SnipeRun
  <2> QED  BY <2>1, <2>2, <2>3, <2>4, SnipeRecords DEF SnipeBuy
<1>5. CASE SnipeNoTarget
  BY <1>5, <1>9, SnipeMoves DEF SnipeNoTarget
<1>6. CASE SnipeOpen
  <2>0. /\ snipe.ref \in Ref /\ snipe.ref.strategy = Snipe /\ snipe.ref.symbol \in Tickers
        /\ SetStatus(snipe.ref, "filled") /\ OpenPosition(snipe.ref)
    BY <1>6 DEF SnipeOpen, DeskInv, SnipeInv
  <2>1. /\ OpenPositions \subseteq OpenPositions'
        /\ \A j \in DOMAIN positions : Own(j)' = Own(j)
        /\ TradesInv' /\ HomeInv'
    BY <1>6, <2>0, OpenAfterOpening DEF SnipeOpen
  <2>2. /\ (\A q : Recorded(q) => Recorded(q)')
        /\ DOMAIN orders' \subseteq Ref
        /\ orders' \in [DOMAIN orders' -> {"pending_submit", "filled"}]
    BY <2>0, OrdersGrow, StatusSet DEF DeskInv
  <2>3. positions' \in Seq(Position)
    BY <2>0, PositionOpened DEF DeskInv
  <2>4. snipe' \in SnipeRun /\ SnipeInv'
    BY <1>6, <1>9 DEF SnipeOpen
  <2>5. DeskTypes'
    BY <1>6, <2>2, <2>3, <2>4 DEF SnipeOpen, SnipeOnly, DeskInv, DeskTypes
  <2>6. EntryInv'
    BY <1>6, <2>2, EntryKept DEF SnipeOpen, SnipeOnly
  <2>7. GuardianInv'
    <3>1. guardian.todo \subseteq OpenPositions'
      BY <2>1 DEF DeskInv, GuardianInv
    <3>2. Len(trades') \in Nat /\ Len(trades) <= Len(trades')
      BY <1>0, <1>6 DEF SnipeOpen
    <3> QED  BY <1>6, <2>1, <2>2, <3>1, <3>2, GuardianKept DEF SnipeOpen, SnipeOnly
  <2> QED  BY <2>1, <2>4, <2>5, <2>6, <2>7 DEF DeskInv
<1> QED  BY <1>1, <1>2, <1>3, <1>4, <1>5, <1>6 DEF SnipeStep

-----------------------------------------------------------------------------
(* Everything else, and the theorems.                                       *)

\* A human, the clock, and a run that dies.
LEMMA OthersKeepInv ==
  ASSUME DeskInv, HumanRestart \/ NextHour \/ Crash \/ UNCHANGED vars
  PROVE  DeskInv'
<1>0. /\ events \in Seq(Event) /\ Len(trades) \in Nat /\ hour \in Hours
      /\ UNCHANGED <<orders, positions, trades, killed>>
  BY DEF DeskInv, DeskTypes, HumanRestart, NextHour, Crash, vars
<1>1. \A q : Recorded(q)' = Recorded(q)
  BY <1>0 DEF Recorded
<1>2. /\ OpenPositions' = OpenPositions
      /\ \A j \in DOMAIN positions : Own(j)' = Own(j)
      /\ TradesInv' /\ HomeInv'
      /\ Len(trades') \in Nat /\ Len(trades) <= Len(trades')
  BY <1>0, LedgerKept
<1>3. events' \in Seq(Event)
  BY <1>0, EventAppended
    DEF HumanRestart, ClearManualRestart, NextHour, Crash, vars, BreakerTypes
<1>4. hour' \in Hours /\ listed' \in [Tickers -> Hours \cup {Never}]
  <2>1. CASE NextHour
    <3>1. hour + 1 \in Hours
      BY <1>0, <2>1, DeskAssumption DEF NextHour, Hours
    <3> QED  BY <2>1, <3>1 DEF NextHour, DeskInv, DeskTypes
  <2>2. CASE HumanRestart \/ Crash \/ UNCHANGED vars
    BY <2>2 DEF HumanRestart, Crash, vars, DeskInv, DeskTypes
  <2> QED  BY <2>1, <2>2
<1>5. /\ entry' \in {entry, IdleEntry} /\ guardian' \in {guardian, IdleGuardian}
      /\ snipe' \in {snipe, IdleSnipe}
  BY DEF HumanRestart, NextHour, Crash, vars
<1>6. entry' \in EntryRun /\ guardian' \in GuardianRun /\ snipe' \in SnipeRun
  BY <1>5, IdleRuns DEF DeskInv, DeskTypes
<1>7. DeskTypes'
  BY <1>0, <1>3, <1>4, <1>6 DEF DeskInv, DeskTypes, Ref
<1>8. EntryInv'
  <2>1. CASE entry' = entry
    BY <1>1, <2>1, EntryKept
  <2>2. CASE entry' = IdleEntry
    BY <2>2 DEF IdleEntry, EntryInv
  <2> QED  BY <1>5, <2>1, <2>2
<1>9. GuardianInv'
  <2>1. CASE guardian' = guardian
    BY <1>1, <1>2, <2>1, GuardianKept DEF DeskInv, GuardianInv
  <2>2. CASE guardian' = IdleGuardian
    BY <1>2, <2>2 DEF IdleGuardian, GuardianInv
  <2> QED  BY <1>5, <2>1, <2>2
<1>10. SnipeInv'
  <2>1. CASE snipe' = snipe
    BY <1>1, <1>2, <2>1, SnipeKept DEF DeskInv, SnipeInv
  <2>2. CASE snipe' = IdleSnipe
    BY <2>2 DEF IdleSnipe, SnipeInv
  <2> QED  BY <1>5, <2>1, <2>2
<1> QED  BY <1>2, <1>7, <1>8, <1>9, <1>10 DEF DeskInv

\* What each run holds exists, is open and is its own to act on; trades are of
\* closed positions, one each.
THEOREM DeskInvariant == Spec => []DeskInv
<1>1. Init => DeskInv
  BY DeskInit
<1>2. DeskInv /\ [Next]_vars => DeskInv'
  BY EntryStepKeepsInv, GuardianStepKeepsInv, SnipeStepKeepsInv, OthersKeepInv DEF Next
<1> QED  BY <1>1, <1>2, PTL DEF Spec

\* Type correctness, and what the runs hold exists: every profile, coin and
\* clock, and a death anywhere.
THEOREM DeskTypeCorrect == Spec => []DeskTypeOK
<1>1. DeskInv => DeskTypeOK
  <2> SUFFICES ASSUME DeskInv  PROVE  DeskTypeOK
    OBVIOUS
  <2>1. /\ hour \in Hours /\ listed \in [Tickers -> Hours \cup {Never}]
        /\ DOMAIN orders \subseteq Ref
        /\ \A r \in DOMAIN orders : orders[r] \in {"pending_submit", "filled"}
        /\ positions \in Seq([ref : Ref, hour : Hours, status : {"open", "closed"}])
        /\ events \in Seq(Event) /\ killed \subseteq Profiles
    BY DEF DeskInv, DeskTypes, Position
  <2>2. trades \in Seq([pos : DOMAIN positions, pnl : Pnls])
    <3> DEFINE T == [pos : Nat, pnl : Int]
               U == [pos : DOMAIN positions, pnl : Pnls]
    <3>1. trades \in Seq(T)
      BY DEF DeskInv, DeskTypes
    <3>2. ASSUME NEW k \in DOMAIN trades  PROVE  trades[k] \in U
      <4>1. trades[k] \in T
        <5> HIDE DEF T
        <5> QED  BY <3>1
      <4>2. trades[k].pos \in DOMAIN positions /\ trades[k].pnl \in Pnls
        BY DEF DeskInv, TradesInv
      <4> QED  BY <4>1, <4>2
    <3>3. trades \in Seq(U)
      <4> HIDE DEF T, U
      <4> QED  BY <3>1, <3>2
    <3> QED  BY <3>3
  <2>3. /\ entry.ref \in Ref \cup {Never} /\ entry.cands \subseteq Profiles \X Symbols
        /\ entry.pc \in {"fill", "open"} => Recorded(entry.ref)
    BY DEF DeskInv, DeskTypes, EntryRun, EntryInv
  <2>4. /\ guardian.todo \subseteq DOMAIN positions
        /\ guardian.pc \in {"fill", "close"} =>
             Recorded(guardian.ref) /\ guardian.pos \in guardian.todo
    BY DEF DeskInv, GuardianInv, OpenPositions
  <2>5. /\ guardian.seen \in 0..Len(trades)
        /\ guardian.rows \in [BreakerTypes -> {"none", "trip", "reset"}]
    BY DEF DeskInv, DeskTypes, GuardianRun, GuardianInv, NoneOrAction
  <2>6. /\ snipe.todo \subseteq DOMAIN positions
        /\ snipe.pc \in {"sold"} => Recorded(snipe.ref) /\ snipe.pos \in snipe.todo
    BY DEF DeskInv, SnipeInv, OpenPositions
  <2> QED  BY <2>1, <2>2, <2>3, <2>4, <2>5, <2>6 DEF DeskTypeOK
<1> QED  BY <1>1, DeskInvariant, PTL

\* No position earns its P&L twice, although two processes close positions
\* from lists they read before.
THEOREM ClosedAtMostOnce == Spec => []ClosedOnce
<1>1. DeskInv => ClosedOnce
  BY DEF DeskInv, TradesInv
<1> QED  BY <1>1, DeskInvariant, PTL

-----------------------------------------------------------------------------
(* A coin is held once and sniped once.                                     *)

IsSnipe(r)    == r.strategy = Snipe
IsSnipeBuy(r) == IsSnipe(r) /\ r.intent = "entry"

\* What an entry run is about to buy nobody holds, and it buys it once; what
\* the snipe is about to book nobody holds, because whatever it ever booked is
\* in the order history.
CandsInv ==
  /\ \A c \in entry.cands : c[2] \notin OpenSymbols
  /\ \A c, d \in entry.cands : c[2] = d[2] => c = d
  /\ entry.pc \in {"persist", "fill", "open"} =>
       /\ entry.ref.symbol \notin OpenSymbols
       /\ \A c \in entry.cands : c[2] # entry.ref.symbol
HistoryInv ==
  /\ \A i \in DOMAIN positions :
       Own(i) => \E r \in DOMAIN orders : IsSnipe(r) /\ r.symbol = positions[i].ref.symbol
  /\ \A q, r \in DOMAIN orders :
       IsSnipeBuy(q) /\ IsSnipeBuy(r) /\ q.symbol = r.symbol => q = r
  /\ snipe.pc = "bought" => Recorded(snipe.ref) /\ snipe.ref.symbol \notin OpenSymbols
  /\ guardian.pc \in {"persist", "fill"} => guardian.ref.intent # "entry"
CoinInv == OnePositionPerCoin /\ CandsInv /\ HistoryInv

\* What grows is harmless when it is not a purchase of the snipe.
LEMMA HistoryGrows ==
  ASSUME DeskInv, CoinInv, NEW r, SetStatus(r, "pending_submit") \/ SetStatus(r, "filled"),
         ~IsSnipeBuy(r) \/ Recorded(r), UNCHANGED positions,
         snipe' = snipe \/ snipe'.pc # "bought",
         guardian'.pc \in {"persist", "fill"} => guardian'.ref.intent # "entry"
  PROVE  HistoryInv'
<1>1. DOMAIN orders' = DOMAIN orders \cup {r}
  BY DEF SetStatus
<1>2. \A i \in DOMAIN positions : Own(i)' = Own(i)
  BY DEF Own
<1>3. OpenSymbols' = OpenSymbols
  BY DEF OpenSymbols, OpenPositions
<1>4. \A q, t \in DOMAIN orders' :
        IsSnipeBuy(q) /\ IsSnipeBuy(t) /\ q.symbol = t.symbol => q = t
  BY <1>1 DEF CoinInv, HistoryInv, Recorded
<1>5. \A i \in DOMAIN positions' :
        Own(i)' => \E q \in DOMAIN orders' : IsSnipe(q) /\ q.symbol = positions'[i].ref.symbol
  BY <1>1, <1>2 DEF CoinInv, HistoryInv
<1>6. snipe'.pc = "bought" => Recorded(snipe.ref)' /\ snipe.ref.symbol \notin OpenSymbols'
                              /\ snipe' = snipe
  BY <1>1, <1>3 DEF CoinInv, HistoryInv, Recorded
<1> QED  BY <1>4, <1>5, <1>6 DEF HistoryInv, Recorded

LEMMA HistoryStays ==
  ASSUME CoinInv, UNCHANGED orders, DOMAIN positions' = DOMAIN positions,
         \A i \in DOMAIN positions : positions'[i].ref = positions[i].ref,
         OpenSymbols' \subseteq OpenSymbols,
         snipe' = snipe \/ snipe'.pc # "bought",
         guardian'.pc \in {"persist", "fill"} => guardian'.ref.intent # "entry"
  PROVE  HistoryInv'
<1>1. \A i \in DOMAIN positions : Own(i)' = Own(i)
  BY DEF Own
<1> QED  BY <1>1 DEF CoinInv, HistoryInv, Recorded

LEMMA CandsShrink ==
  ASSUME CoinInv, entry'.cands \subseteq entry.cands, OpenSymbols' \subseteq OpenSymbols,
         \/ entry' = entry
         \/ entry'.pc \notin {"persist", "fill", "open"}
         \/ /\ entry.pc \in {"persist", "fill"} /\ entry'.ref = entry.ref
  PROVE  CandsInv'
BY DEF CoinInv, CandsInv

\* Symbols of open positions after a step of the book.
LEMMA SymbolsKept ==
  ASSUME UNCHANGED positions
  PROVE  /\ OpenSymbols' = OpenSymbols /\ OnePositionPerCoin' = OnePositionPerCoin
         /\ DOMAIN positions' = DOMAIN positions
         /\ \A i \in DOMAIN positions : positions'[i].ref = positions[i].ref
BY DEF OpenSymbols, OpenPositions, OnePositionPerCoin

LEMMA SymbolsAfterClosing ==
  ASSUME DeskInv, CoinInv, NEW i \in OpenPositions, ClosePosition(i)
  PROVE  /\ OpenSymbols' \subseteq OpenSymbols /\ OnePositionPerCoin'
         /\ DOMAIN positions' = DOMAIN positions
         /\ \A j \in DOMAIN positions : positions'[j].ref = positions[j].ref
<1>1. i \in DOMAIN positions
  BY DEF OpenPositions
<1>2. /\ DOMAIN positions' = DOMAIN positions
      /\ \A j \in DOMAIN positions : positions'[j].ref = positions[j].ref
  BY <1>1, PositionClosed DEF DeskInv
<1>3. OpenPositions' \subseteq OpenPositions
  BY OpenAfterClosing
<1> QED  BY <1>2, <1>3 DEF OpenSymbols, OpenPositions, OnePositionPerCoin, CoinInv

LEMMA SymbolsAfterOpening ==
  ASSUME DeskInv, CoinInv, NEW r \in Ref, OpenPosition(r), r.symbol \notin OpenSymbols
  PROVE  /\ OpenSymbols' = OpenSymbols \cup {r.symbol} /\ OnePositionPerCoin'
         /\ DOMAIN positions' = DOMAIN positions \cup {Len(positions) + 1}
         /\ \A j \in DOMAIN positions : positions'[j] = positions[j]
         /\ positions'[Len(positions) + 1].ref = r
<1>1. /\ DOMAIN positions' = DOMAIN positions \cup {Len(positions) + 1}
      /\ \A j \in DOMAIN positions : positions'[j] = positions[j]
      /\ Len(positions) + 1 \notin DOMAIN positions
      /\ positions'[Len(positions) + 1].ref = r
      /\ positions'[Len(positions) + 1].status = "open"
  BY PositionOpened DEF DeskInv
<1>2. OpenPositions' = OpenPositions \cup {Len(positions) + 1}
  BY <1>1 DEF OpenPositions
<1>3. /\ \A j \in OpenPositions : j \in DOMAIN positions /\ positions'[j] = positions[j]
      /\ \A j \in OpenPositions : positions[j].ref.symbol # r.symbol
  BY <1>1 DEF OpenPositions, OpenSymbols
<1>4. OpenSymbols' = OpenSymbols \cup {r.symbol}
  BY <1>1, <1>2, <1>3 DEF OpenSymbols
<1>5. OnePositionPerCoin'
  BY <1>1, <1>2, <1>3 DEF OnePositionPerCoin, CoinInv
<1> QED  BY <1>1, <1>4, <1>5

LEMMA EntryKeepsCoinInv ==
  ASSUME DeskInv, CoinInv, EntryStep
  PROVE  CoinInv'
<1>0. UNCHANGED <<snipe, guardian>>
  BY DEF EntryStep, EntryScan, EntryPersist, EntryFill, EntryOpen, EntryDone, EntryBlocked,
         EntryGate, EntryOnly
<1>9. ASSUME UNCHANGED <<orders, positions>>  PROVE  OnePositionPerCoin' /\ HistoryInv'
  BY <1>0, <1>9, SymbolsKept, HistoryStays DEF CoinInv, HistoryInv
<1>1. CASE EntryScan
  <2>1. PICK C \in (SUBSET (Profiles \X Symbols)) \ {{}} :
          /\ \A c \in C : c[2] \notin OpenSymbols
          /\ \A c, d \in C : c[2] = d[2] => c = d
          /\ entry' = [IdleEntry EXCEPT !.pc = "loop", !.day = Day(hour), !.cands = C]
    BY <1>1 DEF EntryScan
  <2>2. entry'.cands = C /\ entry'.pc = "loop"
    BY <2>1 DEF IdleEntry
  <2>3. OpenSymbols' = OpenSymbols
    BY <1>1, SymbolsKept DEF EntryScan
  <2>4. CandsInv'
    BY <2>1, <2>2, <2>3 DEF CandsInv
  <2> QED  BY <1>1, <1>9, <2>4 DEF EntryScan, CoinInv
<1>2. CASE \E c \in entry.cands : EntryBlocked(c)
  <2>1. entry'.cands \subseteq entry.cands /\ entry'.pc = "loop" /\ UNCHANGED <<orders, positions>>
    BY <1>2 DEF EntryBlocked, DeskInv, DeskTypes, EntryRun
  <2> QED  BY <1>9, <2>1, SymbolsKept, CandsShrink DEF CoinInv
<1>3. CASE \E c \in entry.cands : EntryGate(c)
  <2>1. PICK c \in entry.cands : EntryGate(c)
    BY <1>3
  <2>2. entry'.cands = entry.cands \ {c} /\ entry'.ref = EntryRef(c)
    BY <2>1 DEF EntryGate, DeskInv, DeskTypes, EntryRun
  <2>3. EntryRef(c).symbol = c[2]
    BY EntryRefType
  <2>4. OpenSymbols' = OpenSymbols
    BY <2>1, SymbolsKept DEF EntryGate
  <2>5. CandsInv'
    BY <2>2, <2>3, <2>4 DEF CoinInv, CandsInv
  <2> QED  BY <1>9, <2>1, <2>5 DEF EntryGate, CoinInv
<1>4. CASE EntryPersist \/ EntryFill
  <2>0. UNCHANGED positions /\ entry.ref.strategy \in Profiles
    BY <1>4 DEF EntryPersist, EntryFill, DeskInv, EntryInv
  <2>1. CASE UNCHANGED orders /\ entry' = IdleEntry
    BY <1>9, <2>0, <2>1, SymbolsKept, CandsShrink DEF CoinInv, IdleEntry
  <2>2. CASE /\ SetStatus(entry.ref, "pending_submit") \/ SetStatus(entry.ref, "filled")
             /\ entry'.cands = entry.cands /\ entry'.ref = entry.ref
    <3>1. ~IsSnipeBuy(entry.ref)
      BY <2>0, DeskAssumption DEF IsSnipeBuy, IsSnipe
    <3>2. HistoryInv'
      BY <1>0, <2>0, <2>2, <3>1, HistoryGrows DEF CoinInv, HistoryInv
    <3>3. CandsInv'
      BY <1>4, <2>0, <2>2, SymbolsKept, CandsShrink DEF EntryPersist, EntryFill
    <3> QED  BY <2>0, <3>2, <3>3, SymbolsKept DEF CoinInv
  <2>3. entry \in EntryRun
    BY DEF DeskInv, DeskTypes
  <2> QED  BY <1>4, <2>1, <2>2, <2>3 DEF EntryPersist, EntryFill, EntryRun
<1>5. CASE EntryOpen
  <2>1. /\ entry.ref \in Ref /\ entry.ref.strategy \in Profiles /\ OpenPosition(entry.ref)
        /\ entry.ref.symbol \in Symbols
        /\ entry.ref.symbol \notin OpenSymbols /\ UNCHANGED orders
    BY <1>5 DEF EntryOpen, DeskInv, EntryInv, CoinInv, CandsInv
  <2>2. /\ OpenSymbols' = OpenSymbols \cup {entry.ref.symbol} /\ OnePositionPerCoin'
        /\ DOMAIN positions' = DOMAIN positions \cup {Len(positions) + 1}
        /\ \A j \in DOMAIN positions : positions'[j] = positions[j]
        /\ positions'[Len(positions) + 1].ref = entry.ref
    BY <2>1, SymbolsAfterOpening
  <2>3. entry'.cands = entry.cands /\ entry'.pc = "loop"
    BY <1>5 DEF EntryOpen, DeskInv, DeskTypes, EntryRun
  <2>4. CandsInv'
    BY <1>5, <2>2, <2>3 DEF CoinInv, CandsInv, EntryOpen
  <2>5. HistoryInv'
    <3>1. \A j \in DOMAIN positions' :
            Own(j)' => \E r \in DOMAIN orders' : IsSnipe(r) /\ r.symbol = positions'[j].ref.symbol
      BY <2>1, <2>2, DeskAssumption DEF CoinInv, HistoryInv, Own
    <3>2. snipe.pc = "bought" => snipe.ref.symbol \notin OpenSymbols'
      BY <2>1, <2>2, DeskAssumption DEF CoinInv, HistoryInv, DeskInv, SnipeInv
    <3> QED  BY <1>0, <2>1, <3>1, <3>2 DEF CoinInv, HistoryInv, Recorded
  <2> QED  BY <2>2, <2>4, <2>5 DEF CoinInv
<1>6. CASE EntryDone
  BY <1>6, <1>9, SymbolsKept, CandsShrink DEF EntryDone, CoinInv, IdleEntry
<1> QED  BY <1>1, <1>2, <1>3, <1>4, <1>5, <1>6 DEF EntryStep

LEMMA GuardianKeepsCoinInv ==
  ASSUME DeskInv, CoinInv, GuardianStep
  PROVE  CoinInv'
<1>0. UNCHANGED <<entry, snipe>> /\ guardian \in GuardianRun
  BY DEF GuardianStep, GuardianStart, GuardianPersist, GuardianFill, GuardianClose,
         GuardianEvaluate, GuardianRecord, GuardianKill, GuardianExit, GuardianOnly,
         DeskInv, DeskTypes
<1>9. ASSUME UNCHANGED <<orders, positions>>,
             guardian'.pc \in {"persist", "fill"} => guardian'.ref.intent # "entry"
      PROVE  CoinInv'
  BY <1>0, <1>9, SymbolsKept, HistoryStays, CandsShrink DEF CoinInv
<1>1. CASE \E i \in guardian.todo, reason \in ExitReasons : GuardianExit(i, reason)
  <2>1. PICK i \in guardian.todo, reason \in ExitReasons : GuardianExit(i, reason)
    BY <1>1
  <2>2. guardian'.ref.intent = reason /\ reason # "entry"
    BY <1>0, <2>1, DeskAssumption DEF GuardianExit, GuardianRun, OrderRef
  <2> QED  BY <1>9, <2>1, <2>2 DEF GuardianExit
<1>2. CASE GuardianPersist \/ GuardianFill
  <2>0. UNCHANGED positions /\ guardian.ref.intent # "entry"
    BY <1>2 DEF GuardianPersist, GuardianFill, CoinInv, HistoryInv
  <2>1. CASE UNCHANGED orders /\ guardian' = IdleGuardian
    BY <1>9, <2>0, <2>1 DEF IdleGuardian
  <2>2. CASE /\ SetStatus(guardian.ref, "pending_submit") \/ SetStatus(guardian.ref, "filled")
             /\ guardian'.ref = guardian.ref
    <3>1. ~IsSnipeBuy(guardian.ref)
      BY <2>0 DEF IsSnipeBuy
    <3>2. HistoryInv'
      BY <1>0, <2>0, <2>2, <3>1, HistoryGrows
    <3> QED  BY <1>0, <2>0, <3>2, SymbolsKept, CandsShrink DEF CoinInv
  <2> QED  BY <1>0, <1>2, <2>1, <2>2 DEF GuardianPersist, GuardianFill, GuardianRun
<1>3. CASE GuardianClose
  <2>1. /\ guardian.pos \in OpenPositions /\ ClosePosition(guardian.pos) /\ UNCHANGED orders
    BY <1>3 DEF GuardianClose, DeskInv, GuardianInv
  <2>2. guardian'.pc = "loop"
    BY <1>0, <1>3 DEF GuardianClose, GuardianRun
  <2> QED  BY <1>0, <2>1, <2>2, SymbolsAfterClosing, HistoryStays, CandsShrink DEF CoinInv
<1>4. CASE GuardianStart \/ GuardianEvaluate \/ GuardianKill
  <2>1. GuardianStart => guardian'.pc = "loop"
    BY DEF GuardianStart, IdleGuardian
  <2>2. GuardianEvaluate => guardian'.pc = "record"
    BY <1>0 DEF GuardianEvaluate, GuardianRun
  <2>3. GuardianKill => guardian'.pc = "idle"
    BY DEF GuardianKill, IdleGuardian
  <2>4. UNCHANGED <<orders, positions>>
    BY <1>4 DEF GuardianStart, GuardianEvaluate, GuardianKill
  <2> QED  BY <1>4, <1>9, <2>1, <2>2, <2>3, <2>4
<1>5. CASE GuardianRecord
  <2>1. guardian'.pc \in {"record", "kill"}
    BY <1>0, <1>5 DEF GuardianRecord, GuardianRun
  <2> QED  BY <1>5, <1>9, <2>1 DEF GuardianRecord
<1> QED  BY <1>1, <1>2, <1>3, <1>4, <1>5 DEF GuardianStep

LEMMA SnipeKeepsCoinInv ==
  ASSUME DeskInv, CoinInv, SnipeStep
  PROVE  CoinInv'
<1>0. UNCHANGED <<entry, guardian>> /\ snipe \in SnipeRun
  BY DEF SnipeStep, SnipeStart, SnipeBook, SnipeNoTarget, SnipeOpen, SnipeSell, SnipeBuy,
         SnipeOnly, DeskInv, DeskTypes
<1>8. guardian'.pc \in {"persist", "fill"} => guardian'.ref.intent # "entry"
  BY <1>0 DEF CoinInv, HistoryInv
<1>9. ASSUME UNCHANGED <<orders, positions>>, snipe'.pc # "bought"
      PROVE  CoinInv'
  BY <1>0, <1>8, <1>9, SymbolsKept, HistoryStays, CandsShrink DEF CoinInv
<1>1. CASE SnipeStart \/ SnipeNoTarget
  <2>1. SnipeStart => snipe'.pc = "close"
    BY DEF SnipeStart, IdleSnipe
  <2>2. SnipeNoTarget => snipe'.pc = "idle"
    BY DEF SnipeNoTarget, IdleSnipe
  <2> QED  BY <1>1, <1>9, <2>1, <2>2 DEF SnipeStart, SnipeNoTarget
<1>2. CASE \E i \in snipe.todo : SnipeSell(i)
  <2>1. PICK i \in snipe.todo : SnipeSell(i)
    BY <1>2
  <2>2. CASE Recorded(SnipeSellRef(i))
    BY <1>9, <2>1, <2>2 DEF SnipeSell, IdleSnipe
  <2>3. CASE ~Recorded(SnipeSellRef(i))
    <3>1. /\ SetStatus(SnipeSellRef(i), "pending_submit") /\ snipe'.pc = "sold"
          /\ UNCHANGED positions
      BY <1>0, <2>1, <2>3 DEF SnipeSell, SnipeRun
    <3>2. ~IsSnipeBuy(SnipeSellRef(i))
      BY DEF IsSnipeBuy, SnipeSellRef, OrderRef
    <3>3. HistoryInv'
      BY <1>8, <3>1, <3>2, HistoryGrows
    <3> QED  BY <1>0, <3>1, <3>3, SymbolsKept, CandsShrink DEF CoinInv
  <2> QED  BY <2>2, <2>3
<1>3. CASE SnipeBook
  <2>1. /\ snipe.pos \in OpenPositions /\ ClosePosition(snipe.pos)
        /\ SetStatus(snipe.ref, "filled") /\ Recorded(snipe.ref)
    BY <1>3 DEF SnipeBook, DeskInv, SnipeInv
  <2>2. snipe'.pc = "close"
    BY <1>0, <1>3 DEF SnipeBook, SnipeRun
  <2>3. /\ OpenSymbols' \subseteq OpenSymbols /\ OnePositionPerCoin'
        /\ DOMAIN positions' = DOMAIN positions
        /\ \A j \in DOMAIN positions : positions'[j].ref = positions[j].ref
    BY <2>1, SymbolsAfterClosing
  <2>4. DOMAIN orders' = DOMAIN orders
    BY <2>1 DEF SetStatus, Recorded
  <2>5. HistoryInv'
    <3>1. \A i \in DOMAIN positions : Own(i)' = Own(i)
      BY <2>3 DEF Own
    <3> QED  BY <1>8, <2>2, <2>3, <2>4, <3>1 DEF CoinInv, HistoryInv
  <2> QED  BY <1>0, <2>3, <2>5, CandsShrink DEF CoinInv
<1>4. CASE \E t \in Tickers : SnipeBuy(t)
  <2>1. PICK t \in Tickers : SnipeBuy(t)
    BY <1>4
  <2> DEFINE r == OrderRef(Snipe, t, HourStamp(snipe.hour), "entry")
  <2>2. /\ IsSnipeBuy(r) /\ IsSnipe(r) /\ r.symbol = t
    BY DEF OrderRef, IsSnipeBuy, IsSnipe
  <2>3. /\ SetStatus(r, "pending_submit") /\ snipe' = [snipe EXCEPT !.pc = "bought", !.ref = r]
        /\ UNCHANGED positions /\ NeverSniped(t)
    BY <2>1 DEF SnipeBuy
  <2> HIDE DEF r
  <2>4. snipe'.ref = r
    BY <1>0, <2>3 DEF SnipeRun
  <2>5. DOMAIN orders' = DOMAIN orders \cup {r}
    BY <2>3 DEF SetStatus
  <2>6. OpenSymbols' = OpenSymbols /\ \A i \in DOMAIN positions : Own(i)' = Own(i)
    BY <2>3, SymbolsKept DEF Own
  <2>7. t \notin OpenSymbols
    <3> SUFFICES ASSUME NEW i \in OpenPositions, positions[i].ref.symbol = t
                 PROVE  FALSE
      BY DEF OpenSymbols
    <3>1. i \in DOMAIN positions /\ Own(i)
      BY DeskAssumption DEF OpenPositions, DeskInv, HomeInv
    <3> QED  BY <2>3, <3>1 DEF CoinInv, HistoryInv, NeverSniped, IsSnipe
  <2>8. \A q, s \in DOMAIN orders' :
          IsSnipeBuy(q) /\ IsSnipeBuy(s) /\ q.symbol = s.symbol => q = s
    BY <2>2, <2>3, <2>5 DEF CoinInv, HistoryInv, NeverSniped, IsSnipeBuy, IsSnipe
  <2>9. HistoryInv'
    BY <1>8, <2>2, <2>3, <2>4, <2>5, <2>6, <2>7, <2>8 DEF CoinInv, HistoryInv, Recorded
  <2> QED  BY <1>0, <2>3, <2>9, SymbolsKept, CandsShrink DEF CoinInv
<1>5. CASE SnipeOpen
  <2>1. /\ snipe.ref \in Ref /\ IsSnipe(snipe.ref) /\ OpenPosition(snipe.ref)
        /\ snipe.ref.symbol \in Tickers /\ snipe.ref.symbol \notin OpenSymbols
        /\ Recorded(snipe.ref) /\ SetStatus(snipe.ref, "filled") /\ snipe' = IdleSnipe
    BY <1>5 DEF SnipeOpen, DeskInv, SnipeInv, CoinInv, HistoryInv, IsSnipe
  <2>2. /\ OpenSymbols' = OpenSymbols \cup {snipe.ref.symbol} /\ OnePositionPerCoin'
        /\ DOMAIN positions' = DOMAIN positions \cup {Len(positions) + 1}
        /\ \A j \in DOMAIN positions : positions'[j] = positions[j]
        /\ positions'[Len(positions) + 1].ref = snipe.ref
    BY <2>1, SymbolsAfterOpening
  <2>3. DOMAIN orders' = DOMAIN orders /\ snipe'.pc = "idle"
    BY <2>1 DEF SetStatus, Recorded, IdleSnipe
  <2>4. \A j \in DOMAIN positions' :
          Own(j)' => \E r \in DOMAIN orders' : IsSnipe(r) /\ r.symbol = positions'[j].ref.symbol
    BY <2>1, <2>2, <2>3 DEF CoinInv, HistoryInv, Own, Recorded
  <2>5. HistoryInv'
    BY <1>8, <2>3, <2>4 DEF CoinInv, HistoryInv
  <2>6. CandsInv'
    <3>1. /\ \A c \in entry.cands : c[2] \in Symbols
          /\ entry.pc \in {"persist", "fill", "open"} => entry.ref.symbol \in Symbols
      BY DEF DeskInv, DeskTypes, EntryRun, EntryInv
    <3> QED  BY <1>0, <2>1, <2>2, <3>1, DeskAssumption DEF CoinInv, CandsInv
  <2> QED  BY <2>2, <2>5, <2>6 DEF CoinInv
<1> QED  BY <1>1, <1>2, <1>3, <1>4, <1>5 DEF SnipeStep

LEMMA OthersKeepCoinInv ==
  ASSUME DeskInv, CoinInv, HumanRestart \/ NextHour \/ Crash \/ UNCHANGED vars
  PROVE  CoinInv'
<1>1. /\ UNCHANGED <<orders, positions>>
      /\ entry' \in {entry, IdleEntry} /\ guardian' \in {guardian, IdleGuardian}
      /\ snipe' \in {snipe, IdleSnipe}
  BY DEF HumanRestart, NextHour, Crash, vars
<1>2. guardian'.pc \in {"persist", "fill"} => guardian'.ref.intent # "entry"
  BY <1>1 DEF IdleGuardian, CoinInv, HistoryInv
<1>3. snipe' = snipe \/ snipe'.pc # "bought"
  BY <1>1 DEF IdleSnipe
<1>4. CandsInv'
  BY <1>1, SymbolsKept, CandsShrink DEF IdleEntry
<1> QED  BY <1>1, <1>2, <1>3, <1>4, SymbolsKept, HistoryStays DEF CoinInv

LEMMA CoinInvariant == Spec => []CoinInv
<1>1. Init => CoinInv
  <2> SUFFICES ASSUME Init  PROVE  CoinInv
    OBVIOUS
  <2>1. orders = <<>> /\ positions = <<>>
    BY DEF Init
  <2>2. DOMAIN positions = {} /\ DOMAIN orders = {}
    BY <2>1
  <2> QED  BY <2>2 DEF Init, CoinInv, OnePositionPerCoin, CandsInv, HistoryInv, OpenPositions,
                       IdleEntry, IdleGuardian, IdleSnipe
<1>2. DeskInv /\ CoinInv /\ [Next]_vars => CoinInv'
  BY EntryKeepsCoinInv, GuardianKeepsCoinInv, SnipeKeepsCoinInv, OthersKeepCoinInv DEF Next
<1> QED  BY <1>1, <1>2, DeskInvariant, PTL DEF Spec

\* Whatever families run on the universe, no coin is held by two of them.
THEOREM CoinHeldOnce == Spec => []OnePositionPerCoin
<1>1. CoinInv => OnePositionPerCoin
  BY DEF CoinInv
<1> QED  BY <1>1, CoinInvariant, PTL

\* The order history is the dedupe: it survives every death of a run.
THEOREM CoinSnipedOnce == Spec => []SnipedOnce
<1>1. CoinInv => SnipedOnce
  <2> SUFFICES ASSUME CoinInv, NEW t \in Tickers
               PROVE  Cardinality({r \in DOMAIN orders : /\ r.strategy = Snipe /\ r.symbol = t
                                                          /\ r.intent = "entry"}) <= 1
    BY DEF SnipedOnce
  <2> DEFINE S == {r \in DOMAIN orders : /\ r.strategy = Snipe /\ r.symbol = t
                                         /\ r.intent = "entry"}
  <2>1. \A q, r \in S : q = r
    BY DEF CoinInv, HistoryInv, IsSnipeBuy, IsSnipe
  <2>2. CASE S = {}
    BY <2>2, FS_EmptySet
  <2>3. CASE S # {}
    <3>1. PICK q : q \in S
      BY <2>3
    <3>2. S = {q}
      BY <2>1, <3>1
    <3>3. Cardinality({q}) = 1
      BY FS_Singleton
    <3> QED  BY <3>2, <3>3
  <2> QED  BY <2>2, <2>3
<1> QED  BY <1>1, CoinInvariant, PTL

-----------------------------------------------------------------------------
(* The circuit breakers, for every set of loss rules and every interleaving *)
(* of the guardian with entries, sales and a human: what is read from the   *)
(* event log is what the rules say, and it moves as BreakerPromise allows.  *)

-----------------------------------------------------------------------------
(* The state read from the log.                                             *)

RowsOfType(t) == {k \in DOMAIN events : events[k].type = t}

LEMMA LatestRow ==
  ASSUME events \in Seq(Event), NEW t, RowsOfType(t) # {}
  PROVE  /\ Max(RowsOfType(t)) \in RowsOfType(t)
         /\ \A k \in RowsOfType(t) : k <= Max(RowsOfType(t))
         /\ LastAction(t) = events[Max(RowsOfType(t))].action
<1>1. /\ RowsOfType(t) \subseteq Nat /\ Len(events) \in Nat
      /\ \A k \in RowsOfType(t) : k <= Len(events)
  BY DEF RowsOfType
<1>2. /\ Max(RowsOfType(t)) \in RowsOfType(t)
      /\ \A k \in RowsOfType(t) : k <= Max(RowsOfType(t))
  BY <1>1, MaxOf
<1>3. LastAction(t) = events[Max(RowsOfType(t))].action
  BY DEF LastAction, RowsOfType
<1> QED  BY <1>2, <1>3

\* An appended row is the latest of its type and no other's.
LEMMA LastAfterAppend ==
  ASSUME events \in Seq(Event), NEW t \in BreakerTypes,
         NEW a \in {"trip", "reset", "manual_restart"}, NEW n \in Nat, AppendEvent(t, a, n)
  PROVE  /\ LastAction(t)' = a
         /\ \A u : u # t => LastAction(u)' = LastAction(u)
<1>1. /\ events' \in Seq(Event) /\ Len(events) \in Nat /\ Len(events') = Len(events) + 1
      /\ DOMAIN events = 1..Len(events) /\ DOMAIN events' = 1..(Len(events) + 1)
      /\ \A k \in DOMAIN events : events'[k] = events[k]
      /\ events'[Len(events) + 1] = [type |-> t, action |-> a, seen |-> n]
  BY EventAppended
<1>2. RowsOfType(t)' = RowsOfType(t) \cup {Len(events) + 1}
  BY <1>1 DEF RowsOfType
<1>3. LastAction(t)' = a
  <2>1. /\ Max(RowsOfType(t)') \in RowsOfType(t)'
        /\ \A k \in RowsOfType(t)' : k <= Max(RowsOfType(t)')
    <3>1. RowsOfType(t)' \subseteq Nat /\ RowsOfType(t)' # {}
      BY <1>1, <1>2 DEF RowsOfType
    <3>2. \A k \in RowsOfType(t)' : k <= Len(events) + 1
      BY <1>1, <1>2 DEF RowsOfType
    <3>3. Len(events) + 1 \in Nat
      BY <1>1
    <3> QED  BY <3>1, <3>2, <3>3, MaxOf
  <2>2. Max(RowsOfType(t)') = Len(events) + 1
    <3> DEFINE m == Max(RowsOfType(t)')
    <3>1. m \in 1..(Len(events) + 1)
      BY <1>1, <2>1 DEF RowsOfType
    <3>2. Len(events) + 1 <= m
      BY <1>2, <2>1
    <3> HIDE DEF m
    <3>3. m = Len(events) + 1
      BY <1>1, <3>1, <3>2
    <3> QED  BY <3>3 DEF m
  <2>3. LastAction(t)' = events'[Max(RowsOfType(t)')].action
    BY <1>2 DEF LastAction, RowsOfType
  <2> QED  BY <1>1, <2>2, <2>3
<1>4. ASSUME NEW u, u # t
      PROVE  LastAction(u)' = LastAction(u)
  <2>1. RowsOfType(u)' = RowsOfType(u)
    BY <1>1, <1>4 DEF RowsOfType
  <2>2. CASE RowsOfType(u) = {}
    BY <2>1, <2>2 DEF LastAction, RowsOfType
  <2>3. CASE RowsOfType(u) # {}
    <3>1. Max(RowsOfType(u)) \in DOMAIN events
      BY <2>3, LatestRow DEF RowsOfType
    <3>2. LastAction(u)' = events'[Max(RowsOfType(u))].action
      BY <2>1, <2>3 DEF LastAction, RowsOfType
    <3> QED  BY <1>1, <2>3, <3>1, <3>2, LatestRow
  <2> QED  BY <2>2, <2>3
<1> QED  BY <1>3, <1>4

LEMMA LastUnchanged ==
  ASSUME UNCHANGED events
  PROVE  /\ \A t : LastAction(t)' = LastAction(t) /\ Tripped(t)' = Tripped(t)
         /\ AnyTripped' = AnyTripped
BY DEF LastAction, Tripped, AnyTripped

\* Who writes the log: the guardian a row that was due, a human a restart.
LEMMA LogWriters ==
  ASSUME DeskInv, [Next]_vars
  PROVE  \/ UNCHANGED events
         \/ \E t \in BreakerTypes :
              /\ guardian.pc = "record" /\ guardian.rows[t] \in {"trip", "reset"}
              /\ AppendEvent(t, guardian.rows[t], guardian.seen)
              /\ guardian' = [guardian EXCEPT !.rows[t] = "none"]
              /\ UNCHANGED <<trades, entry>>
         \/ /\ AppendEvent("drawdown", "manual_restart", Len(trades))
            /\ UNCHANGED <<guardian, trades, entry>>
<1>1. EntryStep => UNCHANGED events
  BY DEF EntryStep, EntryScan, EntryPersist, EntryFill, EntryOpen, EntryDone, EntryBlocked,
         EntryGate, EntryOnly
<1>2. SnipeStep => UNCHANGED events
  BY DEF SnipeStep, SnipeStart, SnipeBook, SnipeNoTarget, SnipeOpen, SnipeSell, SnipeBuy,
         SnipeOnly
<1>3. NextHour \/ Crash \/ UNCHANGED vars => UNCHANGED events
  BY DEF NextHour, Crash, vars
<1>4. GuardianStep /\ ~GuardianRecord => UNCHANGED events
  BY DEF GuardianStep, GuardianStart, GuardianPersist, GuardianFill, GuardianClose,
         GuardianEvaluate, GuardianKill, GuardianExit
<1>5. CASE GuardianRecord
  <2> DEFINE L == {t \in BreakerTypes : guardian.rows[t] # "none"}
  <2>1. CASE L = {}
    BY <1>5, <2>1 DEF GuardianRecord
  <2>2. CASE L # {}
    <3>1. PICK t \in L : /\ AppendEvent(t, guardian.rows[t], guardian.seen)
                         /\ guardian' = [guardian EXCEPT !.rows[t] = "none"]
      BY <1>5, <2>2, RowWritten
    <3>2. t \in BreakerTypes /\ guardian.rows[t] \in {"trip", "reset"}
      BY DEF DeskInv, DeskTypes, GuardianRun, NoneOrAction
    <3> QED  BY <1>5, <3>1, <3>2 DEF GuardianRecord, GuardianOnly
  <2> QED  BY <2>1, <2>2
<1>6. HumanRestart => /\ AppendEvent("drawdown", "manual_restart", Len(trades))
                      /\ UNCHANGED <<guardian, trades, entry>>
  BY DEF HumanRestart, ClearManualRestart
<1> QED  BY <1>1, <1>2, <1>3, <1>4, <1>5, <1>6 DEF Next

-----------------------------------------------------------------------------
(* The entry gate.                                                          *)

GateInv ==
  /\ entry.pc \in {"persist", "fill", "open"} => entry.asked <= Len(events)
  /\ OnlyEntriesBeforeTheTrip

\* An entry under way was let through at its gate; while it is under way the
\* log only grows.
LEMMA EntryUnderWay ==
  ASSUME DeskInv, [Next]_vars, entry'.pc \in {"persist", "fill", "open"}
  PROVE  \/ /\ entry.pc \in {"persist", "fill", "open"} /\ entry'.asked = entry.asked
         \/ /\ entry'.asked = Len(events) /\ UNCHANGED events /\ ~AnyTripped
<1>0. entry \in EntryRun
  BY DEF DeskInv, DeskTypes
<1>1. CASE EntryStep
  <2>1. EntryScan => entry'.pc = "loop"
    BY DEF EntryScan, IdleEntry
  <2>2. EntryDone => entry'.pc = "idle"
    BY DEF EntryDone, IdleEntry
  <2>3. EntryOpen => entry'.pc = "loop"
    BY <1>0 DEF EntryOpen, EntryRun
  <2>4. (\E c \in entry.cands : EntryBlocked(c)) => entry'.pc = "loop"
    BY <1>0 DEF EntryBlocked, EntryRun
  <2>5. (\E c \in entry.cands : EntryGate(c)) =>
          entry'.asked = Len(events) /\ UNCHANGED events /\ ~AnyTripped
    BY <1>0 DEF EntryGate, EntryOnly, EntryRun
  <2>6. EntryFill => entry.pc = "fill" /\ entry'.asked = entry.asked
    BY <1>0 DEF EntryFill, EntryRun
  <2>7. EntryPersist /\ ~Recorded(entry.ref) => entry.pc = "persist" /\ entry'.asked = entry.asked
    BY <1>0 DEF EntryPersist, EntryRun
  <2>8. EntryPersist /\ Recorded(entry.ref) => entry'.pc = "idle"
    BY DEF EntryPersist, IdleEntry
  <2> QED  BY <1>1, <2>1, <2>2, <2>3, <2>4, <2>5, <2>6, <2>7, <2>8 DEF EntryStep
<1>2. CASE GuardianStep
  BY <1>2 DEF GuardianStep, GuardianStart, GuardianPersist, GuardianFill, GuardianClose,
         GuardianEvaluate, GuardianRecord, GuardianKill, GuardianExit, GuardianOnly
<1>3. CASE SnipeStep
  BY <1>3 DEF SnipeStep, SnipeStart, SnipeBook, SnipeNoTarget, SnipeOpen, SnipeSell, SnipeBuy,
         SnipeOnly
<1>4. CASE HumanRestart \/ NextHour \/ Crash \/ UNCHANGED vars
  BY <1>4 DEF HumanRestart, NextHour, Crash, vars, IdleEntry
<1> QED  BY <1>1, <1>2, <1>3, <1>4 DEF Next

\* What an entry misses is only what tripped after its gate, for every number
\* of breakers tripping, clearing and tripping again meanwhile.
THEOREM EntriesAskFirst == Spec => []OnlyEntriesBeforeTheTrip
<1>1. Init => GateInv
  BY DEF Init, IdleEntry, GateInv, OnlyEntriesBeforeTheTrip
<1>2. DeskInv /\ GateInv /\ [Next]_vars => GateInv'
  <2> SUFFICES ASSUME DeskInv, GateInv, [Next]_vars,
                      entry'.pc \in {"persist", "fill", "open"}
               PROVE  /\ entry'.asked <= Len(events')
                      /\ \A t \in BreakerTypes : Tripped(t)' =>
                           \E k \in DOMAIN events' : k > entry'.asked /\ events'[k].type = t
    BY DEF GateInv, OnlyEntriesBeforeTheTrip
  <2>0. /\ events \in Seq(Event) /\ Len(events) \in Nat /\ entry.asked \in Nat
        /\ Len(trades) \in Nat /\ guardian.seen \in Nat
    BY DEF DeskInv, DeskTypes, EntryRun, GuardianRun
  <2>1. CASE entry'.asked = Len(events) /\ UNCHANGED events /\ ~AnyTripped
    BY <2>0, <2>1, LastUnchanged DEF AnyTripped
  <2>2. CASE /\ entry.pc \in {"persist", "fill", "open"} /\ entry'.asked = entry.asked
             /\ UNCHANGED events
    BY <2>2, LastUnchanged DEF GateInv, OnlyEntriesBeforeTheTrip
  <2>3. CASE /\ entry.pc \in {"persist", "fill", "open"} /\ entry'.asked = entry.asked
             /\ \E t \in BreakerTypes, a \in {"trip", "reset", "manual_restart"}, n \in Nat :
                  AppendEvent(t, a, n)
    <3>1. PICK t \in BreakerTypes, a \in {"trip", "reset", "manual_restart"}, n \in Nat :
            AppendEvent(t, a, n)
      BY <2>3
    <3>2. /\ LastAction(t)' = a /\ \A u : u # t => LastAction(u)' = LastAction(u)
      BY <2>0, <3>1, LastAfterAppend
    <3>3. /\ Len(events') = Len(events) + 1 /\ DOMAIN events' = 1..(Len(events) + 1)
          /\ DOMAIN events = 1..Len(events)
          /\ \A k \in DOMAIN events : events'[k] = events[k]
          /\ events'[Len(events) + 1].type = t
      <4>1. /\ events' \in Seq(Event) /\ Len(events') = Len(events) + 1
            /\ \A k \in DOMAIN events : events'[k] = events[k]
            /\ events'[Len(events')] = [type |-> t, action |-> a, seen |-> n]
        BY <2>0, <3>1, EventAppended
      <4> QED  BY <2>0, <4>1
    <3>4. entry.asked <= Len(events)
      BY <2>3 DEF GateInv
    <3>5. ASSUME NEW u \in BreakerTypes, Tripped(u)'
          PROVE  \E k \in DOMAIN events' : k > entry'.asked /\ events'[k].type = u
      <4>1. CASE u = t
        BY <2>0, <2>3, <3>3, <3>4, <4>1
      <4>2. CASE u # t
        <5>1. Tripped(u)
          BY <3>2, <3>5, <4>2 DEF Tripped
        <5>2. PICK k \in DOMAIN events : k > entry.asked /\ events[k].type = u
          BY <2>3, <5>1 DEF GateInv, OnlyEntriesBeforeTheTrip
        <5> QED  BY <2>0, <2>3, <3>3, <5>2
      <4> QED  BY <4>1, <4>2
    <3> QED  BY <2>0, <2>3, <3>3, <3>4, <3>5
  <2>4. "drawdown" \in BreakerTypes
    BY DEF BreakerTypes
  <2> QED  BY <2>0, <2>1, <2>2, <2>3, <2>4, LogWriters, EntryUnderWay
<1> QED  BY <1>1, <1>2, DeskInvariant, PTL DEF Spec, GateInv

-----------------------------------------------------------------------------
(* The book and the log.                                                    *)

\* What a tick that had read n trades knew, and what the rules say of it.
Book(n)    == SubSeq(PnlsOf(trades), 1, n)
Due(t, n)  == Breached(Book(n))[t]

LEMMA PnlsType ==
  ASSUME NEW T \in Seq([pos : Nat, pnl : Int])
  PROVE  PnlsOf(T) \in Seq(Int) /\ Len(PnlsOf(T)) = Len(T)
<1> DEFINE R == [pos : Nat, pnl : Int]
<1>1. /\ \A k \in DOMAIN T : T[k] \in R
      /\ Len(T) \in Nat /\ DOMAIN T = 1..Len(T)
  <2> HIDE DEF R
  <2>1. T \in Seq(R)
    BY DEF R
  <2> QED  BY <2>1
<1>2. \A k \in DOMAIN T : T[k].pnl \in Int
  BY <1>1
<1>3. PnlsOf(T) \in [1..Len(T) -> Int]
  BY <1>1, <1>2 DEF PnlsOf
<1>4. PnlsOf(T) \in Seq(Int)
  BY <1>1, <1>3, SeqDef
<1>5. Len(PnlsOf(T)) = Len(T)
  BY <1>1, <1>3, <1>4, LenProperties
<1> QED  BY <1>4, <1>5

LEMMA WholeBook ==
  ASSUME DeskInv
  PROVE  Book(Len(trades)) = PnlsOf(trades)
<1>1. PnlsOf(trades) \in Seq(Int) /\ Len(PnlsOf(trades)) = Len(trades)
  BY PnlsType DEF DeskInv, DeskTypes
<1> QED  BY <1>1 DEF Book

\* Trades are only added.
LEMMA BookKept ==
  ASSUME DeskInv, DeskInv', Len(trades) <= Len(trades'),
         \A k \in DOMAIN trades : trades'[k] = trades[k],
         NEW n \in Nat, n <= Len(trades)
  PROVE  Book(n)' = Book(n) /\ \A t : Due(t, n)' = Due(t, n)
<1>1. /\ PnlsOf(trades) \in Seq(Int) /\ Len(PnlsOf(trades)) = Len(trades)
      /\ PnlsOf(trades') \in Seq(Int) /\ Len(PnlsOf(trades')) = Len(trades')
  BY PnlsType DEF DeskInv, DeskTypes
<1>2. /\ Len(trades) \in Nat /\ Len(trades') \in Nat
      /\ DOMAIN trades = 1..Len(trades) /\ DOMAIN trades' = 1..Len(trades')
  BY DEF DeskInv, DeskTypes
<1>3. \A k \in 1..n : PnlsOf(trades')[k] = PnlsOf(trades)[k]
  BY <1>2 DEF PnlsOf
<1>4. Book(n)' = Book(n)
  <2>1. Book(n) = [k \in 1..n |-> PnlsOf(trades)[k]]
    BY <1>1, <1>2 DEF Book
  <2>2. Book(n)' = [k \in 1..n |-> PnlsOf(trades')[k]]
    BY <1>1, <1>2 DEF Book
  <2> QED  BY <1>3, <2>1, <2>2
<1> QED  BY <1>4 DEF Due

LEMMA TradesGrow ==
  ASSUME DeskInv, [Next]_vars
  PROVE  /\ Len(trades) \in Nat /\ Len(trades) <= Len(trades')
         /\ \A k \in DOMAIN trades : trades'[k] = trades[k]
<1>0. Len(trades) \in Nat
  BY DEF DeskInv, DeskTypes
<1>1. UNCHANGED trades \/ \E i \in DOMAIN positions : ClosePosition(i)
  <2>1. EntryStep => UNCHANGED trades
    BY DEF EntryStep, EntryScan, EntryPersist, EntryFill, EntryOpen, EntryDone, EntryBlocked,
           EntryGate, EntryOnly
  <2>2. GuardianStep /\ ~GuardianClose => UNCHANGED trades
    BY DEF GuardianStep, GuardianStart, GuardianPersist, GuardianFill,
           GuardianEvaluate, GuardianRecord, GuardianKill, GuardianExit
  <2>3. GuardianClose => \E i \in DOMAIN positions : ClosePosition(i)
    BY DEF GuardianClose, DeskInv, GuardianInv, OpenPositions
  <2>4. SnipeStep /\ ~SnipeBook => UNCHANGED trades
    BY DEF SnipeStep, SnipeStart, SnipeNoTarget, SnipeOpen, SnipeSell, SnipeBuy
  <2>5. SnipeBook => \E i \in DOMAIN positions : ClosePosition(i)
    BY DEF SnipeBook, DeskInv, SnipeInv, OpenPositions
  <2>6. HumanRestart \/ NextHour \/ Crash \/ UNCHANGED vars => UNCHANGED trades
    BY DEF HumanRestart, NextHour, Crash, vars
  <2> QED  BY <2>1, <2>2, <2>3, <2>4, <2>5, <2>6 DEF Next
<1>2. CASE UNCHANGED trades
  BY <1>0, <1>2
<1>3. CASE \E i \in DOMAIN positions : ClosePosition(i)
  <2>1. Len(trades') = Len(trades) + 1 /\ \A k \in DOMAIN trades : trades'[k] = trades[k]
    BY <1>3, PositionClosed DEF DeskInv
  <2> QED  BY <1>0, <2>1
<1> QED  BY <1>1, <1>2, <1>3

-----------------------------------------------------------------------------
(* The strengthening: between the evaluation and the last row of a tick,   *)
(* what is due is still due, and a trip in the log was due when it was     *)
(* decided.                                                                 *)

TripsInv ==
  \A k \in DOMAIN events :
    events[k].action = "trip" =>
      events[k].seen <= Len(trades) /\ Due(events[k].type, events[k].seen)

RowInv(t) ==
  /\ guardian.rows[t] = "trip" => ~Tripped(t) /\ Due(t, guardian.seen)
  /\ guardian.rows[t] = "reset" =>
       /\ Tripped(t) /\ t \in AutoBreakers
       /\ \A k \in DOMAIN events : events[k].type = t /\ events[k].action = "trip" =>
            events[k].seen < guardian.seen
       /\ ~Due(t, guardian.seen)
  /\ guardian.rows[t] = "none" =>
       IF t \in AutoBreakers THEN Tripped(t) <=> Due(t, guardian.seen)
       ELSE Due(t, guardian.seen) => LastAction(t) \in {"trip", "manual_restart"}

BreakerInv ==
  /\ TripsInv /\ ResetsNeedATrade
  /\ guardian.pc = "record" => \A t \in BreakerTypes : RowInv(t)
  /\ guardian.pc = "kill" =>
       \A t \in BreakerTypes : guardian.rows[t] = "none" /\ RowInv(t)

LEMMA BreakersAtFirst ==
  ASSUME Init
  PROVE  BreakerInv
<1>1. DOMAIN events = {} /\ guardian.pc = "idle"
  BY DEF Init, IdleGuardian
<1> QED  BY <1>1 DEF BreakerInv, TripsInv, ResetsNeedATrade

\* The log did not move.
LEMMA LogStays ==
  ASSUME DeskInv, DeskInv', BreakerInv, [Next]_vars, UNCHANGED events
  PROVE  TripsInv' /\ ResetsNeedATrade'
<1>1. /\ Len(trades) \in Nat /\ Len(trades) <= Len(trades')
      /\ \A k \in DOMAIN trades : trades'[k] = trades[k]
  BY TradesGrow
<1>2. \A k \in DOMAIN events : events[k].seen \in Nat
  <2>1. events \in Seq(Event)
    BY DEF DeskInv, DeskTypes
  <2>2. \A k \in DOMAIN events : events[k] \in Event
    BY <2>1
  <2> QED  BY <2>2 DEF Event
<1>3. Len(trades') \in Nat
  BY DEF DeskInv, DeskTypes
<1>4. TripsInv'
  <2> SUFFICES ASSUME NEW k \in DOMAIN events, events[k].action = "trip"
               PROVE  events[k].seen <= Len(trades') /\ Due(events[k].type, events[k].seen)'
    BY DEF TripsInv
  <2>1. events[k].seen <= Len(trades) /\ Due(events[k].type, events[k].seen)
    BY DEF BreakerInv, TripsInv
  <2>2. Due(events[k].type, events[k].seen)' = Due(events[k].type, events[k].seen)
    BY <1>1, <1>2, <2>1, BookKept
  <2> QED  BY <1>1, <1>2, <1>3, <2>1, <2>2
<1>5. ResetsNeedATrade'
  BY DEF BreakerInv, ResetsNeedATrade
<1> QED  BY <1>4, <1>5

\* A tick that neither evaluates nor writes keeps what it had found.
LEMMA RowsStay ==
  ASSUME DeskInv, DeskInv', [Next]_vars, UNCHANGED events, NEW t \in BreakerTypes, RowInv(t),
         guardian'.rows = guardian.rows, guardian'.seen = guardian.seen
  PROVE  RowInv(t)'
<1>1. Tripped(t)' = Tripped(t) /\ LastAction(t)' = LastAction(t)
  BY LastUnchanged
<1>2. guardian.seen \in Nat /\ guardian.seen <= Len(trades)
  BY DEF DeskInv, DeskTypes, GuardianRun, GuardianInv
<1>3. Due(t, guardian.seen)' = Due(t, guardian.seen)
  BY <1>2, TradesGrow, BookKept
<1> QED  BY <1>1, <1>3 DEF RowInv

\* What the evaluation finds due, it finds of the whole book; a trip that was
\* decided on the same book would still be due.
LEMMA EvaluationFinds ==
  ASSUME DeskInv, DeskInv', BreakerInv, GuardianEvaluate
  PROVE  /\ guardian'.pc = "record" /\ UNCHANGED events
         /\ \A t \in BreakerTypes : RowInv(t)'
<1> DEFINE n == Len(trades)
           due == Breached(PnlsOf(trades))
           R == [t \in BreakerTypes |-> Transition(t, Tripped(t), due[t])]
<1>1. /\ UNCHANGED <<events, trades>>
      /\ guardian' = [guardian EXCEPT !.pc = "record", !.todo = {}, !.seen = n, !.rows = R]
  BY DEF GuardianEvaluate
<1>2. guardian \in GuardianRun /\ n \in Nat
  BY DEF DeskInv, DeskTypes
<1>3. guardian'.pc = "record" /\ guardian'.seen = n /\ guardian'.rows = R
  <2> HIDE DEF R, n
  <2> QED  BY <1>1, <1>2 DEF GuardianRun
<1>4. \A t : Due(t, n)' = Due(t, n) /\ (Due(t, n) <=> due[t])
  <2>1. Book(n) = PnlsOf(trades)
    BY WholeBook
  <2>2. \A t : Due(t, n)' = Due(t, n)
    BY <1>1, <1>2 DEF Due, Book
  <2> QED  BY <2>1, <2>2 DEF Due
<1>5. ASSUME NEW t \in BreakerTypes
      PROVE  RowInv(t)'
  <2>1. Tripped(t)' = Tripped(t) /\ LastAction(t)' = LastAction(t)
    BY <1>1, LastUnchanged
  <2>2. Due(t, guardian.seen)' <=> due[t]
    BY <1>1, <1>3, <1>4 DEF Due, Book
  <2>3. guardian'.rows[t] = IF ~Tripped(t) /\ due[t] THEN "trip"
                            ELSE IF Tripped(t) /\ ~due[t] /\ t \in AutoBreakers THEN "reset"
                                 ELSE "none"
    BY <1>3 DEF Transition
  <2>4. CASE ~Tripped(t) /\ due[t]
    BY <2>1, <2>2, <2>3, <2>4 DEF RowInv
  <2>5. CASE Tripped(t) /\ ~due[t] /\ t \in AutoBreakers
    <3>1. ASSUME NEW k \in DOMAIN events, events[k].type = t, events[k].action = "trip"
          PROVE  events[k].seen < n
      <4>1. events[k].seen <= n /\ Due(t, events[k].seen)
        BY <3>1 DEF BreakerInv, TripsInv
      <4>2. events[k].seen # n
        BY <1>4, <2>5, <4>1
      <4>3. events[k].seen \in Nat
        <5>1. events \in Seq(Event)
          BY DEF DeskInv, DeskTypes
        <5>2. events[k] \in Event
          BY <5>1
        <5> QED  BY <5>2 DEF Event
      <4> QED  BY <1>2, <4>1, <4>2, <4>3
    <3>2. /\ guardian'.rows[t] = "reset" /\ Tripped(t)' /\ ~Due(t, guardian.seen)'
      BY <2>1, <2>2, <2>3, <2>5
    <3>3. \A k \in DOMAIN events' : events'[k].type = t /\ events'[k].action = "trip" =>
            events'[k].seen < guardian'.seen
      BY <1>1, <1>3, <3>1
    <3> QED  BY <2>5, <3>2, <3>3 DEF RowInv
  <2>6. CASE ~(~Tripped(t) /\ due[t]) /\ ~(Tripped(t) /\ ~due[t] /\ t \in AutoBreakers)
    <3>1. guardian'.rows[t] = "none"
      BY <2>3, <2>6
    <3>2. t \in AutoBreakers => (Tripped(t)' <=> Due(t, guardian.seen)')
      BY <2>1, <2>2, <2>6
    <3>3. Due(t, guardian.seen)' => LastAction(t)' = "trip"
      BY <2>1, <2>2, <2>6 DEF Tripped
    <3> QED  BY <3>1, <3>2, <3>3 DEF RowInv
  <2> QED  BY <2>4, <2>5, <2>6
<1> QED  BY <1>1, <1>3, <1>5

\* A row of the tick is committed.
LEMMA RowCommitted ==
  ASSUME DeskInv, DeskInv', BreakerInv, [Next]_vars, guardian.pc = "record",
         NEW t \in BreakerTypes, guardian.rows[t] \in {"trip", "reset"},
         AppendEvent(t, guardian.rows[t], guardian.seen),
         guardian' = [guardian EXCEPT !.rows[t] = "none"], UNCHANGED trades
  PROVE  BreakerInv'
<1> DEFINE a == guardian.rows[t]
           n == guardian.seen
<1>1. /\ events \in Seq(Event) /\ Len(events) \in Nat /\ n \in Nat /\ n <= Len(trades)
      /\ guardian \in GuardianRun
  BY DEF DeskInv, DeskTypes, GuardianRun, GuardianInv
<1>2. /\ LastAction(t)' = a /\ \A u : u # t => LastAction(u)' = LastAction(u)
  BY <1>1, LastAfterAppend
<1>3. /\ DOMAIN events' = 1..(Len(events) + 1) /\ DOMAIN events = 1..Len(events)
      /\ \A k \in DOMAIN events : events'[k] = events[k]
      /\ events'[Len(events) + 1] = [type |-> t, action |-> a, seen |-> n]
  <2>1. /\ events' \in Seq(Event) /\ Len(events') = Len(events) + 1
        /\ \A k \in DOMAIN events : events'[k] = events[k]
        /\ events'[Len(events')] = [type |-> t, action |-> a, seen |-> n]
    BY <1>1, EventAppended
  <2> QED  BY <1>1, <2>1
<1>4. /\ guardian'.pc = "record" /\ guardian'.seen = n
      /\ guardian'.rows = [guardian.rows EXCEPT ![t] = "none"]
      /\ guardian'.rows[t] = "none"
      /\ \A u \in BreakerTypes : u # t => guardian'.rows[u] = guardian.rows[u]
  BY <1>1 DEF GuardianRun
<1>5. \A u, m : Due(u, m)' = Due(u, m)
  BY DEF Due, Book
<1>6. RowInv(t) /\ \A u \in BreakerTypes : RowInv(u)
  BY DEF BreakerInv
<1>7. TripsInv'
  <2> SUFFICES ASSUME NEW k \in DOMAIN events', events'[k].action = "trip"
               PROVE  events'[k].seen <= Len(trades) /\ Due(events'[k].type, events'[k].seen)
    BY <1>5 DEF TripsInv
  <2>1. CASE k \in DOMAIN events
    BY <1>3, <2>1 DEF BreakerInv, TripsInv
  <2>2. CASE k = Len(events) + 1
    BY <1>1, <1>3, <1>6, <2>2 DEF RowInv
  <2> QED  BY <1>1, <1>3, <2>1, <2>2
<1>8. ResetsNeedATrade'
  <2> SUFFICES ASSUME NEW j \in DOMAIN events', NEW k \in DOMAIN events',
                      j < k, events'[j].type = events'[k].type,
                      events'[j].action = "trip", events'[k].action = "reset"
               PROVE  events'[j].seen < events'[k].seen
    BY DEF ResetsNeedATrade
  <2>1. CASE k \in DOMAIN events
    <3>1. j \in DOMAIN events
      BY <1>1, <1>3, <2>1
    <3> QED  BY <1>3, <2>1, <3>1 DEF BreakerInv, ResetsNeedATrade
  <2>2. CASE k = Len(events) + 1
    <3>1. j \in DOMAIN events /\ events'[j] = events[j]
      BY <1>1, <1>3, <2>2
    <3>2. events'[k].type = t /\ events'[k].action = a /\ events'[k].seen = n
      BY <1>3, <2>2
    <3> QED  BY <1>6, <3>1, <3>2 DEF RowInv
  <2> QED  BY <1>1, <1>3, <2>1, <2>2
<1>9. ASSUME NEW u \in BreakerTypes
      PROVE  RowInv(u)'
  <2>1. Due(u, guardian.seen)' = Due(u, n)
    BY <1>4, <1>5 DEF Due, Book
  <2>2. CASE u = t
    <3>1. t \in AutoBreakers => (Tripped(t)' <=> Due(t, n))
      BY <1>2, <1>6 DEF RowInv, Tripped
    <3>2. t \notin AutoBreakers /\ Due(t, n) => LastAction(t)' = "trip"
      BY <1>2, <1>6 DEF RowInv
    <3> QED  BY <1>4, <2>1, <2>2, <3>1, <3>2 DEF RowInv
  <2>3. CASE u # t
    <3>1. /\ LastAction(u)' = LastAction(u) /\ Tripped(u)' = Tripped(u)
          /\ guardian'.rows[u] = guardian.rows[u]
      BY <1>2, <1>4, <2>3 DEF Tripped
    <3>2. ASSUME NEW k \in DOMAIN events', events'[k].type = u
          PROVE  k \in DOMAIN events /\ events'[k] = events[k]
      BY <1>1, <1>3, <2>3, <3>2
    <3> QED  BY <1>4, <1>6, <2>1, <3>1, <3>2 DEF RowInv
  <2> QED  BY <2>2, <2>3
<1> QED  BY <1>4, <1>7, <1>8, <1>9 DEF BreakerInv

\* A human restarts the drawdown breaker.
LEMMA RestartCommitted ==
  ASSUME DeskInv, DeskInv', BreakerInv, [Next]_vars,
         AppendEvent("drawdown", "manual_restart", Len(trades)), UNCHANGED <<guardian, trades>>
  PROVE  BreakerInv'
<1> DEFINE t == "drawdown"
<1>1. /\ events \in Seq(Event) /\ Len(events) \in Nat /\ Len(trades) \in Nat
      /\ t \in BreakerTypes /\ t \notin AutoBreakers
  BY DEF DeskInv, DeskTypes, BreakerTypes, AutoBreakers
<1>2. /\ LastAction(t)' = "manual_restart" /\ \A u : u # t => LastAction(u)' = LastAction(u)
  BY <1>1, LastAfterAppend
<1>3. /\ DOMAIN events' = 1..(Len(events) + 1) /\ DOMAIN events = 1..Len(events)
      /\ \A k \in DOMAIN events : events'[k] = events[k]
      /\ events'[Len(events) + 1] = [type |-> t, action |-> "manual_restart", seen |-> Len(trades)]
  <2>1. /\ events' \in Seq(Event) /\ Len(events') = Len(events) + 1
        /\ \A k \in DOMAIN events : events'[k] = events[k]
        /\ events'[Len(events')] = [type |-> t, action |-> "manual_restart", seen |-> Len(trades)]
    BY <1>1, EventAppended
  <2> QED  BY <1>1, <2>1
<1>4. \A u, m : Due(u, m)' = Due(u, m)
  BY DEF Due, Book
<1>5. TripsInv' /\ ResetsNeedATrade'
  <2>1. \A k \in DOMAIN events' : events'[k].action # "manual_restart" =>
          k \in DOMAIN events /\ events'[k] = events[k]
    BY <1>1, <1>3
  <2> QED  BY <1>4, <2>1 DEF BreakerInv, TripsInv, ResetsNeedATrade
<1>6. ASSUME NEW u \in BreakerTypes, RowInv(u)
      PROVE  RowInv(u)'
  <2>1. Due(u, guardian.seen)' = Due(u, guardian.seen)
    BY <1>4 DEF Due, Book
  <2>2. CASE u = t
    BY <1>1, <1>2, <1>6, <2>1, <2>2 DEF RowInv, Tripped
  <2>3. CASE u # t
    <3>1. LastAction(u)' = LastAction(u) /\ Tripped(u)' = Tripped(u)
      BY <1>2, <2>3 DEF Tripped
    <3>2. ASSUME NEW k \in DOMAIN events', events'[k].type = u
          PROVE  k \in DOMAIN events /\ events'[k] = events[k]
      BY <1>1, <1>3, <2>3, <3>2
    <3> QED  BY <1>6, <2>1, <3>1, <3>2 DEF RowInv
  <2> QED  BY <2>2, <2>3
<1> QED  BY <1>5, <1>6 DEF BreakerInv

\* The tick leaves its loop only to evaluate, and the evaluation only when
\* every row is written.
LEMMA TickUnderWay ==
  ASSUME DeskInv, [Next]_vars, guardian'.pc \in {"record", "kill"}, UNCHANGED events
  PROVE  \/ GuardianEvaluate
         \/ /\ guardian.pc = guardian'.pc \/ guardian.pc = "record"
            /\ guardian'.rows = guardian.rows /\ guardian'.seen = guardian.seen
            /\ guardian.pc = "record" /\ guardian'.pc = "kill" =>
                 \A t \in BreakerTypes : guardian.rows[t] = "none"
<1>0. guardian \in GuardianRun /\ Len(events) \in Nat
  BY DEF DeskInv, DeskTypes
<1>1. CASE GuardianStep
  <2>1. GuardianStart => guardian'.pc = "loop"
    BY DEF GuardianStart, IdleGuardian
  <2>2. (\E i \in guardian.todo, reason \in ExitReasons : GuardianExit(i, reason)) =>
          guardian'.pc = "persist"
    BY <1>0 DEF GuardianExit, GuardianRun
  <2>3. GuardianPersist => guardian'.pc \in {"idle", "fill"}
    BY <1>0 DEF GuardianPersist, GuardianRun, IdleGuardian
  <2>4. GuardianFill => guardian'.pc = "close"
    BY <1>0 DEF GuardianFill, GuardianRun
  <2>5. GuardianClose => guardian'.pc = "loop"
    BY <1>0 DEF GuardianClose, GuardianRun
  <2>6. GuardianKill => guardian'.pc = "idle"
    BY DEF GuardianKill, IdleGuardian
  <2>7. CASE GuardianRecord
    <3> DEFINE L == {t \in BreakerTypes : guardian.rows[t] # "none"}
    <3>1. L = {}
      <4> SUFFICES ASSUME L # {}  PROVE  FALSE
        OBVIOUS
      <4>1. PICK t \in L : AppendEvent(t, guardian.rows[t], guardian.seen)
        BY <2>7, RowWritten
      <4>2. Len(events') = Len(events) + 1
        <5>1. events \in Seq(Event)
          BY DEF DeskInv, DeskTypes
        <5>2. events' = Append(events, [type |-> t, action |-> guardian.rows[t],
                                        seen |-> guardian.seen])
          BY <4>1 DEF AppendEvent
        <5> QED  BY <5>1, <5>2
      <4> QED  BY <1>0, <4>2
    <3>2. guardian' = [guardian EXCEPT !.pc = "kill"] /\ guardian.pc = "record"
      BY <2>7, <3>1 DEF GuardianRecord
    <3> QED  BY <1>0, <3>1, <3>2 DEF GuardianRun
  <2> QED  BY <1>1, <2>1, <2>2, <2>3, <2>4, <2>5, <2>6, <2>7 DEF GuardianStep
<1>2. CASE EntryStep
  BY <1>2 DEF EntryStep, EntryScan, EntryPersist, EntryFill, EntryOpen, EntryDone, EntryBlocked,
         EntryGate, EntryOnly
<1>3. CASE SnipeStep
  BY <1>3 DEF SnipeStep, SnipeStart, SnipeBook, SnipeNoTarget, SnipeOpen, SnipeSell, SnipeBuy,
         SnipeOnly
<1>4. CASE HumanRestart \/ NextHour \/ Crash \/ UNCHANGED vars
  BY <1>4 DEF HumanRestart, NextHour, Crash, vars, IdleGuardian
<1> QED  BY <1>1, <1>2, <1>3, <1>4 DEF Next

LEMMA BreakersStep ==
  ASSUME DeskInv, DeskInv', BreakerInv, [Next]_vars
  PROVE  BreakerInv'
<1>1. CASE UNCHANGED events
  <2>1. TripsInv' /\ ResetsNeedATrade'
    BY <1>1, LogStays
  <2>2. CASE guardian'.pc \notin {"record", "kill"}
    BY <2>1, <2>2 DEF BreakerInv
  <2>3. CASE guardian'.pc \in {"record", "kill"} /\ GuardianEvaluate
    BY <2>1, <2>3, EvaluationFinds DEF BreakerInv
  <2>4. CASE guardian'.pc \in {"record", "kill"} /\ ~GuardianEvaluate
    <3>1. /\ guardian.pc = guardian'.pc \/ guardian.pc = "record"
          /\ guardian'.rows = guardian.rows /\ guardian'.seen = guardian.seen
          /\ guardian.pc = "record" /\ guardian'.pc = "kill" =>
               \A t \in BreakerTypes : guardian.rows[t] = "none"
      BY <1>1, <2>4, TickUnderWay
    <3>2. \A t \in BreakerTypes : RowInv(t)
      BY <2>4, <3>1 DEF BreakerInv
    <3>3. \A t \in BreakerTypes : RowInv(t)'
      BY <1>1, <3>1, <3>2, RowsStay
    <3>4. guardian'.pc = "kill" => \A t \in BreakerTypes : guardian'.rows[t] = "none"
      BY <2>4, <3>1 DEF BreakerInv
    <3> QED  BY <2>1, <2>4, <3>3, <3>4 DEF BreakerInv
  <2> QED  BY <2>2, <2>3, <2>4
<1>2. CASE \E t \in BreakerTypes :
             /\ guardian.pc = "record" /\ guardian.rows[t] \in {"trip", "reset"}
             /\ AppendEvent(t, guardian.rows[t], guardian.seen)
             /\ guardian' = [guardian EXCEPT !.rows[t] = "none"]
             /\ UNCHANGED <<trades, entry>>
  BY <1>2, RowCommitted
<1>3. CASE /\ AppendEvent("drawdown", "manual_restart", Len(trades))
           /\ UNCHANGED <<guardian, trades, entry>>
  BY <1>3, RestartCommitted
<1> QED  BY <1>1, <1>2, <1>3, LogWriters

LEMMA BreakerInvariant == Spec => []BreakerInv
<1>1. Init => BreakerInv
  BY BreakersAtFirst
<1>2. DeskInv /\ DeskInv' /\ BreakerInv /\ [Next]_vars => BreakerInv'
  BY BreakersStep
<1> QED  BY <1>1, <1>2, DeskInvariant, PTL DEF Spec

\* Time alone ends no halt: for every loss rule and trade history a breaker
\* that trips on its own is reset by a tick that had read a later trade.
THEOREM TradesEndHalts == Spec => []ResetsNeedATrade
<1>1. BreakerInv => ResetsNeedATrade
  BY DEF BreakerInv
<1> QED  BY <1>1, BreakerInvariant, PTL

\* What the gate reads after a tick is what the rules say of the trades that
\* tick had read.
THEOREM GateReadsTheRules == Spec => []BreakersFollowTheBook
<1>1. BreakerInv => BreakersFollowTheBook
  <2> SUFFICES ASSUME BreakerInv, guardian.pc = "kill"
               PROVE  /\ \A t \in AutoBreakers : Tripped(t) <=> Due(t, guardian.seen)
                      /\ Due("drawdown", guardian.seen) =>
                           LastAction("drawdown") \in {"trip", "manual_restart"}
    BY DEF BreakersFollowTheBook, Due, Book
  <2>1. \A t \in BreakerTypes : guardian.rows[t] = "none" /\ RowInv(t)
    BY DEF BreakerInv
  <2>2. AutoBreakers \subseteq BreakerTypes /\ "drawdown" \in BreakerTypes
        /\ "drawdown" \notin AutoBreakers
    BY DEF BreakerTypes, AutoBreakers
  <2> QED  BY <2>1, <2>2 DEF RowInv
<1> QED  BY <1>1, BreakerInvariant, PTL

-----------------------------------------------------------------------------
(* The log is the switchboard of BreakerPromise.                            *)

LEMMA RestartsFinite ==
  ASSUME events \in Seq(Event)
  PROVE  /\ IsFiniteSet(HumanRestarts) /\ Cardinality(HumanRestarts) \in Nat
         /\ Len(events) + 1 \notin HumanRestarts
<1>1. HumanRestarts \subseteq 1..Len(events) /\ Len(events) \in Nat
  BY DEF HumanRestarts
<1>2. IsFiniteSet(1..Len(events))
  BY <1>1, FS_Interval
<1>3. IsFiniteSet(HumanRestarts)
  BY <1>1, <1>2, FS_Subset
<1> QED  BY <1>1, <1>3, FS_CardinalityType

\* No breaker trips twice without being cleared, and only clear_breaker ends a
\* drawdown halt.
THEOREM LogIsASwitchboard == Spec => ImplementsBreakerPromise
<1> DEFINE tripped == [t \in BreakerTypes |-> Tripped(t)]
           restarts == Cardinality(HumanRestarts)
<1>1. Init => Promise!Init
  <2> SUFFICES ASSUME Init  PROVE  Promise!Init
    OBVIOUS
  <2>1. DOMAIN events = {}
    BY DEF Init
  <2>2. \A t \in BreakerTypes : Tripped(t) = FALSE
    BY <2>1 DEF Tripped, LastAction
  <2>3. HumanRestarts = {}
    BY <2>1 DEF HumanRestarts
  <2>4. Cardinality(HumanRestarts) = 0
    BY <2>3, FS_EmptySet
  <2> QED  BY <2>2, <2>4 DEF Promise!Init, BreakerTypes
<1>2. DeskInv /\ BreakerInv /\ [Next]_vars => [Promise!Next]_(Promise!pvars)
  <2> SUFFICES ASSUME DeskInv, BreakerInv, [Next]_vars
               PROVE  [Promise!Next]_(Promise!pvars)
    OBVIOUS
  <2>0. events \in Seq(Event) /\ Len(events) \in Nat
    BY DEF DeskInv, DeskTypes
  <2>1. CASE UNCHANGED events
    <3>1. tripped' = tripped
      BY <2>1, LastUnchanged
    <3>2. HumanRestarts' = HumanRestarts
      BY <2>1 DEF HumanRestarts
    <3> QED  BY <3>1, <3>2 DEF Promise!pvars
  <2>2. ASSUME NEW t \in BreakerTypes, guardian.pc = "record",
               guardian.rows[t] \in {"trip", "reset"},
               AppendEvent(t, guardian.rows[t], guardian.seen)
        PROVE  Promise!Trip(t) \/ Promise!Reset(t)
    <3>1. guardian.seen \in Nat
      BY DEF DeskInv, DeskTypes, GuardianRun
    <3>2. /\ LastAction(t)' = guardian.rows[t]
          /\ \A u : u # t => LastAction(u)' = LastAction(u)
      BY <2>0, <2>2, <3>1, LastAfterAppend
    <3>3. restarts' = restarts
      <4>1. /\ events' \in Seq(Event) /\ Len(events') = Len(events) + 1
            /\ \A k \in DOMAIN events : events'[k] = events[k]
            /\ events'[Len(events')] =
                 [type |-> t, action |-> guardian.rows[t], seen |-> guardian.seen]
        BY <2>0, <2>2, <3>1, EventAppended
      <4>2. HumanRestarts' = HumanRestarts
        BY <2>0, <2>2, <4>1 DEF HumanRestarts
      <4> QED  BY <4>2
    <3>4. RowInv(t)
      BY <2>2 DEF BreakerInv
    <3>5. CASE guardian.rows[t] = "trip"
      <4>1. ~Tripped(t) /\ Tripped(t)'
        BY <3>2, <3>4, <3>5 DEF RowInv, Tripped
      <4>2. tripped' = [tripped EXCEPT ![t] = TRUE]
        BY <3>2, <4>1 DEF Tripped
      <4> QED  BY <3>3, <4>1, <4>2 DEF Promise!Trip
    <3>6. CASE guardian.rows[t] = "reset"
      <4>1. Tripped(t) /\ t \in AutoBreakers /\ ~Tripped(t)'
        BY <3>2, <3>4, <3>6 DEF RowInv, Tripped
      <4>2. tripped' = [tripped EXCEPT ![t] = FALSE]
        BY <3>2, <4>1 DEF Tripped
      <4> QED  BY <3>3, <4>1, <4>2 DEF Promise!Reset
    <3> QED  BY <2>2, <3>5, <3>6
  <2>3. ASSUME AppendEvent("drawdown", "manual_restart", Len(trades))
        PROVE  Promise!Restart("drawdown")
    <3>1. "drawdown" \in BreakerTypes /\ Len(trades) \in Nat
      BY DEF BreakerTypes, DeskInv, DeskTypes
    <3>2. /\ LastAction("drawdown")' = "manual_restart"
          /\ \A u : u # "drawdown" => LastAction(u)' = LastAction(u)
      BY <2>0, <2>3, <3>1, LastAfterAppend
    <3>3. tripped' = [tripped EXCEPT !["drawdown"] = FALSE]
      BY <3>2 DEF Tripped
    <3>4. restarts' = restarts + 1
      <4>1. /\ events' \in Seq(Event) /\ Len(events') = Len(events) + 1
            /\ \A k \in DOMAIN events : events'[k] = events[k]
            /\ events'[Len(events')] =
                 [type |-> "drawdown", action |-> "manual_restart", seen |-> Len(trades)]
        BY <2>0, <2>3, <3>1, EventAppended
      <4>2. HumanRestarts' = HumanRestarts \cup {Len(events) + 1}
        BY <2>0, <4>1 DEF HumanRestarts
      <4> QED  BY <2>0, <4>2, RestartsFinite, FS_AddElement
    <3> QED  BY <3>3, <3>4 DEF Promise!Restart
  <2>4. AutoBreakers \cup {"drawdown"} = BreakerTypes
    BY DEF BreakerTypes
  <2> QED  BY <2>1, <2>2, <2>3, <2>4, LogWriters DEF Promise!Next, BreakerTypes
<1> QED  BY <1>1, <1>2, DeskInvariant, BreakerInvariant, PTL
      DEF Spec, ImplementsBreakerPromise, Promise!Spec
=============================================================================
