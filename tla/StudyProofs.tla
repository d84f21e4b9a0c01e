---------------------------- MODULE StudyProofs ----------------------------
(***************************************************************************)
(* The backtest studies, for every instance of Study: any set of metric    *)
(* tables, any sizes, every driver, and any number of deaths and resumes.  *)
(* A finished unit counts each cell once, what the artifacts cite is in    *)
(* the database and was made on frozen definitions, and an interrupted     *)
(* study ends with the candidates, verdicts and survivors of an            *)
(* uninterrupted one.                                                      *)
(*                                                                         *)
(* The argument: the selection looks at the metrics of the cells and never *)
(* at their run numbers, and a checkpoint in the order of the units leaves *)
(* exactly one cell of each, so the candidates do not depend on which      *)
(* process ran which cell.  StudyInv says that of every step of a study.   *)
(*                                                                         *)
(* And the backtest engine under them, for any bars, profiles and number   *)
(* of dates: no trade looks ahead.  BacktestInv says what an open position *)
(* carries from one date to the next (its watermark is the highest close   *)
(* since entry, its age the bars since then, no bar has stopped it), so    *)
(* that what the rules read off the position is what the bars say.  It     *)
(* rests on FirstRule: a bar that stops a position fires a rule of rank 3  *)
(* or less, which sells all of it and lets no target be filled.            *)
(***************************************************************************)
EXTENDS StudyProperties, Backtest, SequenceTheorems, CommonLemmas

-----------------------------------------------------------------------------
(* Lists.                                                                  *)

\* Indices in increasing order are indices.
LEMMA ElementsAtIndices ==
  ASSUME NEW m \in Nat, NEW K \in SUBSET (1..m)
  PROVE  /\ Cardinality(K) \in Nat
         /\ \A n \in 1..Cardinality(K) : InOrder(K, {p \in K \X K : p[1] < p[2]})[n] \in K
<1> DEFINE R == {p \in K \X K : p[1] < p[2]}
<1>1. IsFiniteSet(K)
  <2>1. IsFiniteSet(1..m)
    BY FS_Interval
  <2> QED  BY <2>1, FS_Subset
<1>2. StrictOrder(K, R)
  <2>1. ASSUME NEW i \in K, NEW j \in K PROVE <<i, j>> \in R <=> i < j
    <3>1. <<i, j>> \in K \X K /\ <<i, j>>[1] = i /\ <<i, j>>[2] = j
      OBVIOUS
    <3> QED  BY <3>1
  <2>2. K \subseteq Int
    OBVIOUS
  <2> HIDE DEF R
  <2> QED  BY <2>1, <2>2 DEF StrictOrder
<1> QED  BY <1>1, <1>2, ListedIsMember

-----------------------------------------------------------------------------
(* Drivers and units.                                                      *)

DriverFacts(d) ==
  /\ d.strategies \in {1, 2} /\ d.variants \in {1, 2, 3}
  /\ {d.regimes.stock, d.regimes.crypto, d.regimes.memecoin} \subseteq 0..2
  /\ "start" \in d.gates \/ {"unit", "oos"} \subseteq d.gates
  /\ {d.resumes, d.cleans, d.oneProcess} \subseteq BOOLEAN
  /\ d.sweep = "v2" => d.cleans
  /\ d.cleans => d.resumes /\ ~d.oneProcess
  /\ ~d.oneProcess => "start" \notin d.gates

\* The drivers are few enough to look at.
LEMMA EveryDriver == \A d \in Drivers : DriverFacts(d)
<1> USE DEF DriverFacts, Regimes
<1>1. DriverFacts(RunTuneSweepAll)
  BY DEF RunTuneSweepAll
<1>2. DriverFacts(RunTuneSweepAllV2)
  BY DEF RunTuneSweepAllV2, RunTuneSweepAll
<1>3. DriverFacts(RunMacrossEvidence)
  BY DEF RunMacrossEvidence
<1>4. DriverFacts(RunDonchianEvidence)
  BY DEF RunDonchianEvidence, RunMacrossEvidence
<1>5. DriverFacts(RunDonchianCryptoEvidence)
  BY DEF RunDonchianCryptoEvidence, RunMacrossEvidence
<1>6. DriverFacts(RunRsi2Evidence)
  BY DEF RunRsi2Evidence, RunMacrossEvidence
<1>7. DriverFacts(RunHourlyEvidence)
  BY DEF RunHourlyEvidence, RunMacrossEvidence
<1>8. DriverFacts(Run4hEvidence)
  BY DEF Run4hEvidence, RunHourlyEvidence, RunMacrossEvidence
<1> HIDE DEF DriverFacts
<1> QED  BY <1>1, <1>2, <1>3, <1>4, <1>5, <1>6, <1>7, <1>8 DEF Drivers

\* Units are numbered group by group: each is in bounds, and none comes twice.
LEMMA UnitsInOrder ==
  ASSUME study.driver \in Drivers
  PROVE  /\ Len(Units) \in Nat /\ DOMAIN Units = 1..Len(Units)
         /\ \A k \in DOMAIN Units :
              /\ Units[k] = [group |-> Units[k].group, variant |-> Units[k].variant]
              /\ Units[k].group \in 1..MaxGroups /\ Units[k].variant \in 1..MaxVariants
         /\ \A j, k \in DOMAIN Units : Units[j] = Units[k] => j = k
<1> DEFINE g == Lesser(Groups(study.driver), MaxGroups)
           v == Variants
<1>1. MaxGroups \in Nat \ {0} /\ MaxVariants \in Nat \ {0}
  BY StudyAssumption
<1>2. DriverFacts(study.driver)
  BY EveryDriver
<1>3. g \in Nat /\ g <= MaxGroups
  <2>1. Groups(study.driver) \in Nat
    <3>1. study.driver.strategies \in Nat /\ study.driver.regimes.stock \in Nat
          /\ study.driver.regimes.crypto \in Nat /\ study.driver.regimes.memecoin \in Nat
      BY <1>2 DEF DriverFacts
    <3> QED  BY <3>1 DEF Groups
  <2> QED  BY <1>1, <2>1 DEF Lesser
<1>4. v \in {1, 2, 3} /\ v <= MaxVariants
  <2>1. study.driver.variants \in {1, 2, 3}
    BY <1>2 DEF DriverFacts
  <2> QED  BY <1>1, <2>1 DEF Variants, Lesser
<1>5. Units = [k \in 1..(g * v) |-> [group |-> 1 + (k - 1) \div v, variant |-> 1 + ((k - 1) % v)]]
  BY DEF Units
<1> HIDE DEF g, v
<1>6. g * v \in Nat
  BY <1>3, <1>4
<1>7. DOMAIN Units = 1..(g * v) /\ Len(Units) = g * v
  <2> DEFINE size == g * v
             R == {Units[k] : k \in 1..size}
  <2>1. size \in Nat /\ DOMAIN Units = 1..size /\ Units \in [1..size -> R]
    BY <1>5, <1>6
  <2> HIDE DEF size, R
  <2>2. Units \in Seq(R) /\ Len(Units) = size
    BY <2>1
  <2> QED  BY <2>1, <2>2 DEF size
<1>8. ASSUME NEW k \in DOMAIN Units
      PROVE  /\ Units[k].group = 1 + (k - 1) \div v
             /\ Units[k].variant = 1 + ((k - 1) % v)
             /\ Units[k] = [group |-> Units[k].group, variant |-> Units[k].variant]
  BY <1>5, <1>7
<1>9. ASSUME NEW k \in DOMAIN Units
      PROVE  Units[k].group \in 1..MaxGroups /\ Units[k].variant \in 1..MaxVariants
  <2>1. k \in Int /\ 1 <= k /\ k <= g * v
    BY <1>6, <1>7
  <2>2. (k - 1) \div v \in Nat /\ (k - 1) \div v < g /\ (k - 1) % v \in Nat /\ (k - 1) % v < v
    <3>1. CASE v = 1
      BY <1>3, <2>1, <3>1
    <3>2. CASE v = 2
      BY <1>3, <2>1, <3>2
    <3>3. CASE v = 3
      BY <1>3, <2>1, <3>3
    <3> QED  BY <1>4, <3>1, <3>2, <3>3
  <2> QED  BY <1>1, <1>3, <1>4, <1>8, <2>2
<1>10. ASSUME NEW j \in DOMAIN Units, NEW k \in DOMAIN Units, Units[j] = Units[k] PROVE j = k
  <2>1. j \in Int /\ k \in Int
    BY <1>7
  <2>2. (j - 1) \div v = (k - 1) \div v /\ (j - 1) % v = (k - 1) % v
    <3>1. Units[j].group = Units[k].group /\ Units[j].variant = Units[k].variant
      BY <1>10
    <3>2. /\ (j - 1) \div v \in Int /\ (k - 1) \div v \in Int
          /\ (j - 1) % v \in Int /\ (k - 1) % v \in Int
      BY <1>4, <2>1
    <3> QED  BY <1>8, <3>1, <3>2
  <2>3. CASE v = 1
    BY <2>1, <2>2, <2>3
  <2>4. CASE v = 2
    BY <2>1, <2>2, <2>4
  <2>5. CASE v = 3
    BY <2>1, <2>2, <2>5
  <2> QED  BY <1>4, <2>3, <2>4, <2>5
<1> QED  BY <1>6, <1>7, <1>8, <1>9, <1>10

-----------------------------------------------------------------------------
(* What the variables hold.                                                *)

UnitRecord == [group : Nat, variant : Nat]
CellRecord == [id : Nat, unit : UnitRecord, cell : Nat]
DoneRecord == [unit : UnitRecord, results : Seq(CellRecord)]
OosRecord == [candidate : CellRecord, oosId : Nat,
              verdict : {"insufficient_sample", "survivor", "killed"}]
RowRecord == [id : Nat, unit : UnitRecord, cell : Nat, split : {"tune", "oos"},
              config : {"frozen", "edited"}]
WorkRecord == [pc : {"idle", "tune", "cells", "oos"}, config : {"frozen", "edited"},
               done : Seq(DoneRecord), unit : Nat, cells : Seq(CellRecord),
               candidates : Seq(CellRecord), oos : Seq(OosRecord)]

-----------------------------------------------------------------------------
(* The selection.                                                          *)

\* Units that are finished and in bounds.
Finished(done) ==
  /\ done \in Seq(DoneRecord)
  /\ \A k \in DOMAIN done :
       /\ done[k].unit.group \in 1..MaxGroups /\ done[k].unit.variant \in 1..MaxVariants
       /\ Len(done[k].results) = MaxCells
       /\ \A c \in 1..MaxCells : /\ done[k].results[c].unit = done[k].unit
                                 /\ done[k].results[c].cell = c

ScoreAt(table, done, k, c) ==
  [k |-> k, c |-> c, group |-> done[k].unit.group,
   tune |-> Metrics(table, done[k].results[c].unit, done[k].results[c].cell).tune]

\* What a finished unit looks like: one typed cell for each place.
LEMMA FinishedShape ==
  ASSUME NEW done, Finished(done)
  PROVE  /\ Len(done) \in Nat /\ DOMAIN done = 1..Len(done)
         /\ \A k \in DOMAIN done :
              /\ DOMAIN done[k].results = 1..MaxCells
              /\ done[k].unit \in UnitRecord
              /\ \A c \in 1..MaxCells : done[k].results[c] \in CellRecord
<1>1. MaxCells \in Nat
  BY StudyAssumption
<1>2. done \in Seq(DoneRecord)
  BY DEF Finished
<1>3. Len(done) \in Nat /\ DOMAIN done = 1..Len(done) /\ \A k \in DOMAIN done : done[k] \in DoneRecord
  BY <1>2
<1>4. ASSUME NEW k \in DOMAIN done
      PROVE  /\ DOMAIN done[k].results = 1..MaxCells
             /\ done[k].unit \in UnitRecord
             /\ \A c \in 1..MaxCells : done[k].results[c] \in CellRecord
  <2>1. done[k].unit \in UnitRecord /\ done[k].results \in Seq(CellRecord)
    BY <1>3 DEF DoneRecord
  <2>2. Len(done[k].results) = MaxCells
    BY DEF Finished
  <2> QED  BY <1>1, <2>1, <2>2
<1> QED  BY <1>3, <1>4

\* The scores of a checkpoint are those of its cells.
LEMMA ScoresOf ==
  ASSUME NEW table, NEW done, Finished(done), NEW x
  PROVE  x \in Scores(table, done) <=>
           \E k \in DOMAIN done : \E c \in 1..MaxCells : x = ScoreAt(table, done, k, c)
<1>1. \A k \in DOMAIN done : DOMAIN done[k].results = 1..MaxCells
  BY FinishedShape
<1>2. x \in Scores(table, done) <=>
        \E k \in DOMAIN done : \E c \in DOMAIN done[k].results : x = ScoreAt(table, done, k, c)
  BY DEF Scores, ScoreAt
<1> QED  BY <1>1, <1>2

Scored(x) ==
  /\ x.k \in Int /\ x.c \in Int /\ x.group \in Int /\ x.tune.pf \in Int

\* They are finitely many, and a cell has one.
LEMMA ScoresAreFinite ==
  ASSUME NEW table \in MetricTables, NEW done, Finished(done)
  PROVE  /\ IsFiniteSet(Scores(table, done))
         /\ \A x \in Scores(table, done) :
              Scored(x) /\ x.k \in DOMAIN done /\ x.c \in 1..MaxCells
         /\ \A x, y \in Scores(table, done) : x.k = y.k /\ x.c = y.c => x = y
<1>1. ASSUME NEW x \in Scores(table, done)
      PROVE  /\ Scored(x) /\ x.k \in DOMAIN done /\ x.c \in 1..MaxCells
             /\ x = ScoreAt(table, done, x.k, x.c)
  <2>1. PICK k \in DOMAIN done, c \in 1..MaxCells : x = ScoreAt(table, done, k, c)
    BY ScoresOf
  <2>2. /\ x.k = k /\ x.c = c /\ x.group = done[k].unit.group
        /\ x.tune = Metrics(table, done[k].results[c].unit, done[k].results[c].cell).tune
    BY <2>1 DEF ScoreAt
  <2>3. /\ done[k].unit.group \in 1..MaxGroups /\ done[k].unit.variant \in 1..MaxVariants
        /\ done[k].results[c].unit = done[k].unit /\ done[k].results[c].cell = c
    BY DEF Finished
  <2>4. x.tune.pf \in Int
    BY <2>2, <2>3, StudyAssumption DEF Metrics
  <2>5. k \in Int /\ MaxGroups \in Nat /\ MaxCells \in Nat
    BY FinishedShape, StudyAssumption
  <2> QED  BY <2>1, <2>2, <2>3, <2>4, <2>5 DEF Scored
<1>2. \A x, y \in Scores(table, done) : x.k = y.k /\ x.c = y.c => x = y
  BY <1>1
<1>3. IsFiniteSet(Scores(table, done))
  <2> DEFINE T == (1..Len(done)) \X (1..MaxCells)
             f == [x \in Scores(table, done) |-> <<x.k, x.c>>]
  <2>1. IsFiniteSet(1..Len(done)) /\ IsFiniteSet(1..MaxCells)
    <3>1. Len(done) \in Int /\ MaxCells \in Int
      BY FinishedShape, StudyAssumption
    <3> QED  BY <3>1, FS_Interval
  <2>2. IsFiniteSet(T)
    BY <2>1, FS_Product
  <2>3. f \in [Scores(table, done) -> T]
    <3>1. DOMAIN done = 1..Len(done)
      BY FinishedShape
    <3> QED  BY <1>1, <3>1
  <2>4. f \in Injection(Scores(table, done), T)
    BY <1>2, <2>3 DEF Injection, IsInjective
  <2> HIDE DEF f, T
  <2> QED  BY <2>2, <2>4, FS_Injection
<1> QED  BY <1>1, <1>2, <1>3

Selection(table, done) ==
  UNION {SelectTop5({x \in Scores(table, done) : x.group = done[k].unit.group}) : k \in DOMAIN done}
Ranking(S) == {pair \in S \X S : Precedes(pair[1], pair[2])}
Listing(table, done) == InOrder(Selection(table, done), Ranking(Selection(table, done)))

\* A selection takes scores of the checkpoint.
LEMMA SelectionOfScores ==
  ASSUME NEW table, NEW done
  PROVE  Selection(table, done) \subseteq Scores(table, done)
BY DEF Selection, SelectTop5

\* The order of the artifact is total on cells and strict.
LEMMA PrecedesIsStrict ==
  /\ \A x : Scored(x) => ~Precedes(x, x)
  /\ \A x, y : Scored(x) /\ Scored(y) /\ ~(x.k = y.k /\ x.c = y.c) => Precedes(x, y) \/ Precedes(y, x)
  /\ \A x, y, z : Scored(x) /\ Scored(y) /\ Scored(z) /\ Precedes(x, y) /\ Precedes(y, z)
                    => Precedes(x, z)
BY DEF Scored, Precedes, Ahead, Earlier

\* The artifact lists what was selected.
LEMMA SelectionIsListed ==
  ASSUME NEW table \in MetricTables, NEW done, Finished(done)
  PROVE  /\ Cardinality(Selection(table, done)) \in Nat
         /\ \A n \in 1..Cardinality(Selection(table, done)) :
              Listing(table, done)[n] \in Selection(table, done)
<1> DEFINE S == Selection(table, done)
           R == Ranking(S)
<1>1. /\ IsFiniteSet(S) /\ \A x \in S : Scored(x)
      /\ \A x, y \in S : x.k = y.k /\ x.c = y.c => x = y
  <2>1. S \subseteq Scores(table, done)
    BY SelectionOfScores
  <2> QED  BY <2>1, ScoresAreFinite, FS_Subset
<1>2. \A x, y \in S : <<x, y>> \in R <=> Precedes(x, y)
  BY DEF Ranking
<1> HIDE DEF S, R
<1>3. StrictOrder(S, R)
  BY <1>1, <1>2, PrecedesIsStrict DEF StrictOrder
<1>4. /\ Cardinality(S) \in Nat
      /\ \A n \in 1..Cardinality(S) : InOrder(S, R)[n] \in S
  BY <1>1, <1>3, ListedIsMember
<1> QED  BY <1>4 DEF Listing, S, R

\* The artifact is that list, each score turned back into its cell.
LEMMA TopIsListed ==
  ASSUME NEW table, NEW done
  PROVE  AllTop5(table, done) =
           [n \in 1..Cardinality(Selection(table, done)) |->
              done[Listing(table, done)[n].k].results[Listing(table, done)[n].c]]
BY DEF AllTop5, Selection, Listing, Ranking

\* What is chosen is a finished cell.
LEMMA ChosenIsFinished ==
  ASSUME NEW table \in MetricTables, NEW done, Finished(done)
  PROVE  /\ AllTop5(table, done) \in Seq(CellRecord)
         /\ \A n \in DOMAIN AllTop5(table, done) :
              \E k \in DOMAIN done : \E c \in 1..MaxCells :
                AllTop5(table, done)[n] = done[k].results[c]
<1> DEFINE size == Cardinality(Selection(table, done))
           list == Listing(table, done)
<1>1. size \in Nat /\ \A n \in 1..size : list[n].k \in DOMAIN done /\ list[n].c \in 1..MaxCells
  BY SelectionIsListed, SelectionOfScores, ScoresAreFinite
<1>2. AllTop5(table, done) = [n \in 1..size |-> done[list[n].k].results[list[n].c]]
  BY TopIsListed
<1>3. \A k \in DOMAIN done : \A c \in 1..MaxCells : done[k].results[c] \in CellRecord
  BY FinishedShape
<1> HIDE DEF size, list
<1>4. AllTop5(table, done) \in [1..size -> CellRecord]
  BY <1>1, <1>2, <1>3
<1> QED  BY <1>1, <1>2, <1>4

\* The choice goes by units and cells only: run numbers do not matter.
LEMMA SameChoice ==
  ASSUME NEW table \in MetricTables, NEW d, NEW e, Finished(d), Finished(e),
         DOMAIN d = DOMAIN e, \A k \in DOMAIN d : d[k].unit = e[k].unit
  PROVE  /\ DOMAIN AllTop5(table, d) = DOMAIN AllTop5(table, e)
         /\ \A n \in DOMAIN AllTop5(table, d) :
              /\ AllTop5(table, d)[n].unit = AllTop5(table, e)[n].unit
              /\ AllTop5(table, d)[n].cell = AllTop5(table, e)[n].cell
<1>1. \A k \in DOMAIN d, c \in 1..MaxCells : ScoreAt(table, d, k, c) = ScoreAt(table, e, k, c)
  BY DEF ScoreAt, Finished
<1>2. Scores(table, d) = Scores(table, e)
  <2>1. \A x : x \in Scores(table, d) <=> x \in Scores(table, e)
    BY <1>1, ScoresOf
  <2> QED  BY <2>1
<1>3. Selection(table, d) = Selection(table, e)
  <2> DEFINE top(done, k) == SelectTop5({x \in Scores(table, done) : x.group = done[k].unit.group})
  <2>1. \A k \in DOMAIN d : top(d, k) = top(e, k)
    <3> SUFFICES ASSUME NEW k \in DOMAIN d PROVE top(d, k) = top(e, k)
      OBVIOUS
    <3>1. {x \in Scores(table, d) : x.group = d[k].unit.group}
            = {x \in Scores(table, e) : x.group = e[k].unit.group}
      BY <1>2
    <3> QED  BY <3>1
  <2>2. Selection(table, d) = UNION {top(d, k) : k \in DOMAIN d}
        /\ Selection(table, e) = UNION {top(e, k) : k \in DOMAIN e}
    BY DEF Selection
  <2> HIDE DEF top
  <2> QED  BY <2>1, <2>2
<1> DEFINE size == Cardinality(Selection(table, d))
           list == Listing(table, d)
<1>4. Listing(table, e) = list /\ Cardinality(Selection(table, e)) = size
  BY <1>3 DEF Listing
<1>5. \A n \in 1..size : list[n].k \in DOMAIN d /\ list[n].c \in 1..MaxCells
  BY SelectionIsListed, SelectionOfScores, ScoresAreFinite
<1>6. /\ AllTop5(table, d) = [n \in 1..size |-> d[list[n].k].results[list[n].c]]
      /\ AllTop5(table, e) = [n \in 1..size |-> e[list[n].k].results[list[n].c]]
  BY <1>4, TopIsListed
<1> HIDE DEF size, list
<1>7. \A k \in DOMAIN d, c \in 1..MaxCells :
        /\ d[k].results[c].unit = e[k].results[c].unit
        /\ d[k].results[c].cell = e[k].results[c].cell
  BY DEF Finished
<1> QED  BY <1>5, <1>6, <1>7

-----------------------------------------------------------------------------
(* The inductive invariant.                                                *)

StudyTypeInv ==
  /\ study \in [driver : Drivers, metrics : MetricTables]
  /\ files \in {"frozen", "edited"}
  /\ rows \subseteq RowRecord /\ lastId \in Nat
  /\ checkpoint \in Seq(DoneRecord)
  /\ candidates # Unreadable => candidates \in Seq(CellRecord)
  /\ results # Unreadable => results \in Seq(OosRecord)
  /\ work \in WorkRecord

\* A run's number is its own, and none is above the last one given out.
NumbersInv ==
  /\ \A r \in rows : r.id <= lastId
  /\ \A r, s \in rows : r.id = s.id => r = s

\* The run of a cell is in the database and was made on frozen definitions.
HasRun(c) ==
  \E r \in rows : /\ r.id = c.id /\ r.unit = c.unit /\ r.cell = c.cell
                  /\ r.split = "tune" /\ r.config = "frozen"

\* The first cells of a unit, each with its run.
CellsOf(unit, cells) ==
  \A c \in DOMAIN cells : cells[c].unit = unit /\ cells[c].cell = c /\ HasRun(cells[c])
DoneInOrder(done) ==
  /\ Len(done) <= Len(Units)
  /\ \A k \in DOMAIN done : /\ done[k].unit = Units[k] /\ Len(done[k].results) = MaxCells
                            /\ CellsOf(Units[k], done[k].results)

\* A process checks the frozen files before what it makes of them counts.
FrozenInv ==
  /\ work.pc # "idle" => work.config = files
  /\ work.pc # "idle" /\ "start" \in study.driver.gates => files = "frozen"
  /\ work.pc \in {"cells", "oos"} => files = "frozen"

\* The sweep repeats no unit and leaves none out.
SweepInv ==
  /\ DoneInOrder(checkpoint)
  /\ ~study.driver.resumes => checkpoint = <<>>
  /\ work.pc \in {"tune", "cells"} =>
       /\ DoneInOrder(work.done)
       /\ study.driver.resumes => work.done = checkpoint
  /\ work.pc = "cells" =>
       /\ work.unit = Len(work.done) + 1 /\ work.unit <= Len(Units)
       /\ Len(work.cells) <= MaxCells
       /\ CellsOf(Units[work.unit], work.cells)

\* No other tune run of a unit is left.
OnlyRunsOf(unit, cells) ==
  \A r \in TuneRowsOf(unit) : \E c \in DOMAIN cells : r.id = cells[c].id
CleanInv ==
  study.driver.cleans =>
    /\ \A k \in DOMAIN checkpoint : OnlyRunsOf(Units[k], checkpoint[k].results)
    /\ work.pc = "cells" => OnlyRunsOf(Units[work.unit], work.cells)
    /\ candidates # Unreadable \/ results # Unreadable \/ work.pc = "oos" =>
         Len(checkpoint) = Len(Units)

\* A list of candidates is the one of an uninterrupted sweep, each with its run.
Chosen(list) ==
  /\ [k \in DOMAIN list |-> Anonymous(list[k])] = Uninterrupted
  /\ \A k \in DOMAIN list : HasRun(list[k])
Validated(oos) ==
  \A k \in DOMAIN oos :
    /\ oos[k].verdict = VerdictOn(oos[k].candidate)
    /\ oos[k].oosId <= lastId
    /\ \A r \in rows : r.id = oos[k].oosId => r.config = "frozen"
CandidatesOf(oos) == [k \in DOMAIN oos |-> oos[k].candidate]
ArtifactsInv ==
  /\ work.pc \in {"tune", "cells"} => work.oos = <<>>
  /\ candidates # Unreadable => Chosen(candidates)
  /\ work.pc = "oos" =>
       /\ Chosen(work.candidates) /\ Validated(work.oos)
       /\ Len(work.oos) <= Len(work.candidates)
       /\ \A k \in DOMAIN work.oos : work.oos[k].candidate = work.candidates[k]
  /\ results # Unreadable => Chosen(CandidatesOf(results)) /\ Validated(results)
  /\ survivors # Unreadable =>
       [k \in DOMAIN survivors |-> Anonymous(survivors[k].candidate)] =
         ElementsAt(Uninterrupted,
                    {k \in DOMAIN Uninterrupted : VerdictOn(Uninterrupted[k]) = "survivor"})

StudyInv == StudyTypeInv /\ NumbersInv /\ FrozenInv /\ SweepInv /\ CleanInv /\ ArtifactsInv

LEMMA InitStudy == StudyInit => StudyInv
<1> SUFFICES ASSUME StudyInit PROVE StudyInv
  OBVIOUS
<1>1. StudyTypeInv
  BY DEF StudyInit, StudyTypeInv, IdleWork, WorkRecord
<1>2. NumbersInv /\ FrozenInv /\ CleanInv /\ ArtifactsInv
  BY DEF StudyInit, NumbersInv, FrozenInv, CleanInv, ArtifactsInv, IdleWork
<1>3. SweepInv
  <2>1. Len(Units) \in Nat
    BY <1>1, UnitsInOrder DEF StudyTypeInv
  <2> QED  BY <2>1 DEF StudyInit, SweepInv, DoneInOrder, IdleWork
<1> QED  BY <1>1, <1>2, <1>3 DEF StudyInv

\* Finished units in the order of the sweep.
LEMMA InOrderIsFinished ==
  ASSUME study.driver \in Drivers, NEW done \in Seq(DoneRecord), DoneInOrder(done)
  PROVE  Finished(done)
<1>1. /\ Len(Units) \in Nat /\ DOMAIN Units = 1..Len(Units)
      /\ \A k \in DOMAIN Units : Units[k].group \in 1..MaxGroups /\ Units[k].variant \in 1..MaxVariants
  BY UnitsInOrder
<1>2. Len(done) \in Nat /\ DOMAIN done = 1..Len(done) /\ MaxCells \in Nat
  BY StudyAssumption
<1>3. ASSUME NEW k \in DOMAIN done
      PROVE  /\ done[k].unit = Units[k] /\ k \in DOMAIN Units
             /\ Len(done[k].results) = MaxCells
             /\ \A c \in 1..MaxCells : done[k].results[c].unit = Units[k] /\ done[k].results[c].cell = c
  <2>1. /\ done[k].unit = Units[k] /\ Len(done[k].results) = MaxCells /\ Len(done) <= Len(Units)
        /\ CellsOf(Units[k], done[k].results)
    BY DEF DoneInOrder
  <2>2. k \in DOMAIN Units
    BY <1>1, <1>2, <2>1
  <2>3. done[k].results \in Seq(CellRecord)
    <3>1. done[k] \in DoneRecord
      BY <1>2
    <3> QED  BY <3>1 DEF DoneRecord
  <2>4. DOMAIN done[k].results = 1..MaxCells
    BY <1>2, <2>1, <2>3
  <2> QED  BY <2>1, <2>2, <2>4 DEF CellsOf
<1> QED  BY <1>1, <1>3 DEF Finished

Whole ==
  [k \in DOMAIN Units |->
    [unit |-> Units[k],
     results |-> [c \in Cells |-> [id |-> 0, unit |-> Units[k], cell |-> c]]]]

\* An uninterrupted sweep finishes every unit.
LEMMA WholeIsFinished ==
  ASSUME study.driver \in Drivers
  PROVE  Finished(Whole) /\ \A k \in DOMAIN Whole, c \in 1..MaxCells : Whole[k].results[c].id = 0
<1>1. /\ Len(Units) \in Nat /\ DOMAIN Units = 1..Len(Units)
      /\ \A k \in DOMAIN Units :
           /\ Units[k] = [group |-> Units[k].group, variant |-> Units[k].variant]
           /\ Units[k].group \in 1..MaxGroups /\ Units[k].variant \in 1..MaxVariants
  BY UnitsInOrder
<1>2. MaxCells \in Nat /\ MaxGroups \in Nat /\ MaxVariants \in Nat
  BY StudyAssumption
<1>3. \A k \in DOMAIN Units : Units[k] \in UnitRecord
  <2> SUFFICES ASSUME NEW k \in DOMAIN Units PROVE Units[k] \in UnitRecord
    OBVIOUS
  <2>1. Units[k].group \in Nat /\ Units[k].variant \in Nat
    BY <1>1, <1>2
  <2> QED  BY <1>1, <2>1 DEF UnitRecord
<1>4. ASSUME NEW k \in DOMAIN Units
      PROVE  /\ Whole[k].unit = Units[k]
             /\ Whole[k].results \in Seq(CellRecord) /\ Len(Whole[k].results) = MaxCells
             /\ Whole[k] \in DoneRecord
             /\ \A c \in 1..MaxCells : Whole[k].results[c] = [id |-> 0, unit |-> Units[k], cell |-> c]
  <2> DEFINE cells == [c \in Cells |-> [id |-> 0, unit |-> Units[k], cell |-> c]]
  <2>1. Whole[k] = [unit |-> Units[k], results |-> cells]
    BY DEF Whole
  <2>2. cells \in [1..MaxCells -> CellRecord]
    BY <1>2, <1>3 DEF Cells, CellRecord
  <2>3. \A c \in 1..MaxCells : cells[c] = [id |-> 0, unit |-> Units[k], cell |-> c]
    BY DEF Cells
  <2> HIDE DEF cells
  <2>4. cells \in Seq(CellRecord) /\ Len(cells) = MaxCells
    BY <1>2, <2>2
  <2> QED  BY <1>3, <2>1, <2>3, <2>4 DEF DoneRecord
<1>5. DOMAIN Whole = 1..Len(Units)
  BY <1>1 DEF Whole
<1>6. Whole \in Seq(DoneRecord)
  <2>1. Whole \in [1..Len(Units) -> DoneRecord]
    <3>1. Whole = [k \in 1..Len(Units) |-> Whole[k]]
      BY <1>1 DEF Whole
    <3> HIDE DEF Whole
    <3> QED  BY <1>1, <1>4, <3>1
  <2> QED  BY <1>1, <2>1
<1>7. DOMAIN Whole = DOMAIN Units
  BY <1>1, <1>5
<1>8. \A k \in DOMAIN Whole, c \in 1..MaxCells :
        /\ Whole[k].results[c].id = 0 /\ Whole[k].results[c].unit = Whole[k].unit
        /\ Whole[k].results[c].cell = c
  <2> SUFFICES ASSUME NEW k \in DOMAIN Whole, NEW c \in 1..MaxCells
               PROVE  /\ Whole[k].results[c].id = 0 /\ Whole[k].results[c].unit = Whole[k].unit
                      /\ Whole[k].results[c].cell = c
    OBVIOUS
  <2>1. Whole[k].results[c] = [id |-> 0, unit |-> Units[k], cell |-> c] /\ Whole[k].unit = Units[k]
    BY <1>4, <1>7
  <2> HIDE DEF Whole
  <2> QED  BY <2>1
<1>9. \A k \in DOMAIN Whole :
        /\ Whole[k].unit.group \in 1..MaxGroups /\ Whole[k].unit.variant \in 1..MaxVariants
        /\ Len(Whole[k].results) = MaxCells
  BY <1>1, <1>4, <1>7
<1> HIDE DEF Whole
<1> QED  BY <1>6, <1>8, <1>9 DEF Finished

\* The candidates of a complete checkpoint are those of the uninterrupted sweep.
LEMMA CompleteIsChosen ==
  ASSUME StudyTypeInv, NEW done \in Seq(DoneRecord), DoneInOrder(done), Len(done) = Len(Units)
  PROVE  /\ AllTop5(study.metrics, done) \in Seq(CellRecord)
         /\ Chosen(AllTop5(study.metrics, done))
<1> DEFINE table == study.metrics
           list == AllTop5(table, done)
           whole == AllTop5(table, Whole)
<1>1. study.driver \in Drivers /\ table \in MetricTables
  BY DEF StudyTypeInv
<1>2. Finished(done) /\ Finished(Whole)
  BY <1>1, InOrderIsFinished, WholeIsFinished
<1>3. list \in Seq(CellRecord) /\ whole \in Seq(CellRecord)
  BY <1>1, <1>2, ChosenIsFinished
<1>4. DOMAIN done = DOMAIN Whole /\ \A k \in DOMAIN done : done[k].unit = Whole[k].unit
  <2>1. DOMAIN done = DOMAIN Units /\ DOMAIN Whole = DOMAIN Units
    BY <1>1, UnitsInOrder DEF Whole
  <2>2. \A k \in DOMAIN done : done[k].unit = Units[k]
    BY DEF DoneInOrder
  <2> QED  BY <2>1, <2>2 DEF Whole
<1>5. /\ DOMAIN list = DOMAIN whole
      /\ \A n \in DOMAIN list : list[n].unit = whole[n].unit /\ list[n].cell = whole[n].cell
  BY <1>1, <1>2, <1>4, SameChoice
<1>6. \A n \in DOMAIN whole : whole[n].id = 0
  <2> SUFFICES ASSUME NEW n \in DOMAIN whole PROVE whole[n].id = 0
    OBVIOUS
  <2>1. PICK k \in DOMAIN Whole, c \in 1..MaxCells : whole[n] = Whole[k].results[c]
    BY <1>1, <1>2, ChosenIsFinished
  <2> HIDE DEF whole
  <2> QED  BY <1>1, <2>1, WholeIsFinished
<1>7. \A n \in DOMAIN list : HasRun(list[n])
  <2> SUFFICES ASSUME NEW n \in DOMAIN list PROVE HasRun(list[n])
    OBVIOUS
  <2>1. PICK k \in DOMAIN done, c \in 1..MaxCells : list[n] = done[k].results[c]
    BY <1>1, <1>2, ChosenIsFinished
  <2>2. DOMAIN done[k].results = 1..MaxCells
    BY <1>2, FinishedShape
  <2> HIDE DEF list
  <2> QED  BY <2>1, <2>2 DEF DoneInOrder, CellsOf
<1> HIDE DEF list, whole
<1>8. \A n \in DOMAIN list : Anonymous(list[n]) = whole[n]
  <2> SUFFICES ASSUME NEW n \in DOMAIN list PROVE Anonymous(list[n]) = whole[n]
    OBVIOUS
  <2>1. list[n] \in CellRecord /\ whole[n] \in CellRecord
    BY <1>3, <1>5
  <2> QED  BY <1>5, <1>6, <2>1 DEF CellRecord, Anonymous
<1>9. whole = [n \in DOMAIN list |-> whole[n]]
  BY <1>3, <1>5
<1>10. whole = Uninterrupted
  BY DEF whole, table, Uninterrupted, Whole
<1>11. [n \in DOMAIN list |-> Anonymous(list[n])] = whole
  BY <1>8, <1>9
<1>12. Chosen(list)
  BY <1>7, <1>10, <1>11 DEF Chosen
<1> QED  BY <1>3, <1>12 DEF list

UninterruptedSurvivors ==
  ElementsAt(Uninterrupted,
             {k \in DOMAIN Uninterrupted : VerdictOn(Uninterrupted[k]) = "survivor"})

\* Verdicts on the uninterrupted candidates leave the uninterrupted survivors.
LEMMA SurvivorsAsUninterrupted ==
  ASSUME NEW oos \in Seq(OosRecord), Chosen(CandidatesOf(oos)), Validated(oos)
  PROVE  LET won == Survivors(study.metrics, oos)
         IN  [k \in DOMAIN won |-> Anonymous(won[k].candidate)] = UninterruptedSurvivors
<1> DEFINE K == {k \in DOMAIN oos : oos[k].verdict = "survivor"}
           index == InOrder(K, {pair \in K \X K : pair[1] < pair[2]})
           size == Cardinality(K)
           won == Survivors(study.metrics, oos)
           U == Uninterrupted
<1>1. Len(oos) \in Nat /\ DOMAIN oos = 1..Len(oos)
      /\ \A k \in DOMAIN oos : oos[k].candidate \in CellRecord
  <2>1. \A k \in DOMAIN oos : oos[k] \in OosRecord
    OBVIOUS
  <2> QED  BY <2>1 DEF OosRecord
<1>2. DOMAIN U = DOMAIN oos /\ \A k \in DOMAIN oos : U[k] = Anonymous(oos[k].candidate)
  BY DEF Chosen, CandidatesOf
<1>3. \A k \in DOMAIN oos : VerdictOn(U[k]) = oos[k].verdict
  <2> SUFFICES ASSUME NEW k \in DOMAIN oos PROVE VerdictOn(U[k]) = oos[k].verdict
    OBVIOUS
  <2>1. U[k].unit = oos[k].candidate.unit /\ U[k].cell = oos[k].candidate.cell
    BY <1>1, <1>2 DEF Anonymous, CellRecord
  <2>2. oos[k].verdict = VerdictOn(oos[k].candidate)
    BY DEF Validated
  <2> HIDE DEF U
  <2> QED  BY <2>1, <2>2 DEF VerdictOn
<1>4. {k \in DOMAIN U : VerdictOn(U[k]) = "survivor"} = K
  BY <1>2, <1>3
<1>5. size \in Nat /\ \A n \in 1..size : index[n] \in DOMAIN oos
  <2>1. K \in SUBSET (1..Len(oos))
    BY <1>1
  <2>2. size \in Nat /\ \A n \in 1..size : index[n] \in K
    BY <1>1, <2>1, ElementsAtIndices
  <2> QED  BY <2>2
<1>6. ElementsAt(U, K) = [n \in 1..size |-> U[index[n]]]
  BY DEF ElementsAt
<1>7. ElementsAt(oos, K) = [n \in 1..size |-> oos[index[n]]]
  BY DEF ElementsAt
<1>8. DOMAIN won = 1..size /\ \A n \in 1..size : won[n].candidate = oos[index[n]].candidate
  <2>1. won = [n \in DOMAIN ElementsAt(oos, K) |->
                [candidate |-> ElementsAt(oos, K)[n].candidate,
                 kill |-> MaxDrawdownTrigger(
                   Metrics(study.metrics, ElementsAt(oos, K)[n].candidate.unit,
                                          ElementsAt(oos, K)[n].candidate.cell).oos.drawdown)]]
    BY DEF Survivors
  <2> HIDE DEF K, index, size, won
  <2> QED  BY <1>7, <2>1
<1> HIDE DEF K, index, size, won, U
<1>9. \A n \in 1..size : Anonymous(won[n].candidate) = U[index[n]]
  BY <1>2, <1>5, <1>8
<1>10. [n \in DOMAIN won |-> Anonymous(won[n].candidate)] = ElementsAt(U, K)
  BY <1>6, <1>8, <1>9
<1> QED  BY <1>4, <1>10 DEF won, U, UninterruptedSurvivors

-----------------------------------------------------------------------------
(* What the steps keep.                                                    *)

\* No step changes the driver or the metrics of a study.
LEMMA StudyStays == [StudyNext]_studyVars => study' = study
BY DEF StudyNext, StartTune, BeginUnit, RunCell, FinishUnit, SelectCandidates, StartOos, RunOos,
       FinishOos, WriteKillConditions, EditFrozenFiles, ProcessDies, ProcessDiesWriting,
       InProcess, studyVars

\* What depends on the study alone stays.
LEMMA SameStudy ==
  ASSUME study' = study
  PROVE  /\ Units' = Units /\ Uninterrupted' = Uninterrupted
         /\ UninterruptedSurvivors' = UninterruptedSurvivors
         /\ \A c : VerdictOn(c)' = VerdictOn(c)
<1>1. Units' = Units
  BY DEF Units, Variants
<1>2. \A c : VerdictOn(c)' = VerdictOn(c)
  BY DEF VerdictOn
<1>3. Uninterrupted' = Uninterrupted
  <2>1. Whole' = Whole
    BY <1>1 DEF Whole
  <2>2. Uninterrupted = AllTop5(study.metrics, Whole)
    BY DEF Uninterrupted, Whole
  <2>3. Uninterrupted' = AllTop5(study'.metrics, Whole')
    BY DEF Uninterrupted, Whole
  <2> QED  BY <2>1, <2>2, <2>3
<1>4. UninterruptedSurvivors' = UninterruptedSurvivors
  <2>1. {k \in DOMAIN Uninterrupted : VerdictOn(Uninterrupted[k]) = "survivor"}'
          = {k \in DOMAIN Uninterrupted : VerdictOn(Uninterrupted[k]) = "survivor"}
    BY <1>3 DEF VerdictOn
  <2> QED  BY <1>3, <2>1 DEF UninterruptedSurvivors
<1> QED  BY <1>1, <1>2, <1>3, <1>4

\* Rows are added under new numbers.
RowsGrow ==
  /\ rows \subseteq rows' /\ lastId' \in Nat /\ lastId <= lastId'
  /\ \A r \in rows' : r \in rows \/ r.id > lastId

\* What has its run keeps it while rows are only added.
LEMMA GrowingRows ==
  ASSUME StudyTypeInv, study' = study, RowsGrow
  PROVE  /\ \A c : HasRun(c) => HasRun(c)'
         /\ \A unit, cells : CellsOf(unit, cells) => CellsOf(unit, cells)'
         /\ \A done : DoneInOrder(done) => DoneInOrder(done)'
         /\ \A list : Chosen(list) => Chosen(list)'
         /\ \A oos \in Seq(OosRecord) : Validated(oos) => Validated(oos)'
<1>1. \A c : HasRun(c) => HasRun(c)'
  BY DEF HasRun, RowsGrow
<1>2. \A unit, cells : CellsOf(unit, cells) => CellsOf(unit, cells)'
  BY <1>1 DEF CellsOf
<1>3. \A done : DoneInOrder(done) => DoneInOrder(done)'
  BY <1>2, SameStudy DEF DoneInOrder
<1>4. \A list : Chosen(list) => Chosen(list)'
  BY <1>1, SameStudy DEF Chosen
<1>5. \A oos \in Seq(OosRecord) : Validated(oos) => Validated(oos)'
  <2> SUFFICES ASSUME NEW oos \in Seq(OosRecord), Validated(oos), NEW k \in DOMAIN oos
               PROVE  /\ oos[k].verdict = VerdictOn(oos[k].candidate)'
                      /\ oos[k].oosId <= lastId'
                      /\ \A r \in rows' : r.id = oos[k].oosId => r.config = "frozen"
    BY DEF Validated
  <2>1. oos[k].oosId \in Nat /\ oos[k].oosId <= lastId /\ lastId \in Nat
    <3>1. oos[k] \in OosRecord
      OBVIOUS
    <3> QED  BY <3>1 DEF OosRecord, Validated, StudyTypeInv
  <2>2. oos[k].verdict = VerdictOn(oos[k].candidate)'
    BY SameStudy DEF Validated
  <2>3. \A r \in rows' : r.id = oos[k].oosId => r.config = "frozen"
    BY <2>1 DEF Validated, RowsGrow
  <2>4. oos[k].oosId <= lastId'
    BY <2>1 DEF RowsGrow
  <2> QED  BY <2>2, <2>3, <2>4
<1> QED  BY <1>1, <1>2, <1>3, <1>4, <1>5

\* A run that is recorded.
LEMMA RunRecorded ==
  ASSUME StudyTypeInv, NumbersInv, work.pc # "idle",
         NEW unit \in UnitRecord, NEW cell \in Nat, NEW split \in {"tune", "oos"},
         Ran(unit, cell, split)
  PROVE  /\ lastId' = lastId + 1 /\ RowsGrow /\ NumbersInv' /\ rows' \subseteq RowRecord
         /\ \A r \in rows' : r \in rows \/ r = [id |-> lastId + 1, unit |-> unit, cell |-> cell,
                                              split |-> split, config |-> work.config]
         /\ [id |-> lastId + 1, unit |-> unit, cell |-> cell,
             split |-> split, config |-> work.config] \in rows'
<1> DEFINE new == [id |-> lastId + 1, unit |-> unit, cell |-> cell,
                   split |-> split, config |-> work.config]
<1>1. lastId' = lastId + 1 /\ rows' = rows \cup {new}
  BY DEF Ran
<1>2. lastId \in Nat /\ rows \subseteq RowRecord /\ work.config \in {"frozen", "edited"}
  BY DEF StudyTypeInv, WorkRecord
<1>3. new \in RowRecord /\ new.id = lastId + 1
  BY <1>2 DEF RowRecord
<1> HIDE DEF new
<1>4. \A r \in rows : r.id \in Nat /\ r.id <= lastId
  BY <1>2 DEF NumbersInv, RowRecord
<1>5. RowsGrow
  BY <1>1, <1>2, <1>3, <1>4 DEF RowsGrow
<1>6. NumbersInv'
  BY <1>1, <1>2, <1>3, <1>4 DEF NumbersInv
<1>7. rows' \subseteq RowRecord
  BY <1>1, <1>2, <1>3
<1>8. \A r \in rows' : r \in rows \/ r = new
  BY <1>1
<1>9. new \in rows'
  BY <1>1
<1> QED  BY <1>1, <1>5, <1>6, <1>7, <1>8, <1>9 DEF new

-----------------------------------------------------------------------------
(* The steps.                                                              *)

LEMMA StudyTypes ==
  ASSUME StudyTypeInv
  PROVE  /\ study.driver \in Drivers /\ study.metrics \in MetricTables
         /\ DriverFacts(study.driver)
         /\ work.pc \in {"idle", "tune", "cells", "oos"} /\ work.config \in {"frozen", "edited"}
         /\ work.done \in Seq(DoneRecord) /\ work.unit \in Nat /\ work.cells \in Seq(CellRecord)
         /\ work.candidates \in Seq(CellRecord) /\ work.oos \in Seq(OosRecord)
BY EveryDriver DEF StudyTypeInv, WorkRecord

\* Where no row changes.
LEMMA SameRows ==
  ASSUME StudyInv, study' = study, rows' = rows, lastId' = lastId
  PROVE  /\ RowsGrow /\ NumbersInv'
         /\ \A unit, cells : OnlyRunsOf(unit, cells)' = OnlyRunsOf(unit, cells)
<1>1. lastId \in Nat
  BY DEF StudyInv, StudyTypeInv
<1>2. RowsGrow
  BY <1>1 DEF RowsGrow
<1>3. NumbersInv'
  BY DEF StudyInv, NumbersInv
<1>4. \A unit, cells : OnlyRunsOf(unit, cells)' = OnlyRunsOf(unit, cells)
  BY DEF OnlyRunsOf, TuneRowsOf
<1> QED  BY <1>2, <1>3, <1>4

LEMMA IdleTyped == IdleWork \in WorkRecord /\ IdleWork.pc = "idle"
<1>1. <<>> \in Seq(DoneRecord) /\ <<>> \in Seq(CellRecord) /\ <<>> \in Seq(OosRecord)
  OBVIOUS
<1> QED  BY <1>1 DEF IdleWork, WorkRecord

\* A step that only ends the process, tears a file, or edits definitions between
\* two processes.
LEMMA BetweenProcesses ==
  ASSUME StudyInv, study' = study, rows' = rows, lastId' = lastId, checkpoint' = checkpoint,
         candidates' \in {candidates, Unreadable}, results' \in {results, Unreadable},
         \/ survivors' \in {survivors, Unreadable}
         \/ survivors' = Survivors(study.metrics, results) /\ results # Unreadable,
         work' = IdleWork \/ (work' = work /\ work.pc = "idle"),
         files' \in {"frozen", "edited"}
  PROVE  StudyInv'
<1>1. StudyTypeInv /\ ArtifactsInv /\ SweepInv /\ CleanInv
  BY DEF StudyInv
<1>2. work'.pc = "idle" /\ work' \in WorkRecord
  BY <1>1, IdleTyped DEF StudyTypeInv
<1>3. /\ RowsGrow /\ NumbersInv'
      /\ \A unit, cells : OnlyRunsOf(unit, cells)' = OnlyRunsOf(unit, cells)
  BY SameRows
<1>4. StudyTypeInv'
  BY <1>1, <1>2 DEF StudyTypeInv
<1>5. FrozenInv'
  BY <1>2 DEF FrozenInv
<1>6. SweepInv'
  BY <1>1, <1>2, <1>3, GrowingRows DEF SweepInv
<1>7. CleanInv'
  BY <1>1, <1>2, <1>3, SameStudy DEF CleanInv
<1>8. results # Unreadable => results \in Seq(OosRecord)
  BY <1>1 DEF StudyTypeInv
<1>9. candidates' # Unreadable => Chosen(candidates)'
  <2>1. PICK list : list = candidates
    OBVIOUS
  <2>2. list # Unreadable => Chosen(list)'
    BY <1>1, <1>3, <2>1, GrowingRows DEF ArtifactsInv
  <2> QED  BY <2>1, <2>2
<1>10. results' # Unreadable => Chosen(CandidatesOf(results))' /\ Validated(results)'
  <2>1. PICK oos : oos = results
    OBVIOUS
  <2>2. oos # Unreadable => Chosen(CandidatesOf(oos))' /\ Validated(oos)'
    BY <1>1, <1>3, <1>8, <2>1, GrowingRows DEF ArtifactsInv
  <2> QED  BY <2>1, <2>2
<1>11. survivors' # Unreadable =>
         [k \in DOMAIN survivors' |-> Anonymous(survivors'[k].candidate)] = UninterruptedSurvivors
  <2>1. CASE survivors' = survivors
    BY <1>1, <2>1 DEF ArtifactsInv, UninterruptedSurvivors
  <2>2. CASE survivors' = Survivors(study.metrics, results) /\ results # Unreadable
    BY <1>1, <1>8, <2>2, SurvivorsAsUninterrupted DEF ArtifactsInv
  <2>3. CASE survivors' = Unreadable
    BY <2>3
  <2> QED  BY <2>1, <2>2, <2>3
<1>12. ArtifactsInv'
  BY <1>2, <1>9, <1>10, <1>11, SameStudy DEF ArtifactsInv, UninterruptedSurvivors
<1> QED  BY <1>3, <1>4, <1>5, <1>6, <1>7, <1>12 DEF StudyInv

\* The artifacts of a step that writes none.
LEMMA ArtifactsKept ==
  ASSUME StudyInv, study' = study, RowsGrow, candidates' = candidates, results' = results,
         survivors' = survivors
  PROVE  /\ candidates' # Unreadable => Chosen(candidates)'
         /\ results' # Unreadable => Chosen(CandidatesOf(results))' /\ Validated(results)'
         /\ survivors' # Unreadable =>
              [k \in DOMAIN survivors' |-> Anonymous(survivors'[k].candidate)] =
                UninterruptedSurvivors'
<1>1. StudyTypeInv /\ ArtifactsInv
  BY DEF StudyInv
<1>2. results # Unreadable => results \in Seq(OosRecord)
  BY <1>1 DEF StudyTypeInv
<1>3. CandidatesOf(results)' = CandidatesOf(results)
  BY DEF CandidatesOf
<1>4. UninterruptedSurvivors' = UninterruptedSurvivors
  BY SameStudy
<1>5. candidates' # Unreadable => Chosen(candidates)'
  BY <1>1, GrowingRows DEF ArtifactsInv
<1>6. results' # Unreadable => Chosen(CandidatesOf(results))' /\ Validated(results)'
  BY <1>1, <1>2, <1>3, GrowingRows DEF ArtifactsInv
<1> QED  BY <1>1, <1>4, <1>5, <1>6 DEF ArtifactsInv, UninterruptedSurvivors

LEMMA StartTuneStep ==
  ASSUME StudyInv, study' = study, StartTune
  PROVE  StudyInv'
<1>1. StudyTypeInv /\ ArtifactsInv /\ SweepInv /\ CleanInv
  BY DEF StudyInv
<1>2. /\ rows' = rows /\ lastId' = lastId /\ checkpoint' = checkpoint /\ files' = files
      /\ candidates' = candidates /\ results' = results /\ survivors' = survivors
  BY DEF StartTune, FilesWritten
<1>3. /\ work' \in WorkRecord /\ work'.pc = "tune" /\ work'.config = files
      /\ work'.done = checkpoint /\ work'.oos = <<>>
  <2>1. work' = [IdleWork EXCEPT !.pc = "tune", !.config = files, !.done = checkpoint]
    BY DEF StartTune
  <2>2. files \in {"frozen", "edited"} /\ checkpoint \in Seq(DoneRecord)
    BY <1>1 DEF StudyTypeInv
  <2>3. IdleWork.oos = <<>>
    BY DEF IdleWork
  <2> QED  BY <2>1, <2>2, <2>3, IdleTyped DEF WorkRecord
<1>4. /\ RowsGrow /\ NumbersInv'
      /\ \A unit, cells : OnlyRunsOf(unit, cells)' = OnlyRunsOf(unit, cells)
  BY <1>2, SameRows
<1>5. StudyTypeInv'
  BY <1>1, <1>2, <1>3 DEF StudyTypeInv
<1>6. FrozenInv'
  BY <1>2, <1>3 DEF FrozenInv, StartTune, Passes
<1>7. SweepInv'
  BY <1>1, <1>2, <1>3, <1>4, GrowingRows DEF SweepInv
<1>8. CleanInv'
  BY <1>1, <1>2, <1>3, <1>4, SameStudy DEF CleanInv
<1>9. ArtifactsInv'
  BY <1>2, <1>3, <1>4, ArtifactsKept DEF ArtifactsInv, UninterruptedSurvivors
<1> QED  BY <1>4, <1>5, <1>6, <1>7, <1>8, <1>9 DEF StudyInv

\* The next unit is the first that is not done.
LEMMA NextUnitIs ==
  ASSUME study.driver \in Drivers, work.done \in Seq(DoneRecord), DoneInOrder(work.done), UnitsLeft
  PROVE  NextUnit = Len(work.done) + 1 /\ NextUnit \in DOMAIN Units
<1> DEFINE next == Len(work.done) + 1
           Is(k) == /\ \A j \in 1..(k - 1) : \E d \in DOMAIN work.done : work.done[d].unit = Units[j]
                    /\ \A d \in DOMAIN work.done : work.done[d].unit # Units[k]
<1>1. /\ Len(Units) \in Nat /\ DOMAIN Units = 1..Len(Units)
      /\ \A j, k \in DOMAIN Units : Units[j] = Units[k] => j = k
  BY UnitsInOrder
<1>2. /\ Len(work.done) \in Nat /\ DOMAIN work.done = 1..Len(work.done)
      /\ \A d \in DOMAIN work.done : work.done[d].unit = Units[d]
  BY DEF DoneInOrder
<1>3. Len(work.done) < Len(Units)
  BY DEF UnitsLeft
<1>4. next \in DOMAIN Units /\ \A d \in DOMAIN work.done : d \in DOMAIN Units /\ d # next
  BY <1>1, <1>2, <1>3
<1>5. Is(next)
  BY <1>1, <1>2, <1>4
<1>6. \A k \in DOMAIN Units : Is(k) => k = next
  <2> SUFFICES ASSUME NEW k \in DOMAIN Units, Is(k) PROVE k = next
    OBVIOUS
  <2>1. k \in Nat /\ next \in Nat
    BY <1>1, <1>2
  <2>2. ~(k < next)
    <3> SUFFICES ASSUME k < next PROVE FALSE
      OBVIOUS
    <3>1. k \in DOMAIN work.done
      BY <1>1, <1>2
    <3> QED  BY <1>2, <3>1
  <2>3. ~(next < k)
    <3> SUFFICES ASSUME next < k PROVE FALSE
      OBVIOUS
    <3>1. next \in 1..(k - 1)
      BY <1>2, <2>1
    <3>2. PICK d \in DOMAIN work.done : work.done[d].unit = Units[next]
      BY <3>1
    <3> QED  BY <1>1, <1>2, <1>4, <3>2
  <2> QED  BY <2>1, <2>2, <2>3
<1>7. NextUnit = CHOOSE k \in DOMAIN Units : Is(k)
  BY DEF NextUnit
<1> HIDE DEF Is
<1> QED  BY <1>4, <1>5, <1>6, <1>7

\* Removing the runs of the unit that is next touches nothing that counts.
LEMMA OrphansCleaned ==
  ASSUME StudyInv, study' = study, work.pc = "tune", UnitsLeft, lastId' = lastId,
         rows' = rows \ Orphans(Units[NextUnit]), checkpoint' = checkpoint,
         candidates' = candidates, results' = results, survivors' = survivors
  PROVE  /\ rows' \subseteq RowRecord /\ NumbersInv'
         /\ DoneInOrder(checkpoint)' /\ DoneInOrder(work.done)
         /\ \A done : done = work.done => DoneInOrder(done)'
         /\ study.driver.cleans =>
              /\ candidates' = Unreadable /\ results' = Unreadable
              /\ \A k \in DOMAIN checkpoint : OnlyRunsOf(Units[k], checkpoint[k].results)'
              /\ \A unit : unit = Units[NextUnit] => OnlyRunsOf(unit, <<>>)'
         /\ candidates' # Unreadable => Chosen(candidates)'
         /\ results' # Unreadable => Chosen(CandidatesOf(results))' /\ Validated(results)'
         /\ survivors' # Unreadable =>
              [k \in DOMAIN survivors' |-> Anonymous(survivors'[k].candidate)] =
                UninterruptedSurvivors'
<1>1. StudyTypeInv /\ NumbersInv /\ SweepInv /\ CleanInv /\ ArtifactsInv
  BY DEF StudyInv
<1>2. rows' \subseteq RowRecord /\ NumbersInv'
  BY <1>1 DEF StudyTypeInv, NumbersInv
<1>3. DoneInOrder(checkpoint) /\ DoneInOrder(work.done)
  BY <1>1 DEF SweepInv
<1>4. survivors' # Unreadable =>
        [k \in DOMAIN survivors' |-> Anonymous(survivors'[k].candidate)] = UninterruptedSurvivors'
  BY <1>1, SameStudy DEF ArtifactsInv, UninterruptedSurvivors
<1>5. CASE ~study.driver.cleans
  <2>1. rows' = rows
    BY <1>5 DEF Orphans
  <2>2. RowsGrow
    BY <2>1, SameRows
  <2>3. DoneInOrder(checkpoint)' /\ \A done : done = work.done => DoneInOrder(done)'
    BY <1>1, <1>3, <2>2, GrowingRows
  <2> QED  BY <1>2, <1>3, <1>5, <2>2, <2>3, ArtifactsKept
<1>6. CASE study.driver.cleans
  <2>1. work.done = checkpoint
    BY <1>1, <1>6, StudyTypes DEF SweepInv, DriverFacts
  <2>2. NextUnit = Len(checkpoint) + 1 /\ NextUnit \in DOMAIN Units
    BY <1>1, <1>3, <2>1, StudyTypes, NextUnitIs
  <2>3. Len(checkpoint) \in Nat /\ DOMAIN checkpoint = 1..Len(checkpoint)
    BY <1>1 DEF StudyTypeInv
  <2>4. Len(checkpoint) < Len(Units) /\ Len(Units) \in Nat
    BY <1>1, <2>1, StudyTypes, UnitsInOrder DEF UnitsLeft
  <2>5. candidates = Unreadable /\ results = Unreadable
    BY <1>1, <1>6, <2>3, <2>4 DEF CleanInv
  <2>6. \A k \in DOMAIN checkpoint : Units[k] # Units[NextUnit]
    <3>1. \A k \in DOMAIN checkpoint : k \in DOMAIN Units /\ k # NextUnit
      BY <1>1, <2>2, <2>3, <2>4, StudyTypes, UnitsInOrder
    <3> QED  BY <1>1, <2>2, <3>1, StudyTypes, UnitsInOrder
  <2>7. rows' \subseteq rows /\ \A r \in rows : r.unit # Units[NextUnit] => r \in rows'
    BY DEF Orphans
  <2>8. \A c : c.unit # Units[NextUnit] /\ HasRun(c) => HasRun(c)'
    BY <2>7 DEF HasRun
  <2>9. DoneInOrder(checkpoint)'
    <3>1. \A k \in DOMAIN checkpoint : CellsOf(Units[k], checkpoint[k].results)'
      BY <1>3, <2>6, <2>8, SameStudy DEF DoneInOrder, CellsOf
    <3> QED  BY <1>3, <3>1, SameStudy DEF DoneInOrder
  <2>10. \A done : done = work.done => DoneInOrder(done)'
    BY <2>1, <2>9
  <2>11. \A k \in DOMAIN checkpoint : OnlyRunsOf(Units[k], checkpoint[k].results)'
    BY <1>1, <1>6, <2>7, SameStudy DEF CleanInv, OnlyRunsOf, TuneRowsOf
  <2>12. \A unit : unit = Units[NextUnit] => OnlyRunsOf(unit, <<>>)'
    <3>1. \A r \in rows' : r.unit # Units[NextUnit]
      BY <1>6 DEF Orphans
    <3> QED  BY <3>1 DEF OnlyRunsOf, TuneRowsOf
  <2> QED  BY <1>2, <1>3, <1>4, <1>6, <2>5, <2>9, <2>10, <2>11, <2>12
<1> QED  BY <1>5, <1>6

LEMMA BeginUnitStep ==
  ASSUME StudyInv, study' = study, BeginUnit
  PROVE  StudyInv'
<1>1. StudyTypeInv /\ FrozenInv /\ SweepInv /\ CleanInv /\ work.pc = "tune"
  BY DEF StudyInv, BeginUnit
<1>2. /\ rows' = rows \ Orphans(Units[NextUnit]) /\ lastId' = lastId /\ checkpoint' = checkpoint
      /\ files' = files /\ UnitsLeft
      /\ candidates' = candidates /\ results' = results /\ survivors' = survivors
  BY DEF BeginUnit, FilesWritten, InProcess
<1>3. DoneInOrder(work.done)
  BY <1>1 DEF SweepInv
<1>4. NextUnit = Len(work.done) + 1 /\ NextUnit \in DOMAIN Units
  BY <1>1, <1>2, <1>3, StudyTypes, NextUnitIs
<1>5. Len(Units) \in Nat /\ DOMAIN Units = 1..Len(Units) /\ NextUnit \in Nat /\ NextUnit <= Len(Units)
  BY <1>1, <1>4, StudyTypes, UnitsInOrder
<1> DEFINE Ends == work' = IdleWork
           Goes == /\ work' = [work EXCEPT !.pc = "cells", !.unit = NextUnit, !.cells = <<>>]
                   /\ Passes("unit")
<1>6. Ends \/ Goes
  BY DEF BeginUnit
<1>7. work' \in WorkRecord
  <2>1. work \in WorkRecord /\ <<>> \in Seq(CellRecord)
    BY <1>1 DEF StudyTypeInv
  <2>2. Goes => work' \in WorkRecord
    BY <1>5, <2>1 DEF WorkRecord
  <2> QED  BY <1>6, <2>2, IdleTyped
<1>8. Goes => /\ work'.pc = "cells" /\ work'.unit = NextUnit /\ work'.cells = <<>>
              /\ work'.done = work.done /\ work'.config = work.config /\ work'.oos = <<>>
  <2>1. work.oos = <<>> /\ work \in WorkRecord
    BY <1>1 DEF StudyInv, StudyTypeInv, ArtifactsInv
  <2> QED  BY <2>1 DEF WorkRecord
<1>9. Ends => work'.pc = "idle"
  BY IdleTyped
<1>10. /\ rows' \subseteq RowRecord /\ NumbersInv'
       /\ DoneInOrder(checkpoint)' /\ \A done : done = work.done => DoneInOrder(done)'
       /\ study.driver.cleans =>
            /\ candidates' = Unreadable /\ results' = Unreadable
            /\ \A k \in DOMAIN checkpoint : OnlyRunsOf(Units[k], checkpoint[k].results)'
            /\ \A unit : unit = Units[NextUnit] => OnlyRunsOf(unit, <<>>)'
       /\ candidates' # Unreadable => Chosen(candidates)'
       /\ results' # Unreadable => Chosen(CandidatesOf(results))' /\ Validated(results)'
       /\ survivors' # Unreadable =>
            [k \in DOMAIN survivors' |-> Anonymous(survivors'[k].candidate)] =
              UninterruptedSurvivors'
  BY <1>1, <1>2, OrphansCleaned
<1>11. StudyTypeInv'
  BY <1>1, <1>2, <1>7, <1>10 DEF StudyTypeInv
<1>12. FrozenInv'
  <2>1. Goes => files = "frozen"
    BY <1>1, StudyTypes DEF Passes, FrozenInv, DriverFacts
  <2>2. work.config = files /\ ("start" \in study.driver.gates => files = "frozen")
    BY <1>1 DEF FrozenInv
  <2> HIDE DEF Goes, Ends
  <2> QED  BY <1>2, <1>6, <1>8, <1>9, <2>1, <2>2 DEF FrozenInv
<1> HIDE DEF Goes, Ends
<1>13. SweepInv'
  <2>1. ~study'.driver.resumes => checkpoint' = <<>>
    BY <1>1, <1>2 DEF SweepInv
  <2>2. Goes => /\ DoneInOrder(work.done)' /\ work'.unit = Len(work'.done) + 1
                /\ work'.unit <= Len(Units)'
                /\ Len(work'.cells) <= MaxCells /\ CellsOf(Units[work.unit], work.cells)'
    <3>1. Goes => DoneInOrder(work.done)'
      BY <1>8, <1>10
    <3>2. Goes => work'.unit = Len(work'.done) + 1 /\ work'.unit <= Len(Units)'
      BY <1>4, <1>5, <1>8, SameStudy
    <3>3. Goes => Len(work'.cells) <= MaxCells
      BY <1>8, StudyAssumption
    <3>4. Goes => CellsOf(Units[work.unit], work.cells)'
      BY <1>8 DEF CellsOf
    <3> QED  BY <3>1, <3>2, <3>3, <3>4
  <2>3. Goes => (study'.driver.resumes => work'.done = checkpoint')
    BY <1>1, <1>2, <1>8 DEF SweepInv
  <2> QED  BY <1>6, <1>8, <1>9, <1>10, <2>1, <2>2, <2>3 DEF SweepInv
<1>14. CleanInv'
  <2> SUFFICES ASSUME study'.driver.cleans
               PROVE  /\ \A k \in DOMAIN checkpoint' : OnlyRunsOf(Units[k], checkpoint[k].results)'
                      /\ work'.pc = "cells" => OnlyRunsOf(Units[work.unit], work.cells)'
                      /\ candidates' = Unreadable /\ results' = Unreadable /\ work'.pc # "oos"
    BY DEF CleanInv
  <2>1. /\ candidates' = Unreadable /\ results' = Unreadable
        /\ \A k \in DOMAIN checkpoint : OnlyRunsOf(Units[k], checkpoint[k].results)'
    BY <1>10
  <2>2. \A k \in DOMAIN checkpoint' : OnlyRunsOf(Units[k], checkpoint[k].results)'
    BY <1>2, <2>1
  <2>3. work'.pc = "cells" => OnlyRunsOf(Units[work.unit], work.cells)'
    <3>1. Units' = Units
      BY SameStudy
    <3>2. PICK unit : unit = Units[NextUnit]
      OBVIOUS
    <3>3. OnlyRunsOf(unit, <<>>)'
      BY <1>10, <3>2
    <3>4. Goes => Units'[work'.unit] = unit /\ work'.cells = <<>>
      BY <1>8, <3>1, <3>2
    <3> QED  BY <1>6, <1>9, <3>3, <3>4
  <2> QED  BY <1>6, <1>8, <1>9, <2>1, <2>2, <2>3
<1>15. ArtifactsInv'
  BY <1>6, <1>8, <1>9, <1>10 DEF ArtifactsInv, UninterruptedSurvivors
<1> QED  BY <1>10, <1>11, <1>12, <1>13, <1>14, <1>15 DEF StudyInv

\* A recorded run that is not a tune run of a unit leaves the unit's alone.
LEMMA OtherRuns ==
  ASSUME NEW new, \A r \in rows' : r \in rows \/ r = new,
         NEW unit, NEW cells, ~(new.unit = unit /\ new.split = "tune"), OnlyRunsOf(unit, cells)
  PROVE  OnlyRunsOf(unit, cells)'
<1>1. \A r \in TuneRowsOf(unit)' : r \in TuneRowsOf(unit)
  BY DEF TuneRowsOf
<1> QED  BY <1>1 DEF OnlyRunsOf

LEMMA RunCellStep ==
  ASSUME StudyInv, study' = study, RunCell
  PROVE  StudyInv'
<1>0. PICK unit, cell, new, row :
        /\ unit = Units[work.unit] /\ cell = Len(work.cells) + 1
        /\ new = [id |-> lastId + 1, unit |-> unit, cell |-> cell]
        /\ row = [id |-> lastId + 1, unit |-> unit, cell |-> cell,
                  split |-> "tune", config |-> work.config]
  OBVIOUS
<1>1. /\ StudyTypeInv /\ NumbersInv /\ FrozenInv /\ SweepInv /\ CleanInv
      /\ work.pc = "cells" /\ Len(work.cells) < MaxCells
  BY DEF StudyInv, RunCell
<1>2. /\ Ran(unit, cell, "tune") /\ checkpoint' = checkpoint /\ files' = files
      /\ candidates' = candidates /\ results' = results /\ survivors' = survivors
      /\ work' = [work EXCEPT !.cells = Append(@, new)]
  BY <1>0 DEF RunCell, FilesWritten, InProcess
<1>3. /\ DoneInOrder(work.done) /\ (study.driver.resumes => work.done = checkpoint)
      /\ work.unit = Len(work.done) + 1 /\ work.unit <= Len(Units)
      /\ CellsOf(unit, work.cells) /\ DoneInOrder(checkpoint)
  BY <1>0, <1>1 DEF SweepInv
<1>4. /\ Len(work.done) \in Nat /\ work.cells \in Seq(CellRecord) /\ Len(work.cells) \in Nat
      /\ work.done \in Seq(DoneRecord) /\ lastId \in Nat /\ MaxCells \in Nat
      /\ DOMAIN work.cells = 1..Len(work.cells)
  <2>1. work.cells \in Seq(CellRecord) /\ work.done \in Seq(DoneRecord)
    BY <1>1, StudyTypes
  <2> QED  BY <1>1, <2>1, StudyAssumption DEF StudyTypeInv
<1>5. work.unit \in DOMAIN Units /\ unit \in UnitRecord
  <2>1. /\ Len(Units) \in Nat /\ DOMAIN Units = 1..Len(Units)
        /\ \A k \in DOMAIN Units :
             /\ Units[k] = [group |-> Units[k].group, variant |-> Units[k].variant]
             /\ Units[k].group \in 1..MaxGroups /\ Units[k].variant \in 1..MaxVariants
    BY <1>1, StudyTypes, UnitsInOrder
  <2>2. work.unit \in DOMAIN Units
    BY <1>3, <1>4, <2>1
  <2>3. Units[work.unit].group \in Nat /\ Units[work.unit].variant \in Nat
    BY <2>1, <2>2, StudyAssumption
  <2> QED  BY <1>0, <2>1, <2>2, <2>3 DEF UnitRecord
<1>6. cell \in Nat /\ new \in CellRecord
  BY <1>0, <1>4, <1>5 DEF CellRecord
<1>7. /\ lastId' = lastId + 1 /\ RowsGrow /\ NumbersInv' /\ rows' \subseteq RowRecord
      /\ \A r \in rows' : r \in rows \/ r = row
      /\ row \in rows'
  BY <1>0, <1>1, <1>2, <1>5, <1>6, RunRecorded
<1>8. /\ work' \in WorkRecord /\ work'.pc = "cells" /\ work'.done = work.done
      /\ work'.unit = work.unit /\ work'.config = work.config /\ work'.oos = <<>>
      /\ work'.cells = Append(work.cells, new)
  <2>1. Append(work.cells, new) \in Seq(CellRecord)
    BY <1>4, <1>6
  <2>2. work \in WorkRecord /\ work.oos = <<>>
    BY <1>1 DEF StudyInv, StudyTypeInv, ArtifactsInv
  <2> QED  BY <1>1, <1>2, <2>1, <2>2 DEF WorkRecord
<1>9. work.config = files /\ files = "frozen"
  BY <1>1 DEF FrozenInv
<1>10. new.id = lastId + 1 /\ new.unit = unit /\ new.cell = cell
       /\ row.id = lastId + 1 /\ row.unit = unit /\ row.cell = cell
       /\ row.split = "tune" /\ row.config = "frozen"
  BY <1>0, <1>9
<1>11. HasRun(new)'
  BY <1>7, <1>10 DEF HasRun
<1>12. /\ Len(work'.cells) = Len(work.cells) + 1
       /\ DOMAIN work'.cells = 1..(Len(work.cells) + 1)
       /\ work'.cells[cell] = new
       /\ \A c \in DOMAIN work.cells : work'.cells[c] = work.cells[c]
  BY <1>0, <1>4, <1>8
<1>13. \A c \in DOMAIN work'.cells : c \in DOMAIN work.cells \/ c = cell
  BY <1>0, <1>4, <1>12
<1>14. Units' = Units
  BY SameStudy
<1>15. CellsOf(unit, work.cells)'
  <2>1. \A x : HasRun(x) => HasRun(x)'
    BY <1>1, <1>7, GrowingRows
  <2>2. \A c \in DOMAIN work.cells :
          work.cells[c].unit = unit /\ work.cells[c].cell = c /\ HasRun(work.cells[c])
    BY <1>3 DEF CellsOf
  <2>3. ASSUME NEW c \in DOMAIN work'.cells
        PROVE  \E x : /\ x = work'.cells[c] /\ HasRun(x)'
                      /\ x.unit = unit /\ x.cell = c
    <3>1. CASE c \in DOMAIN work.cells
      <4>1. PICK x : x = work.cells[c]
        OBVIOUS
      <4>2. HasRun(x)' /\ x.unit = unit /\ x.cell = c
        BY <2>1, <2>2, <3>1, <4>1
      <4>3. x = work'.cells[c]
        BY <1>12, <3>1, <4>1
      <4> QED  BY <4>2, <4>3
    <3>2. CASE c = cell
      BY <1>10, <1>11, <1>12, <3>2
    <3> QED  BY <1>13, <3>1, <3>2
  <2> QED  BY <2>3 DEF CellsOf
<1>16. StudyTypeInv'
  BY <1>1, <1>2, <1>7, <1>8 DEF StudyTypeInv
<1>17. FrozenInv'
  BY <1>1, <1>2, <1>8 DEF FrozenInv
<1>18. SweepInv'
  <2>0. \A done : DoneInOrder(done) => DoneInOrder(done)'
    BY <1>1, <1>7, GrowingRows
  <2>1. DoneInOrder(checkpoint)' /\ DoneInOrder(work.done)'
    BY <1>2, <1>3, <1>8, <2>0
  <2>2. Len(work'.cells) <= MaxCells
    BY <1>1, <1>4, <1>12
  <2>3. CellsOf(Units[work.unit], work.cells)'
    BY <1>0, <1>8, <1>14, <1>15
  <2>4. ~study.driver.resumes => checkpoint = <<>>
    BY <1>1 DEF SweepInv
  <2> QED  BY <1>1, <1>2, <1>3, <1>8, <1>14, <2>1, <2>2, <2>3, <2>4 DEF SweepInv
<1>19. CleanInv'
  <2> SUFFICES ASSUME study'.driver.cleans
               PROVE  /\ \A k \in DOMAIN checkpoint' : OnlyRunsOf(Units[k], checkpoint[k].results)'
                      /\ OnlyRunsOf(Units[work.unit], work.cells)'
                      /\ candidates' # Unreadable \/ results' # Unreadable =>
                           Len(checkpoint') = Len(Units')
    BY <1>8 DEF CleanInv
  <2>1. study.driver.cleans /\ work.done = checkpoint
    <3>1. DriverFacts(study.driver) /\ study.driver.cleans
      BY <1>1, StudyTypes
    <3> QED  BY <1>3, <3>1 DEF DriverFacts
  <2>2. \A k \in DOMAIN checkpoint : Units[k] # unit
    <3>1. \A k \in DOMAIN checkpoint : k \in DOMAIN Units /\ k # work.unit
      <4>1. DOMAIN checkpoint = 1..Len(checkpoint) /\ DOMAIN Units = 1..Len(Units) /\ Len(Units) \in Nat
        BY <1>1, <1>4, <2>1, StudyTypes, UnitsInOrder
      <4> QED  BY <1>3, <1>4, <2>1, <4>1
    <3> QED  BY <1>0, <1>1, <1>5, <3>1, StudyTypes, UnitsInOrder
  <2>3. \A k \in DOMAIN checkpoint : OnlyRunsOf(Units[k], checkpoint[k].results)'
    <3>1. \A u, cells : u # unit /\ OnlyRunsOf(u, cells) => OnlyRunsOf(u, cells)'
      BY <1>7, <1>10, OtherRuns
    <3>2. \A k \in DOMAIN checkpoint : OnlyRunsOf(Units[k], checkpoint[k].results)
      BY <1>1, <2>1 DEF CleanInv
    <3> QED  BY <1>2, <1>14, <2>2, <3>1, <3>2
  <2>4. OnlyRunsOf(Units[work.unit], work.cells)'
    <3>1. OnlyRunsOf(unit, work.cells)
      BY <1>0, <1>1, <2>1 DEF CleanInv
    <3>2. \A r \in rows' : r.unit = unit /\ r.split = "tune" =>
            \E c \in DOMAIN work'.cells : r.id = work'.cells[c].id
      <4> SUFFICES ASSUME NEW r \in rows', r.unit = unit, r.split = "tune"
                   PROVE  \E c \in DOMAIN work'.cells : r.id = work'.cells[c].id
        OBVIOUS
      <4>1. CASE r \in rows
        <5>1. PICK c \in DOMAIN work.cells : r.id = work.cells[c].id
          BY <3>1, <4>1 DEF OnlyRunsOf, TuneRowsOf
        <5> QED  BY <1>4, <1>12, <5>1
      <4>2. CASE r = row
        BY <1>0, <1>4, <1>10, <1>12, <4>2
      <4> QED  BY <1>7, <4>1, <4>2
    <3>3. Units'[work'.unit] = unit
      BY <1>0, <1>8, <1>14
    <3> QED  BY <3>2, <3>3 DEF OnlyRunsOf, TuneRowsOf
  <2>5. candidates' # Unreadable \/ results' # Unreadable => Len(checkpoint') = Len(Units')
    BY <1>1, <1>2, <1>14, <2>1 DEF CleanInv
  <2> QED  BY <1>2, <2>3, <2>4, <2>5
<1>20. ArtifactsInv'
  BY <1>2, <1>7, <1>8, ArtifactsKept DEF ArtifactsInv, UninterruptedSurvivors
<1> QED  BY <1>7, <1>16, <1>17, <1>18, <1>19, <1>20 DEF StudyInv

LEMMA FinishUnitStep ==
  ASSUME StudyInv, study' = study, FinishUnit
  PROVE  StudyInv'
<1>0. PICK unit, last, done :
        /\ unit = Units[work.unit] /\ last = [unit |-> unit, results |-> work.cells]
        /\ done = Append(work.done, last)
  OBVIOUS
<1>1. /\ StudyTypeInv /\ NumbersInv /\ FrozenInv /\ SweepInv /\ CleanInv
      /\ work.pc = "cells" /\ Len(work.cells) = MaxCells
  BY DEF StudyInv, FinishUnit
<1>2. /\ rows' = rows /\ lastId' = lastId /\ files' = files
      /\ checkpoint' = (IF study.driver.resumes THEN done ELSE checkpoint)
      /\ candidates' = candidates /\ results' = results /\ survivors' = survivors
      /\ work' = [work EXCEPT !.pc = "tune", !.done = done]
  BY <1>0 DEF FinishUnit, FilesWritten, InProcess
<1>3. /\ DoneInOrder(work.done) /\ (study.driver.resumes => work.done = checkpoint)
      /\ work.unit = Len(work.done) + 1 /\ work.unit <= Len(Units)
      /\ CellsOf(unit, work.cells) /\ DoneInOrder(checkpoint)
      /\ (~study.driver.resumes => checkpoint = <<>>)
  BY <1>0, <1>1 DEF SweepInv
<1>4. /\ work.cells \in Seq(CellRecord) /\ work.done \in Seq(DoneRecord)
      /\ Len(work.done) \in Nat /\ DOMAIN work.done = 1..Len(work.done)
  <2>1. work.cells \in Seq(CellRecord) /\ work.done \in Seq(DoneRecord)
    BY <1>1, StudyTypes
  <2> QED  BY <2>1
<1>5. unit \in UnitRecord
  <2>1. /\ Len(Units) \in Nat /\ DOMAIN Units = 1..Len(Units)
        /\ \A k \in DOMAIN Units :
             /\ Units[k] = [group |-> Units[k].group, variant |-> Units[k].variant]
             /\ Units[k].group \in 1..MaxGroups /\ Units[k].variant \in 1..MaxVariants
    BY <1>1, StudyTypes, UnitsInOrder
  <2>2. work.unit \in DOMAIN Units
    BY <1>3, <1>4, <2>1
  <2>3. Units[work.unit].group \in Nat /\ Units[work.unit].variant \in Nat
    BY <2>1, <2>2, StudyAssumption
  <2> QED  BY <1>0, <2>1, <2>2, <2>3 DEF UnitRecord
<1>6. /\ done \in Seq(DoneRecord) /\ Len(done) = Len(work.done) + 1
      /\ DOMAIN done = 1..(Len(work.done) + 1)
      /\ done[Len(work.done) + 1].unit = unit /\ done[Len(work.done) + 1].results = work.cells
      /\ \A k \in DOMAIN work.done : done[k] = work.done[k]
  <2>1. last \in DoneRecord /\ last.unit = unit /\ last.results = work.cells
    BY <1>0, <1>4, <1>5 DEF DoneRecord
  <2> QED  BY <1>0, <1>4, <2>1
<1>7. \A k \in DOMAIN done : k \in DOMAIN work.done \/ k = Len(work.done) + 1
  BY <1>4, <1>6
<1>8. DoneInOrder(done)
  <2>1. Len(done) <= Len(Units)
    BY <1>3, <1>6
  <2>2. ASSUME NEW k \in DOMAIN done
        PROVE  /\ done[k].unit = Units[k] /\ Len(done[k].results) = MaxCells
               /\ CellsOf(Units[k], done[k].results)
    <3>1. CASE k \in DOMAIN work.done
      BY <1>3, <1>6, <3>1 DEF DoneInOrder
    <3>2. CASE k = Len(work.done) + 1
      BY <1>0, <1>1, <1>3, <1>6, <3>2
    <3> QED  BY <1>7, <3>1, <3>2
  <2> QED  BY <2>1, <2>2 DEF DoneInOrder
<1>9. /\ RowsGrow /\ NumbersInv'
      /\ \A u, cells : OnlyRunsOf(u, cells)' = OnlyRunsOf(u, cells)
  BY <1>2, SameRows
<1>10. DoneInOrder(done)' /\ DoneInOrder(checkpoint)'
  <2>1. \A d : DoneInOrder(d) => DoneInOrder(d)'
    BY <1>1, <1>9, GrowingRows
  <2>2. PICK d : d = checkpoint
    OBVIOUS
  <2>3. DoneInOrder(d)' /\ DoneInOrder(done)'
    BY <1>3, <1>8, <2>1, <2>2
  <2>4. checkpoint' = d \/ checkpoint' = done
    BY <1>2, <2>2
  <2> QED  BY <2>3, <2>4
<1>11. /\ work' \in WorkRecord /\ work'.pc = "tune" /\ work'.done = done
       /\ work'.config = work.config /\ work'.oos = <<>>
  <2>1. work \in WorkRecord /\ work.oos = <<>>
    BY <1>1 DEF StudyInv, StudyTypeInv, ArtifactsInv
  <2> QED  BY <1>2, <1>6, <2>1 DEF WorkRecord
<1>12. StudyTypeInv'
  BY <1>1, <1>2, <1>6, <1>11 DEF StudyTypeInv
<1>13. FrozenInv'
  BY <1>1, <1>2, <1>11 DEF FrozenInv
<1>14. SweepInv'
  <2>1. work'.done = done /\ DoneInOrder(work.done)'
    BY <1>10, <1>11
  <2> QED  BY <1>2, <1>3, <1>10, <1>11, <2>1 DEF SweepInv
<1>15. CleanInv'
  <2> SUFFICES ASSUME study'.driver.cleans
               PROVE  /\ \A k \in DOMAIN checkpoint' : OnlyRunsOf(Units[k], checkpoint[k].results)'
                      /\ candidates' = Unreadable /\ results' = Unreadable
    BY <1>11 DEF CleanInv
  <2>1. study.driver.cleans /\ work.done = checkpoint /\ checkpoint' = done
    <3>1. DriverFacts(study.driver) /\ study.driver.cleans
      BY <1>1, StudyTypes
    <3> QED  BY <1>2, <1>3, <3>1 DEF DriverFacts
  <2>2. candidates = Unreadable /\ results = Unreadable
    BY <1>1, <1>3, <1>4, <2>1 DEF CleanInv
  <2>3. ASSUME NEW k \in DOMAIN done
        PROVE  \A u, cells : u = Units[k] /\ cells = done[k].results => OnlyRunsOf(u, cells)
    <3>1. CASE k \in DOMAIN work.done
      BY <1>1, <1>6, <2>1, <3>1 DEF CleanInv
    <3>2. CASE k = Len(work.done) + 1
      BY <1>1, <1>3, <1>6, <2>1, <3>2 DEF CleanInv
    <3> QED  BY <1>7, <3>1, <3>2
  <2>4. Units' = Units
    BY SameStudy
  <2>5. \A k \in DOMAIN checkpoint' : OnlyRunsOf(Units[k], checkpoint[k].results)'
    BY <1>9, <2>1, <2>3, <2>4
  <2> QED  BY <1>2, <2>2, <2>5
<1>16. ArtifactsInv'
  BY <1>2, <1>9, <1>11, ArtifactsKept DEF ArtifactsInv, UninterruptedSurvivors
<1> QED  BY <1>9, <1>12, <1>13, <1>14, <1>15, <1>16 DEF StudyInv

\* The sweep is over and the selection is made.
LEMMA SelectStep ==
  ASSUME StudyInv, study' = study, SelectCandidates
  PROVE  StudyInv'
<1>0. PICK list, done : done = work.done /\ list = AllTop5(study.metrics, done)
  OBVIOUS
<1>1. StudyTypeInv /\ FrozenInv /\ SweepInv /\ CleanInv /\ work.pc = "tune" /\ ~UnitsLeft
  BY DEF StudyInv, SelectCandidates
<1>2. /\ rows' = rows /\ lastId' = lastId /\ files' = files /\ checkpoint' = checkpoint
      /\ results' = results /\ survivors' = survivors
  BY DEF SelectCandidates, InProcess
<1>3. DoneInOrder(done) /\ done \in Seq(DoneRecord) /\ Len(done) = Len(Units)
      /\ (study.driver.resumes => done = checkpoint)
  <2>1. DoneInOrder(done) /\ done \in Seq(DoneRecord) /\ (study.driver.resumes => done = checkpoint)
    BY <1>0, <1>1, StudyTypes DEF SweepInv
  <2>2. Len(done) <= Len(Units) /\ ~(Len(done) < Len(Units)) /\ Len(Units) \in Nat
    BY <1>0, <1>1, <2>1, StudyTypes, UnitsInOrder DEF UnitsLeft, DoneInOrder
  <2>3. Len(done) \in Nat
    BY <2>1
  <2> QED  BY <2>1, <2>2, <2>3
<1>4. list \in Seq(CellRecord) /\ Chosen(list)
  BY <1>0, <1>1, <1>3, CompleteIsChosen
<1> DEFINE Validates == /\ work' = [work EXCEPT !.pc = "oos", !.candidates = list]
                        /\ study.driver.oneProcess /\ Passes("oos") /\ candidates' = candidates
           Writes == work' = IdleWork /\ candidates' = list
           Raises == work' = IdleWork /\ candidates' = candidates
<1>5. Validates \/ Writes \/ Raises
  BY <1>0 DEF SelectCandidates
<1>6. /\ RowsGrow /\ NumbersInv'
      /\ \A u, cells : OnlyRunsOf(u, cells)' = OnlyRunsOf(u, cells)
  BY <1>2, SameRows
<1>7. Chosen(list)'
  BY <1>1, <1>4, <1>6, GrowingRows
<1>8. CASE Raises
  BY <1>2, <1>8, BetweenProcesses, <1>1 DEF StudyTypeInv
<1>9. CASE Writes \/ Validates
  <2>1. Validates => /\ work'.pc = "oos" /\ work'.candidates = list /\ work'.config = work.config
                     /\ work'.oos = <<>> /\ work' \in WorkRecord
    <3>1. work \in WorkRecord /\ work.oos = <<>>
      BY <1>1 DEF StudyInv, StudyTypeInv, ArtifactsInv
    <3> QED  BY <1>4, <3>1 DEF WorkRecord
  <2>2. Writes => work'.pc = "idle" /\ work' \in WorkRecord
    BY IdleTyped
  <2>3. StudyTypeInv'
    BY <1>1, <1>2, <1>4, <1>9, <2>1, <2>2 DEF StudyTypeInv
  <2>4. FrozenInv'
    <3>1. Validates => files = "frozen"
      BY <1>1, StudyTypes DEF Passes, FrozenInv, DriverFacts
    <3>2. work.config = files /\ ("start" \in study.driver.gates => files = "frozen")
      BY <1>1 DEF FrozenInv
    <3> HIDE DEF Writes, Validates
    <3> QED  BY <1>2, <1>9, <2>1, <2>2, <3>1, <3>2 DEF FrozenInv
  <2>5. work'.pc \in {"idle", "oos"}
    BY <1>9, <2>1, <2>2
  <2>6. SweepInv'
    <3>1. DoneInOrder(checkpoint)'
      <4>1. PICK d : d = checkpoint
        OBVIOUS
      <4>2. DoneInOrder(d)'
        BY <1>1, <1>6, <4>1, GrowingRows DEF SweepInv
      <4> QED  BY <1>2, <4>1, <4>2
    <3> QED  BY <1>1, <1>2, <2>5, <3>1 DEF SweepInv
  <2>7. CleanInv'
    <3> SUFFICES ASSUME study'.driver.cleans
                 PROVE  /\ \A k \in DOMAIN checkpoint' : OnlyRunsOf(Units[k], checkpoint[k].results)'
                        /\ Len(checkpoint') = Len(Units')
      BY <2>5 DEF CleanInv
    <3>1. study.driver.cleans /\ done = checkpoint
      <4>1. DriverFacts(study.driver) /\ study.driver.cleans
        BY <1>1, StudyTypes
      <4> QED  BY <1>3, <4>1 DEF DriverFacts
    <3>2. Units' = Units
      BY SameStudy
    <3>3. \A k \in DOMAIN checkpoint : OnlyRunsOf(Units[k], checkpoint[k].results)
      BY <1>1, <3>1 DEF CleanInv
    <3> QED  BY <1>2, <1>3, <1>6, <3>1, <3>2, <3>3
  <2>8. candidates' # Unreadable => Chosen(candidates)'
    <3>1. CASE Writes
      BY <1>7, <3>1
    <3>2. CASE Validates
      <4>1. PICK c : c = candidates
        OBVIOUS
      <4>2. c # Unreadable => Chosen(c)'
        BY <1>1, <1>6, <4>1, GrowingRows DEF StudyInv, ArtifactsInv
      <4> QED  BY <3>2, <4>1, <4>2
    <3> QED  BY <1>9, <3>1, <3>2
  <2>9. results' # Unreadable => Chosen(CandidatesOf(results))' /\ Validated(results)'
    <3>1. PICK r : r = results
      OBVIOUS
    <3>2. r # Unreadable => Chosen(CandidatesOf(r)) /\ Validated(r) /\ r \in Seq(OosRecord)
      BY <3>1 DEF StudyInv, ArtifactsInv, StudyTypeInv
    <3>3. r # Unreadable => Chosen(CandidatesOf(r))' /\ Validated(r)'
      BY <1>1, <1>6, <3>2, GrowingRows
    <3> QED  BY <1>2, <3>1, <3>3
  <2>10. survivors' # Unreadable =>
           [k \in DOMAIN survivors' |-> Anonymous(survivors'[k].candidate)] = UninterruptedSurvivors'
    BY <1>2, SameStudy DEF StudyInv, ArtifactsInv, UninterruptedSurvivors
  <2>11. ArtifactsInv'
    <3>1. work'.pc = "oos" => /\ Chosen(work.candidates)' /\ work'.oos = <<>>
                              /\ work'.candidates \in Seq(CellRecord)
      BY <1>4, <1>7, <1>9, <2>1, <2>2
    <3>2. work'.pc = "oos" => /\ Validated(work.oos)' /\ Len(work'.oos) <= Len(work'.candidates)
                              /\ DOMAIN work'.oos = {}
      BY <3>1 DEF Validated
    <3> QED  BY <1>2, <2>8, <2>9, <2>5, <2>10, <3>1, <3>2 DEF ArtifactsInv, UninterruptedSurvivors
  <2> QED  BY <1>6, <2>3, <2>4, <2>6, <2>7, <2>11 DEF StudyInv
<1> QED  BY <1>5, <1>8, <1>9

\* A step of the validation changes the process and adds runs of the oos split.
LEMMA OosKeeps ==
  ASSUME StudyInv, study' = study, RowsGrow, NumbersInv', rows' \subseteq RowRecord,
         \A r \in rows' : r \in rows \/ r.split = "oos",
         checkpoint' = checkpoint, files' = files, candidates' = candidates, results' = results,
         survivors' = survivors, work' \in WorkRecord, work'.pc = "oos", work'.config = files,
         files = "frozen", study.driver.cleans => Len(checkpoint) = Len(Units),
         Chosen(work.candidates)', Validated(work.oos)', Len(work'.oos) <= Len(work'.candidates),
         \A k \in DOMAIN work'.oos : work'.oos[k].candidate = work'.candidates[k]
  PROVE  StudyInv'
<1>1. StudyTypeInv /\ SweepInv /\ CleanInv
  BY DEF StudyInv
<1>2. StudyTypeInv'
  BY <1>1 DEF StudyTypeInv, RowsGrow
<1>3. FrozenInv'
  BY DEF FrozenInv
<1>4. SweepInv'
  <2>1. PICK d : d = checkpoint
    OBVIOUS
  <2>2. DoneInOrder(d)'
    BY <1>1, <2>1, GrowingRows DEF SweepInv
  <2> QED  BY <1>1, <2>1, <2>2 DEF SweepInv
<1>5. CleanInv'
  <2>1. \A u, cells : OnlyRunsOf(u, cells) => OnlyRunsOf(u, cells)'
    BY DEF OnlyRunsOf, TuneRowsOf
  <2>2. Units' = Units
    BY SameStudy
  <2> QED  BY <1>1, <2>1, <2>2 DEF CleanInv
<1>6. /\ candidates' # Unreadable => Chosen(candidates)'
      /\ results' # Unreadable => Chosen(CandidatesOf(results))' /\ Validated(results)'
      /\ survivors' # Unreadable =>
           [k \in DOMAIN survivors' |-> Anonymous(survivors'[k].candidate)] =
             UninterruptedSurvivors'
  BY ArtifactsKept
<1>7. ArtifactsInv'
  BY <1>6 DEF ArtifactsInv, UninterruptedSurvivors
<1> QED  BY <1>2, <1>3, <1>4, <1>5, <1>7 DEF StudyInv

LEMMA StartOosStep ==
  ASSUME StudyInv, study' = study, StartOos
  PROVE  StudyInv'
<1>1. StudyTypeInv /\ CleanInv /\ ArtifactsInv /\ NumbersInv
  BY DEF StudyInv
<1>2. /\ rows' = rows /\ lastId' = lastId /\ checkpoint' = checkpoint /\ files' = files
      /\ candidates' = candidates /\ results' = results /\ survivors' = survivors
      /\ ~study.driver.oneProcess /\ candidates # Unreadable /\ Passes("oos")
      /\ work' = [IdleWork EXCEPT !.pc = "oos", !.config = files, !.candidates = candidates]
  BY DEF StartOos, FilesWritten
<1>3. candidates \in Seq(CellRecord) /\ Chosen(candidates) /\ files \in {"frozen", "edited"}
  BY <1>1, <1>2 DEF StudyTypeInv, ArtifactsInv
<1>4. /\ work' \in WorkRecord /\ work'.pc = "oos" /\ work'.config = files
      /\ work'.candidates = candidates /\ work'.oos = <<>>
  <2>1. IdleWork.oos = <<>>
    BY DEF IdleWork
  <2> QED  BY <1>2, <1>3, <2>1, IdleTyped DEF WorkRecord
<1>5. files = "frozen"
  <2>1. DriverFacts(study.driver)
    BY <1>1, StudyTypes
  <2> QED  BY <1>2, <2>1 DEF DriverFacts, Passes
<1>6. RowsGrow /\ NumbersInv'
  BY <1>2, SameRows
<1>7. Chosen(work.candidates)'
  <2>1. PICK c : c = candidates
    OBVIOUS
  <2>2. Chosen(c)'
    BY <1>1, <1>3, <1>6, <2>1, GrowingRows
  <2> QED  BY <1>4, <2>1, <2>2
<1>8. /\ Validated(work.oos)' /\ Len(work'.oos) <= Len(work'.candidates)
      /\ \A k \in DOMAIN work'.oos : work'.oos[k].candidate = work'.candidates[k]
  BY <1>3, <1>4 DEF Validated
<1>9. study.driver.cleans => Len(checkpoint) = Len(Units)
  BY <1>1, <1>2 DEF CleanInv
<1>10. rows' \subseteq RowRecord
  BY <1>1, <1>2 DEF StudyTypeInv
<1> QED  BY <1>2, <1>4, <1>5, <1>6, <1>7, <1>8, <1>9, <1>10, OosKeeps

LEMMA RunOosStep ==
  ASSUME StudyInv, study' = study, RunOos
  PROVE  StudyInv'
<1>0. PICK c, row, res :
        /\ c = work.candidates[Len(work.oos) + 1]
        /\ row = [id |-> lastId + 1, unit |-> c.unit, cell |-> c.cell,
                  split |-> "oos", config |-> work.config]
        /\ res = [candidate |-> c, oosId |-> lastId + 1, verdict |-> VerdictOn(c)]
  OBVIOUS
<1>1. /\ StudyTypeInv /\ NumbersInv /\ FrozenInv /\ CleanInv /\ ArtifactsInv
      /\ work.pc = "oos" /\ Len(work.oos) < Len(work.candidates)
  BY DEF StudyInv, RunOos
<1>2. /\ Ran(c.unit, c.cell, "oos") /\ checkpoint' = checkpoint /\ files' = files
      /\ candidates' = candidates /\ results' = results /\ survivors' = survivors
      /\ work' = [work EXCEPT !.oos = Append(@, res)]
  BY <1>0 DEF RunOos, FilesWritten, InProcess, VerdictOn
<1>3. /\ work.candidates \in Seq(CellRecord) /\ work.oos \in Seq(OosRecord)
      /\ Len(work.oos) \in Nat /\ DOMAIN work.oos = 1..Len(work.oos)
      /\ Len(work.candidates) \in Nat /\ lastId \in Nat
  <2>1. work.candidates \in Seq(CellRecord) /\ work.oos \in Seq(OosRecord) /\ lastId \in Nat
    BY <1>1, StudyTypes DEF StudyTypeInv
  <2> QED  BY <2>1
<1>4. c \in CellRecord /\ c.unit \in UnitRecord /\ c.cell \in Nat
  <2>1. c \in CellRecord
    BY <1>0, <1>1, <1>3
  <2> QED  BY <2>1 DEF CellRecord
<1>5. /\ lastId' = lastId + 1 /\ RowsGrow /\ NumbersInv' /\ rows' \subseteq RowRecord
      /\ \A r \in rows' : r \in rows \/ r = row
      /\ row \in rows'
  BY <1>0, <1>1, <1>2, <1>4, RunRecorded
<1>6. res \in OosRecord /\ res.candidate = c /\ res.oosId = lastId + 1 /\ res.verdict = VerdictOn(c)
  <2>1. VerdictOn(c) \in {"insufficient_sample", "survivor", "killed"}
    <3>1. \A m : DetermineSurvivor(m) \in {"insufficient_sample", "survivor", "killed"}
      BY DEF DetermineSurvivor
    <3> QED  BY <3>1 DEF VerdictOn
  <2> QED  BY <1>0, <1>3, <1>4, <2>1 DEF OosRecord
<1>7. /\ work' \in WorkRecord /\ work'.pc = "oos" /\ work'.config = work.config
      /\ work'.candidates = work.candidates /\ work'.oos = Append(work.oos, res)
  <2>1. work \in WorkRecord /\ Append(work.oos, res) \in Seq(OosRecord)
    BY <1>1, <1>3, <1>6 DEF StudyTypeInv
  <2> QED  BY <1>1, <1>2, <2>1 DEF WorkRecord
<1>8. /\ Len(work'.oos) = Len(work.oos) + 1
      /\ DOMAIN work'.oos = 1..(Len(work.oos) + 1)
      /\ work'.oos[Len(work.oos) + 1] = res
      /\ \A k \in DOMAIN work.oos : work'.oos[k] = work.oos[k]
  BY <1>3, <1>6, <1>7
<1>9. \A k \in DOMAIN work'.oos : k \in DOMAIN work.oos \/ k = Len(work.oos) + 1
  BY <1>3, <1>8
<1>10. work.config = files /\ files = "frozen"
  BY <1>1 DEF FrozenInv
<1>11. row.id = lastId + 1 /\ row.config = "frozen" /\ row.split = "oos"
  BY <1>0, <1>10
<1>12. Chosen(work.candidates)'
  <2>1. PICK list : list = work.candidates
    OBVIOUS
  <2>2. Chosen(list)'
    BY <1>1, <1>5, <2>1, GrowingRows DEF ArtifactsInv
  <2> QED  BY <1>7, <2>1, <2>2
<1>13. Validated(work.oos)'
  <2>1. PICK oos \in Seq(OosRecord) : oos = work.oos
    BY <1>3
  <2>2. Validated(oos)'
    BY <1>1, <1>5, <2>1, GrowingRows DEF ArtifactsInv
  <2>3. ASSUME NEW k \in DOMAIN work'.oos
        PROVE  /\ work'.oos[k].verdict = VerdictOn(work.oos[k].candidate)'
               /\ work'.oos[k].oosId <= lastId'
               /\ \A r \in rows' : r.id = work'.oos[k].oosId => r.config = "frozen"
    <3>1. CASE k \in DOMAIN work.oos
      <4>1. work'.oos[k] = oos[k] /\ k \in DOMAIN oos
        BY <1>8, <2>1, <3>1
      <4>2. /\ oos[k].verdict = VerdictOn(oos[k].candidate)' /\ oos[k].oosId <= lastId'
            /\ \A r \in rows' : r.id = oos[k].oosId => r.config = "frozen"
        BY <2>2, <4>1 DEF Validated
      <4> QED  BY <4>1, <4>2
    <3>2. CASE k = Len(work.oos) + 1
      <4>1. work'.oos[k] = res
        BY <1>8, <3>2
      <4>2. VerdictOn(c)' = VerdictOn(c)
        BY SameStudy
      <4>3. \A r \in rows' : r.id = lastId + 1 => r = row
        BY <1>1, <1>3, <1>5 DEF NumbersInv
      <4> QED  BY <1>3, <1>5, <1>6, <1>11, <4>1, <4>2, <4>3
    <3> QED  BY <1>9, <3>1, <3>2
  <2> QED  BY <2>3 DEF Validated
<1>14. \A k \in DOMAIN work'.oos : work'.oos[k].candidate = work'.candidates[k]
  BY <1>0, <1>1, <1>6, <1>7, <1>8, <1>9 DEF ArtifactsInv
<1>15. Len(work'.oos) <= Len(work'.candidates)
  BY <1>1, <1>3, <1>7, <1>8
<1>16. study.driver.cleans => Len(checkpoint) = Len(Units)
  BY <1>1 DEF CleanInv
<1>17. \A r \in rows' : r \in rows \/ r.split = "oos"
  BY <1>5, <1>11
<1> QED  BY <1>2, <1>5, <1>7, <1>10, <1>12, <1>13, <1>14, <1>15, <1>16, <1>17, OosKeeps

LEMMA FinishOosStep ==
  ASSUME StudyInv, study' = study, FinishOos
  PROVE  StudyInv'
<1>0. PICK oos : oos = work.oos
  OBVIOUS
<1>1. /\ StudyTypeInv /\ SweepInv /\ CleanInv /\ ArtifactsInv
      /\ work.pc = "oos" /\ Len(work.oos) = Len(work.candidates)
  BY DEF StudyInv, FinishOos
<1>2. /\ rows' = rows /\ lastId' = lastId /\ checkpoint' = checkpoint /\ files' = files
      /\ candidates' = candidates /\ results' = oos /\ work' = IdleWork
      /\ survivors' = (IF study.driver.oneProcess THEN Survivors(study.metrics, oos) ELSE survivors)
  BY <1>0 DEF FinishOos, InProcess
<1>3. oos \in Seq(OosRecord) /\ work.candidates \in Seq(CellRecord)
  BY <1>0, <1>1, StudyTypes
<1>4. Chosen(CandidatesOf(oos)) /\ Validated(oos)
  <2>1. DOMAIN oos = DOMAIN work.candidates
    BY <1>0, <1>1, <1>3
  <2>2. \A k \in DOMAIN oos : oos[k].candidate = work.candidates[k]
    BY <1>0, <1>1 DEF ArtifactsInv
  <2>3. work.candidates = [k \in DOMAIN work.candidates |-> work.candidates[k]]
    BY <1>3
  <2>4. CandidatesOf(oos) = work.candidates
    BY <2>1, <2>2, <2>3 DEF CandidatesOf
  <2> QED  BY <1>0, <1>1, <2>4 DEF ArtifactsInv
<1>5. /\ RowsGrow /\ NumbersInv'
      /\ \A u, cells : OnlyRunsOf(u, cells)' = OnlyRunsOf(u, cells)
  BY <1>2, SameRows
<1>6. work'.pc = "idle" /\ work' \in WorkRecord
  BY <1>2, IdleTyped
<1>7. StudyTypeInv'
  BY <1>1, <1>2, <1>3, <1>6 DEF StudyTypeInv
<1>8. FrozenInv'
  BY <1>6 DEF FrozenInv
<1>9. SweepInv'
  <2>1. PICK d : d = checkpoint
    OBVIOUS
  <2>2. DoneInOrder(d)'
    BY <1>1, <1>5, <2>1, GrowingRows DEF SweepInv
  <2> QED  BY <1>1, <1>2, <1>6, <2>1, <2>2 DEF SweepInv
<1>10. CleanInv'
  <2>1. Units' = Units
    BY SameStudy
  <2> QED  BY <1>1, <1>2, <1>5, <1>6, <2>1 DEF CleanInv
<1>11. candidates' # Unreadable => Chosen(candidates)'
  <2>1. PICK c : c = candidates
    OBVIOUS
  <2>2. c # Unreadable => Chosen(c)'
    BY <1>1, <1>5, <2>1, GrowingRows DEF ArtifactsInv
  <2> QED  BY <1>2, <2>1, <2>2
<1>12. Chosen(CandidatesOf(results))' /\ Validated(results)'
  <2>1. Chosen(CandidatesOf(oos))' /\ Validated(oos)'
    BY <1>1, <1>3, <1>4, <1>5, GrowingRows
  <2> QED  BY <1>2, <2>1
<1>13. survivors' # Unreadable =>
         [k \in DOMAIN survivors' |-> Anonymous(survivors'[k].candidate)] = UninterruptedSurvivors'
  <2>1. CASE study.driver.oneProcess
    <3>1. survivors' = Survivors(study.metrics, oos)
      BY <1>2, <2>1
    <3> QED  BY <1>3, <1>4, <3>1, SurvivorsAsUninterrupted, SameStudy
  <2>2. CASE ~study.driver.oneProcess
    BY <1>1, <1>2, <2>2, SameStudy DEF ArtifactsInv, UninterruptedSurvivors
  <2> QED  BY <2>1, <2>2
<1>14. ArtifactsInv'
  BY <1>6, <1>11, <1>12, <1>13 DEF ArtifactsInv, UninterruptedSurvivors
<1> QED  BY <1>5, <1>7, <1>8, <1>9, <1>10, <1>14 DEF StudyInv

LEMMA OutsideStep ==
  ASSUME StudyInv, study' = study,
         \/ WriteKillConditions \/ EditFrozenFiles \/ ProcessDies \/ ProcessDiesWriting
         \/ UNCHANGED studyVars
  PROVE  StudyInv'
<1>1. files \in {"frozen", "edited"}
  BY DEF StudyInv, StudyTypeInv
<1>2. CASE WriteKillConditions
  BY <1>1, <1>2, BetweenProcesses DEF WriteKillConditions, KillConditionsDue, Started
<1>3. CASE EditFrozenFiles
  BY <1>1, <1>3, BetweenProcesses DEF EditFrozenFiles, FilesWritten
<1>4. CASE ProcessDies
  BY <1>1, <1>4, BetweenProcesses DEF ProcessDies, FilesWritten, InProcess
<1>6. CASE ProcessDiesWriting
  BY <1>1, <1>6, BetweenProcesses DEF ProcessDiesWriting
<1>5. CASE UNCHANGED studyVars
  <2>1. /\ UNCHANGED <<files, rows, checkpoint, candidates, results, survivors, lastId, work>>
        /\ StudyTypeInv /\ FrozenInv /\ SweepInv /\ CleanInv /\ ArtifactsInv
    BY <1>5 DEF studyVars, StudyInv
  <2>2. /\ RowsGrow /\ NumbersInv' /\ Units' = Units
        /\ \A u, cells : OnlyRunsOf(u, cells)' = OnlyRunsOf(u, cells)
    BY <2>1, SameRows, SameStudy
  <2>3. StudyTypeInv' /\ FrozenInv'
    BY <2>1 DEF StudyTypeInv, FrozenInv
  <2>4. PICK d, w, u, cells : /\ d = checkpoint /\ w = work.done
                             /\ u = Units[work.unit] /\ cells = work.cells
    OBVIOUS
  <2>5. SweepInv'
    <3>1. /\ DoneInOrder(d) => DoneInOrder(d)'
          /\ DoneInOrder(w) => DoneInOrder(w)'
          /\ CellsOf(u, cells) => CellsOf(u, cells)'
      BY <2>1, <2>2, GrowingRows
    <3> QED  BY <2>1, <2>2, <2>4, <3>1 DEF SweepInv
  <2>6. CleanInv'
    BY <2>1, <2>2 DEF CleanInv
  <2>7. PICK list, oos : list = work.candidates /\ oos = work.oos
    OBVIOUS
  <2>8. /\ Chosen(list) => Chosen(list)'
        /\ Validated(oos) => Validated(oos)'
    BY <2>1, <2>2, <2>7, GrowingRows, StudyTypes
  <2>9. ArtifactsInv'
    BY <2>1, <2>2, <2>7, <2>8, ArtifactsKept DEF ArtifactsInv, UninterruptedSurvivors
  <2> QED  BY <2>2, <2>3, <2>5, <2>6, <2>9 DEF StudyInv
<1> QED  BY <1>2, <1>3, <1>4, <1>5, <1>6

LEMMA StudySafe == StudySpec => []StudyInv
<1>1. StudyInv /\ [StudyNext]_studyVars => StudyInv'
  BY StudyStays, StartTuneStep, BeginUnitStep, RunCellStep, FinishUnitStep, SelectStep,
     StartOosStep, RunOosStep, FinishOosStep, OutsideStep DEF StudyNext
<1> QED  BY InitStudy, <1>1, PTL DEF StudySpec

-----------------------------------------------------------------------------
(* The results.                                                            *)

\* A unit of the v2 sweep's checkpoint has one tune run per cell, for every
\* study and wherever its processes die.
THEOREM CellsAreCountedOnce == StudySpec => []CellsCountedOnce
<1>1. StudyInv => CellsCountedOnce
  <2> SUFFICES ASSUME StudyInv, study.driver.sweep = "v2", NEW k \in DOMAIN checkpoint
               PROVE  /\ Cardinality(TuneRowsOf(checkpoint[k].unit)) = MaxCells
                      /\ {r.cell : r \in TuneRowsOf(checkpoint[k].unit)} = Cells
    BY DEF CellsCountedOnce
  <2> DEFINE unit == Units[k]
             cells == checkpoint[k].results
             T == TuneRowsOf(unit)
             f == [r \in T |-> r.cell]
  <2>1. StudyTypeInv /\ NumbersInv /\ study.driver.cleans
    <3>1. StudyTypeInv /\ NumbersInv
      BY DEF StudyInv
    <3> QED  BY <3>1, StudyTypes DEF DriverFacts
  <2>2. checkpoint[k].unit = unit /\ DOMAIN cells = 1..MaxCells /\ CellsOf(unit, cells)
    <3>1. DoneInOrder(checkpoint) /\ checkpoint \in Seq(DoneRecord)
      BY <2>1 DEF StudyInv, SweepInv, StudyTypeInv
    <3>2. Finished(checkpoint)
      BY <2>1, <3>1, StudyTypes, InOrderIsFinished
    <3> QED  BY <3>1, <3>2, FinishedShape DEF DoneInOrder
  <2>3. OnlyRunsOf(unit, cells)
    BY <2>1 DEF StudyInv, CleanInv
  <2>4. \A c \in 1..MaxCells : cells[c].cell = c /\ \E r \in T : r.id = cells[c].id /\ r.cell = c
    BY <2>2 DEF CellsOf, HasRun, TuneRowsOf
  <2>5. \A r \in T : r.cell \in 1..MaxCells /\ r.id = cells[r.cell].id
    <3> SUFFICES ASSUME NEW r \in T PROVE r.cell \in 1..MaxCells /\ r.id = cells[r.cell].id
      OBVIOUS
    <3>1. PICK c \in 1..MaxCells : r.id = cells[c].id
      BY <2>2, <2>3 DEF OnlyRunsOf
    <3>2. PICK s \in T : s.id = cells[c].id /\ s.cell = c
      BY <2>4
    <3>3. r = s
      BY <2>1, <3>1, <3>2 DEF NumbersInv, TuneRowsOf
    <3> QED  BY <3>1, <3>2, <3>3
  <2>6. \A r, s \in T : r.cell = s.cell => r = s
    BY <2>1, <2>5 DEF NumbersInv, TuneRowsOf
  <2> HIDE DEF unit, cells, T
  <2>7. f \in Injection(T, 1..MaxCells) /\ f \in Surjection(T, 1..MaxCells)
    BY <2>4, <2>5, <2>6 DEF Injection, IsInjective, Surjection
  <2>8. IsFiniteSet(1..MaxCells) /\ Cardinality(1..MaxCells) = MaxCells
    <3>1. MaxCells \in Nat
      BY StudyAssumption
    <3> QED  BY <3>1, FS_Interval
  <2>9. Cardinality(T) = MaxCells
    BY <2>7, <2>8, FS_Injection
  <2>10. {r.cell : r \in T} = Cells
    BY <2>4, <2>5 DEF Cells
  <2> QED  BY <2>2, <2>9, <2>10 DEF T
<1> QED  BY <1>1, StudySafe, PTL

LEMMA CitedCellsHaveRuns ==
  ASSUME StudyInv, NEW c \in Cited
  PROVE  HasRun(c)
<1>1. CASE c \in UNION {ToSet(checkpoint[k].results) : k \in DOMAIN checkpoint}
  <2>1. PICK k \in DOMAIN checkpoint : c \in ToSet(checkpoint[k].results)
    BY <1>1
  <2>2. PICK n \in DOMAIN checkpoint[k].results : c = checkpoint[k].results[n]
    BY <2>1 DEF ToSet
  <2> QED  BY <2>2 DEF StudyInv, SweepInv, DoneInOrder, CellsOf
<1>2. CASE candidates # Unreadable /\ c \in ToSet(candidates)
  BY <1>2 DEF ToSet, StudyInv, ArtifactsInv, Chosen
<1>3. CASE results # Unreadable /\ c \in {r.candidate : r \in ToSet(results)}
  <2>1. PICK k \in DOMAIN results : c = results[k].candidate
    BY <1>3 DEF ToSet
  <2>2. c = CandidatesOf(results)[k] /\ k \in DOMAIN CandidatesOf(results)
    BY <2>1 DEF CandidatesOf
  <2>3. \A n \in DOMAIN CandidatesOf(results) : HasRun(CandidatesOf(results)[n])
    BY <1>3 DEF StudyInv, ArtifactsInv, Chosen
  <2> QED  BY <2>2, <2>3
<1> QED  BY <1>1, <1>2, <1>3 DEF Cited

\* Every run that a checkpoint, a candidate or a result cites is in the
\* database and is a tune run of the cell it is cited for, whatever was cleaned.
THEOREM CitedRunsAreThere == StudySpec => []CitedRunsExist
<1>1. StudyInv => CitedRunsExist
  BY CitedCellsHaveRuns DEF CitedRunsExist, HasRun
<1> QED  BY <1>1, StudySafe, PTL

\* No cited run was made on edited definitions, wherever the driver's gates are.
THEOREM CitedEvidenceIsFrozen == StudySpec => []EvidenceIsFrozen
<1>1. StudyInv => EvidenceIsFrozen
  <2> SUFFICES ASSUME StudyInv PROVE EvidenceIsFrozen
    OBVIOUS
  <2>1. \A c \in Cited : \A r \in rows : r.id = c.id => r.config = "frozen"
    BY CitedCellsHaveRuns DEF HasRun, StudyInv, NumbersInv
  <2>2. results # Unreadable =>
          \A k \in DOMAIN results : \A r \in rows : r.id = results[k].oosId => r.config = "frozen"
    BY DEF StudyInv, ArtifactsInv, Validated
  <2> QED  BY <2>1, <2>2 DEF EvidenceIsFrozen
<1> QED  BY <1>1, StudySafe, PTL

\* However often a study is interrupted and resumed, its candidates, verdicts
\* and survivors are those of an uninterrupted one, in the same order.
THEOREM StudyEndsAsUninterrupted == StudySpec => []EndsAsUninterrupted
<1>1. StudyInv => EndsAsUninterrupted
  <2> SUFFICES ASSUME StudyInv PROVE EndsAsUninterrupted
    OBVIOUS
  <2>1. ArtifactsInv
    BY DEF StudyInv
  <2>2. results # Unreadable =>
          /\ [k \in DOMAIN results |-> Anonymous(results[k].candidate)] = Uninterrupted
          /\ \A k \in DOMAIN results : results[k].verdict = VerdictOn(results[k].candidate)
    <3>1. \A k \in DOMAIN results : CandidatesOf(results)[k] = results[k].candidate
      BY DEF CandidatesOf
    <3>2. DOMAIN CandidatesOf(results) = DOMAIN results
      BY DEF CandidatesOf
    <3>3. [k \in DOMAIN CandidatesOf(results) |-> Anonymous(CandidatesOf(results)[k])]
            = [k \in DOMAIN results |-> Anonymous(results[k].candidate)]
      BY <3>1, <3>2
    <3> QED  BY <2>1, <3>3 DEF ArtifactsInv, Chosen, Validated
  <2> QED  BY <2>1, <2>2 DEF ArtifactsInv, EndsAsUninterrupted, Chosen
<1> QED  BY <1>1, StudySafe, PTL

-----------------------------------------------------------------------------
(* The backtest engine.                                                    *)

Holding == [symbol : Universe, entered : Nat, price : Nat, stop : Int, takeProfit : Int,
             scaledOut : SUBSET Int, remaining : Int, daysHeld : Nat, watermark : Nat]
ExitReasons == {"eod_flat", "stop", "trailing_stop", "scale_out", "take_profit", "time_stop"}
Trade == [symbol : Universe, entered : Nat, price : Nat, exited : Nat, at : Int,
          reason : ExitReasons, fraction : 1..100]

BacktestTypeInv ==
  /\ profile \in ExitProfiles
  /\ calendar \in Seq([Universe -> Bars \cup {NoBar}])
  /\ signals \in Seq(SUBSET Universe) /\ Len(signals) = Len(calendar)
  /\ pendingEntries \subseteq Universe /\ openPositions \subseteq Holding
  /\ trades \subseteq Trade

\* The closes a watermark is made of.
Closes(p, n) ==
  {p.price} \cup {calendar[d][p.symbol].close : d \in BarDates(p.symbol, p.entered, n)}
IsPeak(w, p, n) == w \in Closes(p, n) /\ \A c \in Closes(p, n) : c <= w

\* Levels are those of the entry.
Locked(p) ==
  /\ \E b \in Bars : p.price = EntryFillPrice(p.symbol, b.open)
  /\ p.stop = Plus(p.price, -profile.stop) /\ p.takeProfit = Plus(p.price, profile.takeProfit)
  /\ p.remaining \in 1..100

\* What a position carries from one date to the next.
Carries(p, n) ==
  /\ p.entered \in 1..n
  /\ IsPeak(p.watermark, p, n)
  /\ p.daysHeld = Cardinality(BarDates(p.symbol, p.entered + 1, n))
  /\ NotStoppedBefore(p, n + 1)
  /\ ~profile.eodFlat

TradesBefore(p) == \A t \in trades : t.symbol = p.symbol => t.entered <= p.entered

HoldingsInv ==
  /\ \A p \in openPositions : /\ Locked(p) /\ Carries(p, Len(calendar))
                              /\ EnteredOnSignal(p) /\ TradesBefore(p)
                              /\ p.symbol \notin pendingEntries
  /\ \A p, q \in openPositions : p.symbol = q.symbol => p = q

EntriesInv ==
  \A s \in pendingEntries : \E d \in 1..Len(calendar) :
    /\ s \in signals[d] /\ BarDates(s, d + 1, Len(calendar)) = {}
    /\ \A t \in trades : t.symbol = s => t.exited <= d

TradesInv ==
  \A t \in trades :
    /\ t.entered \in 1..t.exited /\ t.exited \in 1..Len(calendar)
    /\ EnteredOnSignal(t) /\ NotStoppedBefore(t, t.exited) /\ FilledHonestly(t)

BacktestInv == BacktestTypeInv /\ HoldingsInv /\ EntriesInv /\ TradesInv

-----------------------------------------------------------------------------
(* Prices.                                                                 *)

LEMMA PlusType == ASSUME NEW w \in Int, NEW x \in Int PROVE Plus(w, x) \in Int
BY DEF Plus

LEMMA LessOrEqual == ASSUME NEW w \in Nat, NEW x \in Nat PROVE Plus(w, -x) <= w
<1>1. w * (100 + (-x)) = 100 * w - w * x
  OBVIOUS
<1>2. w * x \in Nat
  OBVIOUS
<1>3. PICK a : a = w * (100 + (-x))
  OBVIOUS
<1>4. a \in Int /\ a <= 100 * w
  BY <1>1, <1>2, <1>3
<1>5. a \div 100 <= w
  BY <1>4
<1> QED  BY <1>3, <1>5 DEF Plus

LEMMA SlippageType ==
  ASSUME NEW s \in Universe
  PROVE  /\ Slippage[s] \in Nat /\ -Slippage[s] \in Int
         /\ 100 + Slippage[s] \in Nat /\ 100 + (-Slippage[s]) >= 0
<1>1. Slippage \in [Universe -> 0..100]
  BY BacktestAssumption
<1>2. PICK k \in 0..100 : k = Slippage[s]
  BY <1>1
<1> QED  BY <1>2

\* Slippage leaves an entry price a price, and of two prices the higher.
LEMMA EntryPriceType ==
  ASSUME NEW s \in Universe, NEW w \in Nat
  PROVE  EntryFillPrice(s, w) \in Nat
<1>1. PICK k \in Nat : k = 100 + Slippage[s]
  BY SlippageType
<1>2. PICK a \in Nat : a = w * k
  <2>1. w * k \in Nat
    OBVIOUS
  <2> QED  BY <2>1
<1>3. a \div 100 \in Nat
  BY <1>2
<1> QED  BY <1>1, <1>2, <1>3 DEF EntryFillPrice, Plus

LEMMA PlusKeepsOrder ==
  ASSUME NEW w \in Int, NEW x \in Int, w <= x, NEW k \in Int, 100 + k >= 0
  PROVE  Plus(w, k) <= Plus(x, k)
<1>1. PICK c \in Nat : c = 100 + k
  OBVIOUS
<1>2. (x - w) * c \in Nat /\ (x - w) * c = x * c - w * c
  OBVIOUS
<1>3. PICK a \in Int, b \in Int : a = w * c /\ b = x * c
  OBVIOUS
<1>4. a <= b
  BY <1>2, <1>3
<1>5. a \div 100 <= b \div 100
  BY <1>3, <1>4
<1> QED  BY <1>1, <1>3, <1>5 DEF Plus

LEMMA MaxIs ==
  ASSUME NEW S, S \subseteq Int, NEW w \in S, \A c \in S : c <= w
  PROVE  Max(S) = w
<1>1. \A x \in S : (\A y \in S : x >= y) <=> x = w
  OBVIOUS
<1>2. Max(S) = CHOOSE x \in S : \A y \in S : x >= y
  BY DEF Max
<1>3. \E x \in S : \A y \in S : x >= y
  BY <1>1
<1>4. Max(S) \in S /\ \A y \in S : Max(S) >= y
  BY <1>2, <1>3
<1> QED  BY <1>1, <1>4

-----------------------------------------------------------------------------
(* Rules.                                                                  *)

Stops(p, bar) ==
  \/ profile.stop # NoRule /\ bar.low <= p.stop
  \/ profile.trailing # NoRule /\ bar.low <= TrailingLevel(p, bar)

LEMMA RuleCases ==
  ASSUME NEW p, NEW bar, NEW days, NEW r \in Firing(p, bar, days)
  PROVE  \/ /\ r.rank = 1 /\ r.reason = "eod_flat" /\ r.price = bar.close /\ r.fraction = 100
            /\ profile.eodFlat
         \/ /\ r.rank = 2 /\ r.reason = "stop" /\ r.price = Lower(p.stop, bar.open)
            /\ r.fraction = 100 /\ profile.stop # NoRule /\ bar.low <= p.stop
         \/ /\ r.rank = 3 /\ r.reason = "trailing_stop" /\ r.fraction = 100
            /\ r.price = Lower(TrailingLevel(p, bar), bar.open)
            /\ profile.trailing # NoRule /\ bar.low <= TrailingLevel(p, bar)
         \/ \E k \in DOMAIN profile.scaleOut :
              /\ r.rank = 3 + k /\ r.reason = "scale_out"
              /\ r.fraction = profile.scaleOut[k].fraction
              /\ r.price = Plus(p.price, profile.scaleOut[k].gain) /\ bar.high >= r.price
         \/ /\ r.rank = 4 + Len(profile.scaleOut) /\ r.reason = "take_profit"
            /\ r.price = p.takeProfit /\ r.fraction = 100
            /\ profile.takeProfit # NoRule /\ bar.high >= p.takeProfit
         \/ /\ r.rank = 5 + Len(profile.scaleOut) /\ r.reason = "time_stop"
            /\ r.price = bar.close /\ r.fraction = 100
            /\ profile.maxHold # NoRule /\ days >= profile.maxHold
BY DEF Firing

LEMMA ProtectiveRules ==
  ASSUME NEW p, NEW bar, NEW days
  PROVE  /\ profile.eodFlat => \E r \in Firing(p, bar, days) : r.rank = 1
         /\ Stops(p, bar) => \E r \in Firing(p, bar, days) : r.rank \in {2, 3}
<1>1. ASSUME profile.eodFlat PROVE \E r \in Firing(p, bar, days) : r.rank = 1
  <2> DEFINE r == [rank |-> 1, reason |-> "eod_flat", price |-> bar.close, fraction |-> 100]
  <2>1. r \in Firing(p, bar, days) /\ r.rank = 1
    BY <1>1 DEF Firing
  <2> QED  BY <2>1
<1>2. ASSUME profile.stop # NoRule /\ bar.low <= p.stop
      PROVE  \E r \in Firing(p, bar, days) : r.rank = 2
  <2> DEFINE r == [rank |-> 2, reason |-> "stop", price |-> Lower(p.stop, bar.open),
                   fraction |-> 100]
  <2>1. r \in Firing(p, bar, days) /\ r.rank = 2
    BY <1>2 DEF Firing
  <2> QED  BY <2>1
<1>3. ASSUME profile.trailing # NoRule /\ bar.low <= TrailingLevel(p, bar)
      PROVE  \E r \in Firing(p, bar, days) : r.rank = 3
  <2> DEFINE r == [rank |-> 3, reason |-> "trailing_stop",
                   price |-> Lower(TrailingLevel(p, bar), bar.open), fraction |-> 100]
  <2>1. r \in Firing(p, bar, days) /\ r.rank = 3
    BY <1>3 DEF Firing
  <2> QED  BY <2>1
<1> QED  BY <1>1, <1>2, <1>3 DEF Stops

LEMMA RuleTypes ==
  ASSUME profile \in ExitProfiles, NEW p \in Holding, NEW bar \in Bars, NEW days \in Nat,
         NEW r \in Firing(p, bar, days)
  PROVE  /\ r.rank \in Nat /\ r.fraction \in 1..100 /\ r.price \in Int /\ r.reason \in ExitReasons
         /\ r.rank <= 3 => r.fraction = 100
<1>1. /\ profile.scaleOut \in Seq([gain : Nat, fraction : 1..100])
      /\ profile.trailing \in Nat \cup {NoRule} /\ NoRule \in Int
  BY BacktestAssumption
<1>2. Len(profile.scaleOut) \in Nat
  BY <1>1, LenProperties
<1>3. ASSUME NEW k \in DOMAIN profile.scaleOut
      PROVE  /\ profile.scaleOut[k].gain \in Nat /\ profile.scaleOut[k].fraction \in 1..100
             /\ k \in Nat /\ k > 0
  <2>1. profile.scaleOut[k] \in [gain : Nat, fraction : 1..100]
    BY <1>1, ElementOfSeq, LenProperties
  <2>2. k \in 1..Len(profile.scaleOut)
    BY <1>1, LenProperties
  <2> QED  BY <2>1, <2>2, <1>2
<1>4. /\ p.price \in Nat /\ p.stop \in Int /\ p.takeProfit \in Int /\ p.watermark \in Nat
      /\ bar.open \in Nat /\ bar.close \in Nat
  BY BacktestAssumption DEF Holding
<1>5. TrailingLevel(p, bar) \in Int
  <2>1. -profile.trailing \in Int
    BY <1>1
  <2>2. p.watermark \in Int
    BY <1>4
  <2> QED  BY <2>1, <2>2, PlusType DEF TrailingLevel
<1>6. Lower(p.stop, bar.open) \in Int /\ Lower(TrailingLevel(p, bar), bar.open) \in Int
  <2>1. \A a, b \in Int : Lower(a, b) \in Int
    BY DEF Lower
  <2>2. p.stop \in Int /\ bar.open \in Int
    BY <1>4
  <2> QED  BY <2>1, <2>2, <1>5
<1>7. ASSUME NEW k \in DOMAIN profile.scaleOut
      PROVE  Plus(p.price, profile.scaleOut[k].gain) \in Int
  <2>1. p.price \in Int /\ profile.scaleOut[k].gain \in Int
    BY <1>3, <1>4
  <2> QED  BY <2>1, PlusType
<1>8. CASE r.rank \in {1, 2, 3} /\ r.fraction = 100
           /\ r.reason \in {"eod_flat", "stop", "trailing_stop"}
           /\ r.price \in {bar.close, Lower(p.stop, bar.open), Lower(TrailingLevel(p, bar), bar.open)}
  <2>1. r.rank \in Nat /\ r.fraction \in 1..100 /\ (r.rank <= 3 => r.fraction = 100)
    BY <1>8
  <2>2. r.reason \in ExitReasons
    BY <1>8 DEF ExitReasons
  <2>3. r.price \in Int
    <3>1. bar.close \in Int
      BY <1>4
    <3> QED  BY <3>1, <1>8, <1>6
  <2> QED  BY <2>1, <2>2, <2>3
<1>9. CASE \E k \in DOMAIN profile.scaleOut :
             /\ r.rank = 3 + k /\ r.reason = "scale_out"
             /\ r.fraction = profile.scaleOut[k].fraction
             /\ r.price = Plus(p.price, profile.scaleOut[k].gain)
  <2>1. PICK k \in DOMAIN profile.scaleOut :
             /\ r.rank = 3 + k /\ r.reason = "scale_out"
             /\ r.fraction = profile.scaleOut[k].fraction
             /\ r.price = Plus(p.price, profile.scaleOut[k].gain)
    BY <1>9
  <2>2. k \in Nat /\ k > 0 /\ profile.scaleOut[k].fraction \in 1..100
    BY <1>3
  <2>3. r.price \in Int /\ r.reason \in ExitReasons
    BY <2>1, <1>7 DEF ExitReasons
  <2> QED  BY <2>1, <2>2, <2>3
<1>10. CASE /\ r.rank \in {4 + Len(profile.scaleOut), 5 + Len(profile.scaleOut)}
            /\ r.reason \in {"take_profit", "time_stop"} /\ r.fraction = 100
            /\ r.price \in {p.takeProfit, bar.close}
  <2>1. r.rank \in Nat /\ r.fraction \in 1..100 /\ (r.rank <= 3 => r.fraction = 100)
    BY <1>10, <1>2
  <2>2. r.reason \in ExitReasons
    BY <1>10 DEF ExitReasons
  <2>3. r.price \in Int
    <3>1. bar.close \in Int
      BY <1>4
    <3> QED  BY <3>1, <1>10, <1>4
  <2> QED  BY <2>1, <2>2, <2>3
<1>11. \/ /\ r.rank \in {1, 2, 3} /\ r.fraction = 100
          /\ r.reason \in {"eod_flat", "stop", "trailing_stop"}
          /\ r.price \in {bar.close, Lower(p.stop, bar.open), Lower(TrailingLevel(p, bar), bar.open)}
       \/ \E k \in DOMAIN profile.scaleOut :
             /\ r.rank = 3 + k /\ r.reason = "scale_out"
             /\ r.fraction = profile.scaleOut[k].fraction
             /\ r.price = Plus(p.price, profile.scaleOut[k].gain)
       \/ /\ r.rank \in {4 + Len(profile.scaleOut), 5 + Len(profile.scaleOut)}
          /\ r.reason \in {"take_profit", "time_stop"} /\ r.fraction = 100
          /\ r.price \in {p.takeProfit, bar.close}
  <2> HIDE DEF Firing
  <2> QED  BY RuleCases
<1> QED  BY <1>8, <1>9, <1>10, <1>11
\* The first rule that holds is the only one that counts.
LEMMA FirstRule ==
  ASSUME profile \in ExitProfiles, NEW p \in Holding, NEW bar \in Bars, NEW days \in Nat
  PROVE  LET exits == EvaluateExit(p, bar, days) IN
         /\ exits \subseteq Firing(p, bar, days)
         /\ profile.eodFlat \/ Stops(p, bar) =>
              /\ exits # {}
              /\ \A e \in exits : e.rank <= 3 /\ e.fraction = 100
<1> DEFINE rules == Firing(p, bar, days)
           exits == EvaluateExit(p, bar, days)
<1>1. exits = {r \in rules : \A q \in rules : r.rank <= q.rank}
  BY DEF EvaluateExit
<1>2. \A r \in rules : r.rank \in Nat /\ (r.rank <= 3 => r.fraction = 100)
  BY RuleTypes
<1> SUFFICES ASSUME profile.eodFlat \/ Stops(p, bar)
             PROVE  exits # {} /\ \A e \in exits : e.rank <= 3 /\ e.fraction = 100
  BY <1>1
<1>3. PICK q \in rules : q.rank <= 3
  BY ProtectiveRules
<1> HIDE DEF rules, exits
<1>4. \A e \in exits : e.rank <= 3 /\ e.fraction = 100
  BY <1>1, <1>2, <1>3
<1>5. exits # {}
  <2> DEFINE ranks == {r.rank : r \in rules}
  <2>1. ranks \subseteq Nat /\ ranks # {}
    BY <1>2, <1>3
  <2>2. PICK m \in ranks : \A n \in ranks : m <= n
    BY <2>1, LeastNat
  <2>3. PICK r \in rules : r.rank = m
    BY <2>2
  <2>4. \A x \in rules : r.rank <= x.rank
    BY <2>2, <2>3
  <2> QED  BY <1>1, <2>3, <2>4
<1> QED  BY <1>4, <1>5

-----------------------------------------------------------------------------
(* The calendar grows.                                                     *)

\* Date n + 1 is shown.
Reaches(n, today) ==
  /\ n = Len(calendar)
  /\ calendar \in Seq([Universe -> Bars \cup {NoBar}])
  /\ today \in [Universe -> Bars \cup {NoBar}]
  /\ calendar' = Append(calendar, today)
  /\ UNCHANGED profile

LEMMA NextDate ==
  ASSUME NEW n, NEW today, Reaches(n, today)
  PROVE  /\ n \in Nat /\ Date = n + 1 /\ Len(calendar') = n + 1
         /\ \A d \in 1..n : calendar'[d] = calendar[d]
         /\ calendar'[n + 1] = today
BY AppendProperties, LenProperties DEF Reaches, Date

LEMMA DatesKept ==
  ASSUME NEW n, NEW today, Reaches(n, today), NEW s, NEW a \in Nat, a > 0, NEW b \in Int, b <= n
  PROVE  BarDates(s, a, b)' = BarDates(s, a, b)
<1>1. \A d \in a..b : calendar'[d] = calendar[d]
  BY NextDate
<1> QED  BY <1>1 DEF BarDates

LEMMA DatesGrow ==
  ASSUME NEW n, NEW today, Reaches(n, today), NEW s, NEW a \in 1..(n + 1)
  PROVE  BarDates(s, a, n + 1)' = BarDates(s, a, n) \cup {d \in {n + 1} : today[s] # NoBar}
<1>1. /\ n \in Nat /\ calendar'[n + 1] = today
      /\ \A d \in 1..n : calendar'[d] = calendar[d]
  BY NextDate
<1>2. a..(n + 1) = (a..n) \cup {n + 1}
  BY <1>1
<1>3. \A d \in a..n : calendar'[d] = calendar[d]
  BY <1>1
<1> QED  BY <1>1, <1>2, <1>3 DEF BarDates

\* Records of one position.
SamePosition(p, t) == p.symbol = t.symbol /\ p.entered = t.entered /\ p.price = t.price

LEMMA SameLevels ==
  ASSUME NEW p, NEW t, SamePosition(p, t), NEW n
  PROVE  /\ Peak(p, n) = Peak(t, n) /\ Peak(p, n)' = Peak(t, n)'
         /\ StoppedOn(p, n) <=> StoppedOn(t, n)
         /\ StoppedOn(p, n)' <=> StoppedOn(t, n)'
         /\ Closes(p, n) = Closes(t, n) /\ Closes(p, n)' = Closes(t, n)'
<1>1. Peak(p, n) = Peak(t, n) /\ Peak(p, n)' = Peak(t, n)'
  BY DEF Peak, SamePosition
<1> QED  BY <1>1 DEF StoppedOn, SamePosition, Closes

LEMMA SameStops ==
  ASSUME NEW p, NEW t, SamePosition(p, t), NEW n
  PROVE  /\ NotStoppedBefore(p, n) <=> NotStoppedBefore(t, n)
         /\ NotStoppedBefore(p, n)' <=> NotStoppedBefore(t, n)'
BY SameLevels DEF NotStoppedBefore, SamePosition

LEMMA SameSignal ==
  ASSUME NEW p, NEW t, SamePosition(p, t)
  PROVE  /\ EnteredOnSignal(p) <=> EnteredOnSignal(t)
         /\ EnteredOnSignal(p)' <=> EnteredOnSignal(t)'
BY DEF EnteredOnSignal, SamePosition

\* What happened before date n + 1 does not change when it is shown.
LEMMA PeakKept ==
  ASSUME NEW n, NEW today, Reaches(n, today),
         NEW p, p.entered \in Nat, p.entered > 0, NEW d \in Nat, d <= n + 1
  PROVE  Peak(p, d)' = Peak(p, d)
<1>1. PICK s, a, b : s = p.symbol /\ a = p.entered /\ b = d - 1
  OBVIOUS
<1>2. n \in Nat /\ \A k \in 1..n : calendar'[k] = calendar[k]
  BY NextDate
<1>3. BarDates(s, a, b)' = BarDates(s, a, b)
  BY <1>1, <1>2, DatesKept
<1>4. \A k \in BarDates(s, a, b) : calendar'[k] = calendar[k]
  BY <1>1, <1>2 DEF BarDates
<1>5. /\ BarDates(p.symbol, p.entered, d - 1)' = BarDates(p.symbol, p.entered, d - 1)
      /\ \A k \in BarDates(p.symbol, p.entered, d - 1) : calendar'[k] = calendar[k]
  BY <1>1, <1>3, <1>4
<1>6. {calendar[k][p.symbol].close : k \in BarDates(p.symbol, p.entered, d - 1)}'
        = {calendar[k][p.symbol].close : k \in BarDates(p.symbol, p.entered, d - 1)}
  BY <1>5
<1> QED  BY <1>6 DEF Peak

LEMMA StoppedKept ==
  ASSUME NEW n, NEW today, Reaches(n, today),
         NEW p, p.entered \in Nat, p.entered > 0, NEW d \in 1..n
  PROVE  StoppedOn(p, d)' <=> StoppedOn(p, d)
<1>1. Peak(p, d)' = Peak(p, d)
  BY PeakKept, NextDate
<1>2. calendar'[d] = calendar[d]
  BY NextDate
<1> QED  BY <1>1, <1>2 DEF StoppedOn, Reaches

LEMMA NotStoppedKept ==
  ASSUME NEW n, NEW today, Reaches(n, today),
         NEW p, p.entered \in Nat, p.entered > 0, NEW d \in Nat, d <= n + 1
  PROVE  NotStoppedBefore(p, d)' <=> NotStoppedBefore(p, d)
<1>1. PICK s, a, b : s = p.symbol /\ a = p.entered /\ b = d - 1
  OBVIOUS
<1>2. n \in Nat
  BY NextDate
<1>3. BarDates(s, a, b)' = BarDates(s, a, b)
  BY <1>1, <1>2, DatesKept
<1>4. \A k \in BarDates(s, a, b) : k \in 1..n
  BY <1>1, <1>2 DEF BarDates
<1>5. \A k \in BarDates(s, a, b) : StoppedOn(p, k)' <=> StoppedOn(p, k)
  BY <1>4, StoppedKept
<1> QED  BY <1>1, <1>3, <1>5 DEF NotStoppedBefore, Reaches

LEMMA HonestKept ==
  ASSUME NEW n, NEW today, Reaches(n, today),
         NEW t \in Trade, t.entered > 0, t.exited \in 1..n, FilledHonestly(t)
  PROVE  FilledHonestly(t)'
<1>1. PICK s, a, d : s = t.symbol /\ a = t.entered /\ d = t.exited
  OBVIOUS
<1>2. n \in Nat /\ calendar'[d] = calendar[d] /\ a \in Nat /\ a > 0 /\ d \in 1..n
  BY <1>1, NextDate DEF Trade
<1>3. Peak(t, d)' = Peak(t, d) /\ (StoppedOn(t, d)' <=> StoppedOn(t, d))
  BY <1>1, <1>2, PeakKept, StoppedKept
<1>4. BarDates(s, a + 1, d)' = BarDates(s, a + 1, d)
  BY <1>2, DatesKept
<1>5. profile' = profile
  BY DEF Reaches
<1> QED  BY <1>1, <1>2, <1>3, <1>4, <1>5 DEF FilledHonestly

-----------------------------------------------------------------------------
(* Positions that face a bar.                                              *)

Ready(n, today, p) ==
  /\ p \in Holding /\ Locked(p) /\ today[p.symbol] \in Bars
  /\ p.entered \in 1..(n + 1) /\ (profile.eodFlat => p.entered = n + 1)
  /\ IsPeak(p.watermark, p, n)
  /\ p.daysHeld = Cardinality(BarDates(p.symbol, p.entered + 1, n + 1)')
  /\ NotStoppedBefore(p, n + 1)

LEMMA BarTypes ==
  ASSUME NEW bar \in Bars
  PROVE  /\ bar.open \in Nat /\ bar.high \in Nat /\ bar.low \in Nat /\ bar.close \in Nat
         /\ bar.close <= bar.high
<1>1. bar \in [open : Nat, high : Nat, low : Nat, close : Nat]
  BY BacktestAssumption
<1>2. bar.close \in bar.low..bar.high
  BY BacktestAssumption
<1> QED  BY <1>1, <1>2

LEMMA ClosesAre ==
  ASSUME NEW n, NEW today, Reaches(n, today), NEW p \in Holding, p.entered > 0
  PROVE  \A c \in Closes(p, n) : c \in Nat
<1>1. n \in Nat
  BY NextDate
<1>2. \A d \in BarDates(p.symbol, p.entered, n) : calendar[d][p.symbol].close \in Nat
  <2> SUFFICES ASSUME NEW d \in BarDates(p.symbol, p.entered, n)
               PROVE  calendar[d][p.symbol].close \in Nat
    OBVIOUS
  <2>1. d \in p.entered..n /\ calendar[d][p.symbol] # NoBar
    BY DEF BarDates
  <2>2. p.entered \in Nat /\ p.symbol \in Universe
    BY DEF Holding
  <2>3. d \in 1..Len(calendar)
    BY <2>1, <2>2, <1>1 DEF Reaches
  <2>4. calendar[d] \in [Universe -> Bars \cup {NoBar}]
    BY <2>3, ElementOfSeq DEF Reaches
  <2>5. calendar[d][p.symbol] \in Bars
    BY <2>1, <2>2, <2>4
  <2> QED  BY <2>5, BarTypes
<1>3. p.price \in Nat
  BY DEF Holding
<1> QED  BY <1>2, <1>3 DEF Closes

LEMMA PeakIs ==
  ASSUME NEW n, NEW today, Reaches(n, today), NEW p \in Holding, p.entered > 0,
         NEW w, IsPeak(w, p, n)
  PROVE  Peak(p, n + 1) = w /\ p.price <= w /\ w \in Nat
<1>1. n \in Nat /\ (n + 1) - 1 = n
  BY NextDate
<1>3. p.price \in Nat
  BY DEF Holding
<1>4. Closes(p, n) \subseteq Nat
  BY ClosesAre
<1>5. w \in Closes(p, n) /\ \A c \in Closes(p, n) : c <= w
  BY DEF IsPeak
<1>6. Max(Closes(p, n)) = w
  <2>1. Closes(p, n) \subseteq Int
    BY <1>4
  <2> QED  BY <1>5, <2>1, MaxIs
<1>7. p.price \in Closes(p, n)
  BY DEF Closes
<1> QED  BY <1>1, <1>4, <1>5, <1>6, <1>7 DEF Peak, Closes

LEMMA StopsAre ==
  ASSUME NEW n, NEW today, Reaches(n, today), NEW p, Ready(n, today, p)
  PROVE  /\ Stops(p, today[p.symbol]) <=> StoppedOn(p, n + 1)'
         /\ Peak(p, n + 1)' = p.watermark /\ p.price <= p.watermark
         /\ p.watermark \in Nat
<1>1. p \in Holding /\ p.entered > 0 /\ p.entered \in Nat /\ IsPeak(p.watermark, p, n)
  <2>1. n \in Nat /\ p.entered \in 1..(n + 1)
    BY NextDate DEF Ready
  <2> QED  BY <2>1 DEF Ready
<1>2. Peak(p, n + 1) = p.watermark /\ p.price <= p.watermark /\ p.watermark \in Nat
  BY <1>1, PeakIs
<1>3. Peak(p, n + 1)' = Peak(p, n + 1)
  <2>1. n + 1 \in Nat /\ n + 1 <= n + 1
    BY NextDate
  <2> QED  BY <1>1, <2>1, PeakKept
<1>4. calendar'[n + 1] = today
  BY NextDate
<1>5. p.stop = Plus(p.price, -profile.stop) /\ profile' = profile
  BY DEF Ready, Locked, Reaches
<1>6. Stops(p, today[p.symbol]) <=> StoppedOn(p, n + 1)'
  BY <1>2, <1>3, <1>4, <1>5 DEF Stops, StoppedOn, TrailingLevel
<1> QED  BY <1>2, <1>3, <1>6

\* What a position is sold for, the bars allow.
LEMMA HonestTrade ==
  ASSUME NEW n, NEW today, Reaches(n, today), profile \in ExitProfiles,
         NEW p, Ready(n, today, p),
         NEW e \in EvaluateExit(p, today[p.symbol], p.daysHeld),
         NEW t, t = Recorded(p, e, n + 1)
  PROVE  t \in Trade /\ FilledHonestly(t)' /\ NotStoppedBefore(t, n + 1)'
<1>1. PICK bar \in Bars : bar = today[p.symbol]
  BY DEF Ready
<1>2. /\ t.symbol = p.symbol /\ t.entered = p.entered /\ t.price = p.price /\ t.exited = n + 1
      /\ t.at = ExitFillPrice(p.symbol, e.price) /\ t.reason = e.reason /\ t.fraction = e.fraction
  BY DEF Recorded
<1>3. SamePosition(p, t)
  BY <1>2 DEF SamePosition
<1>4. p \in Holding /\ p.daysHeld \in Nat /\ p.entered \in Nat /\ p.entered > 0 /\ n \in Nat
  <2>1. n \in Nat /\ p.entered \in 1..(n + 1)
    BY NextDate DEF Ready
  <2> QED  BY <2>1 DEF Ready, Holding
<1>5. /\ e \in Firing(p, bar, p.daysHeld)
      /\ profile.eodFlat \/ Stops(p, bar) => e.rank <= 3
  BY <1>1, <1>4, FirstRule
<1>6. e.fraction \in 1..100 /\ e.price \in Int /\ e.reason \in ExitReasons
  BY <1>4, <1>5, RuleTypes
<1>7. t \in Trade
  <2>1. t.symbol \in Universe /\ -Slippage[t.symbol] \in Int
    BY <1>2, <1>4, SlippageType DEF Holding
  <2>2. t.at \in Int
    BY <2>1, <1>2, <1>6, PlusType DEF ExitFillPrice
  <2> QED  BY <2>2, <1>2, <1>4, <1>6 DEF Trade, Holding, Recorded
<1>8. NotStoppedBefore(t, n + 1)'
  <2>1. NotStoppedBefore(p, n + 1)
    BY DEF Ready
  <2>2. n + 1 \in Nat /\ n + 1 <= n + 1
    BY <1>4
  <2>3. NotStoppedBefore(p, n + 1)'
    BY <2>1, <2>2, <1>4, NotStoppedKept
  <2> QED  BY <2>3, <1>3, SameStops
<1>9. /\ StoppedOn(t, n + 1)' <=> Stops(p, bar)
      /\ Peak(t, n + 1)' = p.watermark
      /\ p.price <= p.watermark
  BY <1>1, <1>3, StopsAre, SameLevels
<1>10. calendar'[n + 1][t.symbol] = bar
  BY <1>1, <1>2, NextDate
<1>11. Cardinality(BarDates(t.symbol, t.entered + 1, n + 1)') = p.daysHeld
  BY <1>2 DEF Ready
<1>12. profile' = profile
  BY DEF Reaches
<1>13. /\ bar.open \in Nat /\ bar.high \in Nat /\ bar.close \in Nat /\ p.price \in Nat
       /\ bar.close <= bar.high /\ p.stop \in Int /\ p.watermark \in Nat
  BY <1>4, BarTypes DEF Holding
<1>14. \A a, b \in Int : Lower(a, b) <= a /\ Lower(a, b) <= b /\ Lower(a, b) \in Int
  BY DEF Lower
<1>15. PICK k \in Int : /\ k = -Slippage[t.symbol] /\ t.at = Plus(e.price, k)
                       /\ \A a, b \in Int : a <= b => Plus(a, k) <= Plus(b, k)
  <2>1. t.symbol \in Universe
    BY <1>2, <1>4 DEF Holding
  <2>2. PICK k \in Int : k = -Slippage[t.symbol] /\ 100 + k >= 0
    BY <2>1, SlippageType
  <2>3. \A a, b \in Int : a <= b => Plus(a, k) <= Plus(b, k)
    BY <2>2, PlusKeepsOrder
  <2>4. t.at = Plus(e.price, k)
    BY <2>2, <1>2 DEF ExitFillPrice
  <2> QED  BY <2>2, <2>3, <2>4
<1>16. CASE e.reason = "eod_flat" /\ e.price = bar.close /\ profile.eodFlat
  <2>1. t.exited = t.entered
    BY <1>2, <1>16 DEF Ready
  <2> QED  BY <1>2, <1>7, <1>8, <1>10, <1>15, <1>16, <2>1 DEF FilledHonestly
<1>17. CASE /\ e.reason = "stop" /\ e.price = Lower(p.stop, bar.open)
            /\ profile.stop # NoRule /\ bar.low <= p.stop
  <2>1. Stops(p, bar)
    BY <1>17 DEF Stops
  <2>2. p.stop <= p.price
    <3>1. profile.stop \in Nat
      BY <1>17, BacktestAssumption
    <3>2. p.stop = Plus(p.price, -profile.stop)
      BY DEF Ready, Locked
    <3> QED  BY <3>1, <3>2, <1>13, LessOrEqual
  <2>3. e.price <= bar.open /\ e.price <= p.stop
    <3>1. bar.open \in Int
      BY <1>13
    <3> QED  BY <3>1, <1>13, <1>14, <1>17
  <2>4. e.price <= p.watermark
    BY <2>2, <2>3, <1>6, <1>9, <1>13
  <2>5. t.at <= Plus(bar.open, k) /\ t.at <= Plus(p.watermark, k)
    BY <2>3, <2>4, <1>6, <1>13, <1>15
  <2> QED  BY <1>2, <1>7, <1>8, <1>9, <1>10, <1>15, <1>17, <2>1, <2>5 DEF FilledHonestly
<1>18. CASE /\ e.reason = "trailing_stop" /\ e.price = Lower(TrailingLevel(p, bar), bar.open)
            /\ profile.trailing # NoRule /\ bar.low <= TrailingLevel(p, bar)
  <2>1. Stops(p, bar)
    BY <1>18 DEF Stops
  <2>2. TrailingLevel(p, bar) <= p.watermark /\ TrailingLevel(p, bar) \in Int
    <3>1. profile.trailing \in Nat
      BY <1>18, BacktestAssumption
    <3>2. Plus(p.watermark, -profile.trailing) <= p.watermark
      BY <3>1, <1>13, LessOrEqual
    <3>3. PICK x : x = -profile.trailing
      OBVIOUS
    <3>4. x \in Int /\ p.watermark \in Int
      BY <3>1, <3>3, <1>13
    <3>5. Plus(p.watermark, x) \in Int
      BY <3>4, PlusType
    <3> QED  BY <3>2, <3>3, <3>5 DEF TrailingLevel
  <2>3. e.price <= bar.open /\ e.price <= TrailingLevel(p, bar)
    <3>1. bar.open \in Int
      BY <1>13
    <3> QED  BY <3>1, <2>2, <1>14, <1>18
  <2>4. e.price <= p.watermark
    BY <2>2, <2>3, <1>6, <1>13
  <2>5. t.at <= Plus(bar.open, k) /\ t.at <= Plus(p.watermark, k)
    BY <2>3, <2>4, <1>6, <1>13, <1>15
  <2> QED  BY <1>2, <1>7, <1>8, <1>9, <1>10, <1>15, <1>18, <2>1, <2>5 DEF FilledHonestly
<1>19. CASE \E m \in DOMAIN profile.scaleOut :
              /\ e.rank = 3 + m /\ e.reason = "scale_out"
              /\ e.price = Plus(p.price, profile.scaleOut[m].gain) /\ bar.high >= e.price
  <2>1. PICK m \in DOMAIN profile.scaleOut :
              /\ e.rank = 3 + m /\ e.reason = "scale_out"
              /\ e.price = Plus(p.price, profile.scaleOut[m].gain) /\ bar.high >= e.price
    BY <1>19
  <2>2. m \in Nat /\ m > 0
    BY BacktestAssumption, LenProperties
  <2>3. ~Stops(p, bar)
    BY <2>1, <2>2, <1>5
  <2>4. e.price > p.price
    <3>1. PICK b \in Bars : p.price = EntryFillPrice(p.symbol, b.open)
      BY DEF Ready, Locked
    <3>2. p.symbol \in Universe
      BY <1>4 DEF Holding
    <3> QED  BY <2>1, <3>1, <3>2, BacktestAssumption
  <2>5. e.price <= bar.high
    BY <2>1, <1>6, <1>13
  <2>6. t.at <= Plus(bar.high, k) /\ t.at >= Plus(p.price, k)
    BY <2>4, <2>5, <1>6, <1>13, <1>15
  <2> QED  BY <1>2, <1>7, <1>8, <1>9, <1>10, <1>15, <2>1, <2>3, <2>6 DEF FilledHonestly
<1>20. CASE /\ e.rank = 4 + Len(profile.scaleOut) /\ e.reason = "take_profit"
            /\ e.price = p.takeProfit
            /\ profile.takeProfit # NoRule /\ bar.high >= p.takeProfit
  <2>1. ~Stops(p, bar)
    <3>1. Len(profile.scaleOut) \in Nat
      BY BacktestAssumption, LenProperties
    <3> QED  BY <3>1, <1>5, <1>20
  <2>2. e.price > p.price
    <3>1. PICK b \in Bars : p.price = EntryFillPrice(p.symbol, b.open)
      BY DEF Ready, Locked
    <3>2. p.takeProfit = Plus(p.price, profile.takeProfit) /\ p.symbol \in Universe
      BY <1>4 DEF Ready, Locked, Holding
    <3> QED  BY <1>20, <3>1, <3>2, BacktestAssumption
  <2>3. e.price <= bar.high
    BY <1>20, <1>6, <1>13
  <2>4. t.at <= Plus(bar.high, k) /\ t.at >= Plus(p.price, k)
    BY <2>2, <2>3, <1>6, <1>13, <1>15
  <2> QED  BY <1>2, <1>7, <1>8, <1>9, <1>10, <1>15, <1>20, <2>1, <2>4 DEF FilledHonestly
<1>21. CASE /\ e.rank = 5 + Len(profile.scaleOut) /\ e.reason = "time_stop"
            /\ e.price = bar.close /\ p.daysHeld >= profile.maxHold
  <2>1. ~Stops(p, bar)
    <3>1. Len(profile.scaleOut) \in Nat
      BY BacktestAssumption, LenProperties
    <3> QED  BY <3>1, <1>5, <1>21
  <2> QED  BY <1>2, <1>7, <1>8, <1>9, <1>10, <1>11, <1>12, <1>15, <1>21, <2>1 DEF FilledHonestly
<1> QED  BY <1>5, <1>16, <1>17, <1>18, <1>19, <1>20, <1>21, RuleCases

\* An entry that is due.
LEMMA OpenedReady ==
  ASSUME NEW n, NEW today, Reaches(n, today), profile \in ExitProfiles,
         NEW s \in Universe, today[s] \in Bars,
         NEW p, p = OpenPosition(s, today[s], n + 1)
  PROVE  /\ Ready(n, today, p) /\ p.symbol = s /\ p.entered = n + 1
<1>1. PICK bar \in Bars : bar = today[s]
  OBVIOUS
<1>2. n \in Nat
  BY NextDate
<1>3. /\ p.symbol = s /\ p.entered = n + 1 /\ p.price = EntryFillPrice(s, bar.open)
      /\ p.stop = Plus(p.price, -profile.stop) /\ p.takeProfit = Plus(p.price, profile.takeProfit)
      /\ p.scaledOut = {} /\ p.remaining = 100 /\ p.daysHeld = 0 /\ p.watermark = p.price
  BY <1>1 DEF OpenPosition
<1>4. p \in Holding
  <2>1. profile.stop \in Int /\ profile.takeProfit \in Int
    BY BacktestAssumption
  <2>2. p.price \in Nat /\ p.price \in Int
    BY <1>3, BarTypes, EntryPriceType
  <2>3. -profile.stop \in Int
    BY <2>1
  <2>4. p.takeProfit \in Int
    BY <2>1, <2>2, <1>3, PlusType
  <2>5. p.stop \in Int
    BY <2>2, <2>3, <1>3, PlusType
  <2>6. p.price \in Nat /\ p.watermark \in Nat /\ p.entered \in Nat
    BY <2>2, <1>2, <1>3
  <2>7. p = [symbol |-> p.symbol, entered |-> p.entered, price |-> p.price, stop |-> p.stop,
             takeProfit |-> p.takeProfit, scaledOut |-> {}, remaining |-> 100, daysHeld |-> 0,
             watermark |-> p.watermark]
    BY DEF OpenPosition
  <2> QED  BY <2>4, <2>5, <2>6, <2>7, <1>3 DEF Holding
<1>5. Locked(p)
  BY <1>3 DEF Locked
<1>6. BarDates(s, n + 1, n) = {}
  BY <1>2 DEF BarDates
<1>7. IsPeak(p.watermark, p, n)
  <2>1. p.price \in Nat
    BY <1>4 DEF Holding
  <2>2. Closes(p, n) = {p.price}
    BY <1>3, <1>6 DEF Closes
  <2> QED  BY <2>1, <2>2, <1>3 DEF IsPeak
<1>8. NotStoppedBefore(p, n + 1)
  <2>1. (n + 1) - 1 = n
    BY <1>2
  <2> QED  BY <2>1, <1>3, <1>6 DEF NotStoppedBefore
<1>9. p.daysHeld = Cardinality(BarDates(p.symbol, p.entered + 1, n + 1)')
  <2>1. BarDates(p.symbol, p.entered + 1, n + 1)' = {}
    BY <1>2, <1>3 DEF BarDates
  <2>2. Cardinality({}) = 0
    BY FS_EmptySet
  <2> QED  BY <2>1, <2>2, <1>3
<1> QED  BY <1>1, <1>2, <1>3, <1>4, <1>5, <1>7, <1>8, <1>9 DEF Ready

\* A position of an earlier date.
LEMMA CarriedReady ==
  ASSUME NEW n, NEW today, Reaches(n, today), profile \in ExitProfiles,
         NEW q \in Holding, Locked(q), Carries(q, n), today[q.symbol] \in Bars, today[q.symbol] # NoBar,
         NEW p, p = [q EXCEPT !.daysHeld = @ + 1]
  PROVE  Ready(n, today, p) /\ SamePosition(q, p)
<1>1. n \in Nat
  BY NextDate
<1>2. /\ p.symbol = q.symbol /\ p.entered = q.entered /\ p.price = q.price /\ p.stop = q.stop
      /\ p.takeProfit = q.takeProfit /\ p.remaining = q.remaining /\ p.watermark = q.watermark
      /\ p.daysHeld = q.daysHeld + 1
  BY DEF Holding
<1>3. SamePosition(q, p)
  BY <1>2 DEF SamePosition
<1>4. p \in Holding
  <2>1. q.daysHeld + 1 \in Nat
    BY DEF Holding
  <2> QED  BY <2>1 DEF Holding
<1>5. Locked(p)
  BY <1>2 DEF Locked
<1>6. q.entered \in 1..n /\ ~profile.eodFlat /\ IsPeak(q.watermark, q, n) /\ NotStoppedBefore(q, n + 1)
  BY DEF Carries
<1>7. IsPeak(p.watermark, p, n) /\ NotStoppedBefore(p, n + 1)
  <2>1. Closes(p, n) = Closes(q, n)
    BY <1>3, SameLevels
  <2>2. NotStoppedBefore(p, n + 1)
    BY <1>3, <1>6, SameStops
  <2> QED  BY <2>1, <2>2, <1>2, <1>6 DEF IsPeak
<1>8. p.daysHeld = Cardinality(BarDates(p.symbol, p.entered + 1, n + 1)')
  <2>1. PICK s, a : s = q.symbol /\ a = q.entered + 1
    OBVIOUS
  <2>2. a \in 1..(n + 1)
    BY <2>1, <1>1, <1>6
  <2>3. BarDates(s, a, n + 1)' = BarDates(s, a, n) \cup {n + 1}
    BY <2>1, <2>2, DatesGrow
  <2>4. IsFiniteSet(BarDates(s, a, n)) /\ n + 1 \notin BarDates(s, a, n)
    <3>1. IsFiniteSet(a..n)
      BY <2>2, <1>1, FS_Interval
    <3>2. BarDates(s, a, n) \subseteq a..n
      BY DEF BarDates
    <3>3. IsFiniteSet(BarDates(s, a, n))
      BY <3>1, <3>2, FS_Subset
    <3> QED  BY <3>2, <3>3, <1>1, <2>2
  <2>5. Cardinality(BarDates(s, a, n) \cup {n + 1}) = Cardinality(BarDates(s, a, n)) + 1
    BY <2>4, FS_AddElement
  <2>6. q.daysHeld = Cardinality(BarDates(s, a, n))
    BY <2>1 DEF Carries
  <2> QED  BY <2>1, <2>3, <2>5, <2>6, <1>2
<1>9. p.entered \in 1..(n + 1)
  BY <1>1, <1>2, <1>6
<1> QED  BY <1>2, <1>3, <1>4, <1>5, <1>6, <1>7, <1>8, <1>9 DEF Ready

\* What is left of a position after its bar.
LEMMA KeptCarries ==
  ASSUME NEW n, NEW today, Reaches(n, today), profile \in ExitProfiles,
         NEW p, Ready(n, today, p), today[p.symbol] # NoBar,
         NEW exits, exits = EvaluateExit(p, today[p.symbol], p.daysHeld),
         NEW q, q = AfterBar(p, today[p.symbol], exits), q.remaining > 0
  PROVE  q \in Holding /\ Locked(q)' /\ Carries(q, n + 1)' /\ SamePosition(p, q)
<1>1. PICK bar \in Bars : bar = today[p.symbol]
  BY DEF Ready
<1>2. p \in Holding /\ p.entered \in 1..(n + 1) /\ n \in Nat /\ p.daysHeld \in Nat /\ p.watermark \in Nat
  BY NextDate DEF Ready, Holding
<1>3. /\ exits \subseteq Firing(p, bar, p.daysHeld)
      /\ profile.eodFlat \/ Stops(p, bar) =>
           exits # {} /\ \A e \in exits : e.rank <= 3 /\ e.fraction = 100
  BY <1>1, <1>2, FirstRule
<1>4. \A e \in exits : e.rank \in Nat /\ e.fraction \in 1..100
  BY <1>2, <1>3, RuleTypes
<1>5. /\ Sold(exits) \in Nat
      /\ profile.eodFlat \/ Stops(p, bar) => Sold(exits) = 100
  <2>1. CASE exits = {}
    BY <2>1, <1>3 DEF Sold
  <2>2. CASE exits # {}
    <3>1. PICK e \in exits : Sold(exits) = e.fraction
      BY <2>2 DEF Sold
    <3> QED  BY <3>1, <1>3, <1>4
  <2> QED  BY <2>1, <2>2
<1>6. PICK w, r, o :
        /\ w = IF \E e \in exits : e.rank <= 2 THEN p.watermark ELSE Higher(p.watermark, bar.close)
        /\ r = p.remaining - Sold(exits)
        /\ o = p.scaledOut \cup {e.rank - 3 : e \in {x \in exits : x.reason = "scale_out"}}
  OBVIOUS
<1>7. q = [[[p EXCEPT !.watermark = w] EXCEPT !.remaining = r] EXCEPT !.scaledOut = o]
  BY <1>1, <1>6 DEF AfterBar
<1>8. /\ q.symbol = p.symbol /\ q.entered = p.entered /\ q.price = p.price /\ q.stop = p.stop
      /\ q.takeProfit = p.takeProfit /\ q.daysHeld = p.daysHeld
      /\ q.watermark = w /\ q.remaining = r /\ q.scaledOut = o
  BY <1>2, <1>7 DEF Holding
<1>9. SamePosition(p, q)
  BY <1>8 DEF SamePosition
<1>10. p.remaining \in 1..100 /\ bar.close \in Nat
  BY BarTypes DEF Ready, Locked
<1>11. r \in 1..100 /\ ~profile.eodFlat /\ ~Stops(p, bar)
  BY <1>5, <1>6, <1>8, <1>10
<1>12. w = Higher(p.watermark, bar.close)
  <2>1. \A e \in exits : e.rank > 2
    <3> SUFFICES ASSUME NEW e \in exits PROVE e.rank > 2
      OBVIOUS
    <3>1. \/ e.rank = 1 /\ profile.eodFlat
          \/ e.rank = 2 /\ profile.stop # NoRule /\ bar.low <= p.stop
          \/ e.rank = 3
          \/ \E k \in DOMAIN profile.scaleOut : e.rank = 3 + k
          \/ e.rank = 4 + Len(profile.scaleOut)
          \/ e.rank = 5 + Len(profile.scaleOut)
      BY <1>3, RuleCases
    <3>2. Len(profile.scaleOut) \in Nat /\ \A k \in DOMAIN profile.scaleOut : k \in Nat /\ k > 0
      BY BacktestAssumption, LenProperties
    <3> QED  BY <3>1, <3>2, <1>11 DEF Stops
  <2>2. ~ \E e \in exits : e.rank <= 2
    BY <2>1, <1>4
  <2> QED  BY <2>2, <1>6
<1>13. w \in Nat /\ w >= p.watermark /\ w >= bar.close /\ w \in {p.watermark, bar.close}
  BY <1>2, <1>10, <1>12 DEF Higher
<1>14. q \in Holding
  <2>1. o \in SUBSET Int
    BY <1>2, <1>4, <1>6 DEF Holding
  <2>2. r \in Int
    BY <1>11
  <2>3. [p EXCEPT !.watermark = w] \in Holding
    BY <1>2, <1>13 DEF Holding
  <2>4. [[p EXCEPT !.watermark = w] EXCEPT !.remaining = r] \in Holding
    BY <2>2, <2>3 DEF Holding
  <2> QED  BY <1>7, <2>1, <2>4 DEF Holding
<1>15. Locked(q)'
  <2>1. Locked(p) /\ profile' = profile
    BY DEF Ready, Reaches
  <2> QED  BY <2>1, <1>8, <1>11 DEF Locked
<1>16. BarDates(p.symbol, p.entered, n + 1)' = BarDates(p.symbol, p.entered, n) \cup {n + 1}
  BY <1>2, DatesGrow
<1>17. IsPeak(q.watermark, q, n + 1)'
  <2>1. IsPeak(p.watermark, p, n)
    BY DEF Ready
  <2>2. calendar'[n + 1][p.symbol] = bar
    BY <1>1, NextDate
  <2>3. \A d \in BarDates(p.symbol, p.entered, n) : calendar'[d] = calendar[d]
    BY <1>2, NextDate DEF BarDates
  <2>4. Closes(p, n + 1)' = Closes(p, n) \cup {bar.close}
    <3>1. Closes(p, n + 1)' = {p.price} \cup
            {calendar'[d][p.symbol].close : d \in BarDates(p.symbol, p.entered, n) \cup {n + 1}}
      BY <1>16 DEF Closes
    <3> QED  BY <3>1, <2>2, <2>3 DEF Closes
  <2>5. Closes(q, n + 1)' = Closes(p, n) \cup {bar.close}
    BY <2>4, <1>9, SameLevels
  <2>6. \A c \in Closes(p, n) : c \in Nat
    <3>1. p.entered > 0
      BY <1>2
    <3> QED  BY <3>1, <1>2, ClosesAre
  <2>7. w \in Closes(p, n) \cup {bar.close}
    BY <2>1, <1>13 DEF IsPeak
  <2>8. \A c \in Closes(p, n) \cup {bar.close} : c <= w
    <3>1. \A c \in Closes(p, n) : c <= p.watermark
      BY <2>1 DEF IsPeak
    <3> QED  BY <3>1, <2>6, <1>2, <1>10, <1>13
  <2> QED  BY <2>5, <2>7, <2>8, <1>8 DEF IsPeak
<1>18. NotStoppedBefore(q, (n + 1) + 1)'
  <2>1. NotStoppedBefore(p, n + 1)'
    <3>1. NotStoppedBefore(p, n + 1)
      BY DEF Ready
    <3>2. n + 1 \in Nat /\ p.entered \in Nat /\ p.entered > 0
      BY <1>2
    <3> QED  BY <3>1, <3>2, NotStoppedKept
  <2>2. ~StoppedOn(p, n + 1)'
    BY <1>1, <1>11, StopsAre
  <2>3. (n + 1) - 1 = n /\ ((n + 1) + 1) - 1 = n + 1
    BY <1>2
  <2>4. BarDates(p.symbol, p.entered, n)' = BarDates(p.symbol, p.entered, n)
    BY <1>2, DatesKept
  <2>5. \A d \in BarDates(p.symbol, p.entered, n) : profile'.eodFlat \/ ~StoppedOn(p, d)'
    BY <2>1, <2>3, <2>4 DEF NotStoppedBefore
  <2>6. NotStoppedBefore(p, (n + 1) + 1)'
    BY <2>2, <2>3, <2>5, <1>16 DEF NotStoppedBefore
  <2> QED  BY <2>6, <1>9, SameStops
<1>19. q.daysHeld = Cardinality(BarDates(q.symbol, q.entered + 1, n + 1)')
  BY <1>8 DEF Ready
<1>20. q.entered \in 1..(n + 1) /\ ~profile'.eodFlat
  BY <1>2, <1>8, <1>11 DEF Reaches
<1> QED  BY <1>9, <1>14, <1>15, <1>17, <1>18, <1>19, <1>20 DEF Carries

-----------------------------------------------------------------------------
(* A date.                                                                 *)

DateStep(n, today, picked) ==
  /\ Reaches(n, today) /\ picked \subseteq Universe
  /\ signals' = Append(signals, picked)
  /\ trades' = trades \cup
       UNION {{Recorded(p, e, Date) : e \in Exits(p, today)} : p \in Facing(today)}
  /\ openPositions' = Kept(today)
  /\ pendingEntries' = (pendingEntries \ Trading(today))
       \cup (picked \ ({p.symbol : p \in Kept(today)} \cup (pendingEntries \ Trading(today))))

LEMMA DateSteps ==
  ASSUME BacktestTypeInv, RunDate
  PROVE  \E n, today, picked : DateStep(n, today, picked)
<1>1. PICK today \in [Universe -> Bars \cup {NoBar}] : \E picked \in SUBSET Universe :
        /\ calendar' = Append(calendar, today)
        /\ signals' = Append(signals, picked)
        /\ trades' = trades \cup
             UNION {{Recorded(p, e, Date) : e \in Exits(p, today)} : p \in Facing(today)}
        /\ openPositions' = Kept(today)
        /\ pendingEntries' = (pendingEntries \ Trading(today))
             \cup (picked \ ({p.symbol : p \in Kept(today)} \cup (pendingEntries \ Trading(today))))
        /\ UNCHANGED profile
  BY DEF RunDate
<1>2. PICK n : n = Len(calendar)
  OBVIOUS
<1>3. Reaches(n, today)
  BY <1>1, <1>2 DEF Reaches, BacktestTypeInv
<1> QED  BY <1>1, <1>3 DEF DateStep

\* Every position that faces a bar is ready for it, and is the one that is due
\* or the one that was open.
LEMMA FacingReady ==
  ASSUME BacktestInv, NEW n, NEW today, NEW picked, DateStep(n, today, picked),
         NEW p \in Facing(today)
  PROVE  /\ Ready(n, today, p) /\ p.symbol \in Trading(today)
         /\ \/ p.symbol \in pendingEntries /\ p.entered = n + 1
            \/ \E q \in openPositions : SamePosition(q, p) /\ p = [q EXCEPT !.daysHeld = @ + 1]
<1>1. /\ Reaches(n, today) /\ profile \in ExitProfiles /\ pendingEntries \subseteq Universe
      /\ openPositions \subseteq Holding /\ Date = n + 1 /\ n = Len(calendar)
  <2>1. Reaches(n, today)
    BY DEF DateStep
  <2> QED  BY <2>1, NextDate DEF BacktestInv, BacktestTypeInv, Reaches
<1>2. \A s \in Trading(today) : today[s] \in Bars /\ today[s] # NoBar
  BY <1>1 DEF Trading, Reaches
<1>3. CASE p \in Opened(today)
  <2>1. PICK s \in pendingEntries \cap Trading(today) : p = OpenPosition(s, today[s], Date)
    BY <1>3 DEF Opened
  <2>2. p = OpenPosition(s, today[s], n + 1) /\ s \in Universe /\ today[s] \in Bars
    BY <2>1, <1>1, <1>2
  <2>3. Ready(n, today, p) /\ p.symbol = s /\ p.entered = n + 1
    BY <2>2, <1>1, OpenedReady
  <2> QED  BY <2>1, <2>3
<1>4. CASE p \in Carried(today)
  <2>1. PICK q \in openPositions : q.symbol \in Trading(today) /\ p = [q EXCEPT !.daysHeld = @ + 1]
    BY <1>4 DEF Carried
  <2>2. q \in Holding /\ Locked(q) /\ Carries(q, n)
    BY <1>1 DEF BacktestInv, HoldingsInv
  <2>3. today[q.symbol] \in Bars /\ today[q.symbol] # NoBar
    BY <2>1, <1>2
  <2>4. Ready(n, today, p) /\ SamePosition(q, p)
    BY <2>1, <2>2, <2>3, <1>1, CarriedReady
  <2> QED  BY <2>1, <2>4 DEF SamePosition
<1> QED  BY <1>3, <1>4 DEF Facing

LEMMA OneFaces ==
  ASSUME BacktestInv, NEW n, NEW today, NEW picked, DateStep(n, today, picked),
         NEW p \in Facing(today), NEW r \in Facing(today), p.symbol = r.symbol
  PROVE  p = r
<1>1. HoldingsInv
  BY DEF BacktestInv
<1>2. CASE p \in Opened(today) /\ r \in Opened(today)
  BY <1>2 DEF Opened, OpenPosition
<1>3. ASSUME NEW x \in Opened(today) PROVE x.symbol \in pendingEntries
  BY DEF Opened, OpenPosition
<1>4. ASSUME NEW x \in Carried(today)
      PROVE  \E q \in openPositions : q.symbol = x.symbol /\ x = [q EXCEPT !.daysHeld = @ + 1]
  <2>1. PICK q \in openPositions : x = [q EXCEPT !.daysHeld = @ + 1]
    BY DEF Carried
  <2>2. q \in Holding
    BY DEF BacktestInv, BacktestTypeInv
  <2>3. x.symbol = q.symbol
    BY <2>1, <2>2 DEF Holding
  <2> QED  BY <2>1, <2>3
<1>5. \A q \in openPositions : q.symbol \notin pendingEntries
  BY <1>1 DEF HoldingsInv
<1>6. CASE p \in Carried(today) /\ r \in Carried(today)
  <2>1. PICK q \in openPositions : q.symbol = p.symbol /\ p = [q EXCEPT !.daysHeld = @ + 1]
    BY <1>4, <1>6
  <2>2. PICK x \in openPositions : x.symbol = r.symbol /\ r = [x EXCEPT !.daysHeld = @ + 1]
    BY <1>4, <1>6
  <2>3. q = x
    BY <1>1, <2>1, <2>2 DEF HoldingsInv
  <2> QED  BY <2>1, <2>2, <2>3
<1>7. p \in Opened(today) \/ p \in Carried(today)
  BY DEF Facing
<1>8. r \in Opened(today) \/ r \in Carried(today)
  BY DEF Facing
<1>9. CASE p \in Opened(today) /\ r \in Carried(today)
  BY <1>3, <1>4, <1>5, <1>9
<1>10. CASE p \in Carried(today) /\ r \in Opened(today)
  BY <1>3, <1>4, <1>5, <1>10
<1> QED  BY <1>2, <1>6, <1>7, <1>8, <1>9, <1>10

\* A trade of a date is one of a position that faced its bar.
LEMMA NewTrades ==
  ASSUME BacktestInv, NEW n, NEW today, NEW picked, DateStep(n, today, picked),
         NEW t \in trades', t \notin trades
  PROVE  /\ t \in Trade /\ FilledHonestly(t)' /\ NotStoppedBefore(t, n + 1)' /\ t.exited = n + 1
         /\ \E p \in Facing(today) : SamePosition(p, t)
<1>1. Reaches(n, today) /\ profile \in ExitProfiles /\ Date = n + 1
  <2>1. Reaches(n, today)
    BY DEF DateStep
  <2> QED  BY <2>1, NextDate DEF BacktestInv, BacktestTypeInv
<1>2. PICK p \in Facing(today) : \E e \in Exits(p, today) : t = Recorded(p, e, Date)
  <2>1. t \in UNION {{Recorded(p, e, Date) : e \in Exits(p, today)} : p \in Facing(today)}
    BY DEF DateStep
  <2>2. PICK p \in Facing(today) : t \in {Recorded(p, e, Date) : e \in Exits(p, today)}
    BY <2>1
  <2> QED  BY <2>2
<1>3. Ready(n, today, p)
  BY FacingReady
<1>4. PICK e \in Exits(p, today) : t = Recorded(p, e, Date)
  BY <1>2
<1>5. t = Recorded(p, e, n + 1) /\ e \in EvaluateExit(p, today[p.symbol], p.daysHeld)
  BY <1>1, <1>4 DEF Exits
<1>6. t \in Trade /\ FilledHonestly(t)' /\ NotStoppedBefore(t, n + 1)'
  BY <1>1, <1>3, <1>5, HonestTrade
<1>7. t.exited = n + 1 /\ SamePosition(p, t)
  BY <1>5 DEF Recorded, SamePosition
<1> QED  BY <1>6, <1>7

\* A position or trade was entered on a signal, and stays so: trades made later
\* on its symbol are its own or of positions entered later.
LEMMA SignalKept ==
  ASSUME BacktestInv, NEW n, NEW today, NEW picked, DateStep(n, today, picked),
         NEW p, p.entered \in 1..(n + 1), EnteredOnSignal(p),
         \A t \in trades' : t.symbol = p.symbol /\ t.entered < p.entered => t \in trades
  PROVE  EnteredOnSignal(p)'
<1>1. PICK d \in 1..(p.entered - 1) :
        /\ p.symbol \in signals[d] /\ BarDates(p.symbol, d + 1, p.entered - 1) = {}
        /\ \A t \in trades : t.symbol = p.symbol /\ t.entered < p.entered => t.exited <= d
  BY DEF EnteredOnSignal
<1>2. Reaches(n, today) /\ n \in Nat /\ n = Len(calendar)
  <2>1. Reaches(n, today)
    BY DEF DateStep
  <2> QED  BY <2>1, NextDate DEF Reaches
<1>3. d \in 1..n /\ p.entered - 1 \in Int /\ p.entered - 1 <= n /\ d + 1 \in Nat /\ d + 1 > 0
  BY <1>2
<1>4. signals'[d] = signals[d]
  <2>1. signals' = Append(signals, picked) /\ signals \in Seq(SUBSET Universe)
    BY DEF DateStep, BacktestInv, BacktestTypeInv
  <2>2. d \in 1..Len(signals) /\ picked \in SUBSET Universe
    BY <1>2, <1>3 DEF DateStep, BacktestInv, BacktestTypeInv
  <2> QED  BY <2>1, <2>2, AppendProperties
<1>5. BarDates(p.symbol, d + 1, p.entered - 1)' = {}
  BY <1>1, <1>2, <1>3, DatesKept
<1>6. \A t \in trades' : t.symbol = p.symbol /\ t.entered < p.entered => t.exited <= d
  BY <1>1
<1> QED  BY <1>1, <1>4, <1>5, <1>6 DEF EnteredOnSignal

LEMMA FacingTrades ==
  ASSUME BacktestInv, NEW n, NEW today, NEW picked, DateStep(n, today, picked),
         NEW p \in Facing(today)
  PROVE  /\ TradesBefore(p)'
         /\ \A t \in trades' : t.symbol = p.symbol /\ t \notin trades => t.entered = p.entered
<1>1. ASSUME NEW t \in trades', t.symbol = p.symbol, t \notin trades
      PROVE  t.entered = p.entered
  <2>1. PICK r \in Facing(today) : SamePosition(r, t)
    BY <1>1, NewTrades
  <2>2. r = p
    BY <1>1, <2>1, OneFaces DEF SamePosition
  <2> QED  BY <2>1, <2>2 DEF SamePosition
<1>2. n \in Nat /\ n = Len(calendar) /\ Ready(n, today, p)
  <2>1. Reaches(n, today)
    BY DEF DateStep
  <2> QED  BY <2>1, NextDate, FacingReady DEF Reaches
<1>3. p.entered \in Nat
  BY <1>2 DEF Ready
<1>4. ASSUME NEW t \in trades, t.symbol = p.symbol
      PROVE  t.entered <= p.entered
  <2>1. CASE p.entered = n + 1
    <3>1. t.entered \in 1..t.exited /\ t.exited \in 1..n
      BY <1>2 DEF BacktestInv, TradesInv
    <3> QED  BY <2>1, <3>1, <1>2
  <2>2. CASE \E q \in openPositions : SamePosition(q, p)
    <3>1. PICK q \in openPositions : SamePosition(q, p)
      BY <2>2
    <3>2. TradesBefore(q)
      BY DEF BacktestInv, HoldingsInv
    <3> QED  BY <3>1, <3>2, <1>4 DEF TradesBefore, SamePosition
  <2> QED  BY <2>1, <2>2, FacingReady
<1>5. \A t \in trades' : t.symbol = p.symbol => t.entered <= p.entered
  <2> SUFFICES ASSUME NEW t \in trades', t.symbol = p.symbol PROVE t.entered <= p.entered
    OBVIOUS
  <2>1. CASE t \in trades
    BY <2>1, <1>4
  <2>2. CASE t \notin trades
    BY <2>2, <1>1, <1>3
  <2> QED  BY <2>1, <2>2
<1> QED  BY <1>1, <1>5 DEF TradesBefore

LEMMA FacingOnSignal ==
  ASSUME BacktestInv, NEW n, NEW today, NEW picked, DateStep(n, today, picked),
         NEW p \in Facing(today)
  PROVE  EnteredOnSignal(p)'
<1>1. /\ Reaches(n, today) /\ n \in Nat /\ n = Len(calendar) /\ Ready(n, today, p)
      /\ p.entered \in 1..(n + 1)
  <2>1. Reaches(n, today)
    BY DEF DateStep
  <2>2. Ready(n, today, p)
    BY FacingReady
  <2> QED  BY <2>1, <2>2, NextDate DEF Reaches, Ready
<1>2. \A t \in trades' : t.symbol = p.symbol /\ t.entered < p.entered => t \in trades
  <2>1. \A t \in trades' : t.symbol = p.symbol /\ t \notin trades => t.entered = p.entered
    BY FacingTrades
  <2>2. p.entered \in Nat
    BY <1>1
  <2> QED  BY <2>1, <2>2
<1>3. CASE \E q \in openPositions : SamePosition(q, p)
  <2>1. PICK q \in openPositions : SamePosition(q, p)
    BY <1>3
  <2>2. EnteredOnSignal(q)
    BY DEF BacktestInv, HoldingsInv
  <2>3. EnteredOnSignal(p)
    BY <2>1, <2>2, SameSignal
  <2> QED  BY <2>3, <1>1, <1>2, SignalKept
<1>4. CASE p.symbol \in pendingEntries /\ p.entered = n + 1
  <2>1. PICK d \in 1..n :
          /\ p.symbol \in signals[d] /\ BarDates(p.symbol, d + 1, n) = {}
          /\ \A t \in trades : t.symbol = p.symbol => t.exited <= d
    BY <1>1, <1>4 DEF BacktestInv, EntriesInv
  <2>2. EnteredOnSignal(p)
    <3>1. p.entered - 1 = n
      BY <1>1, <1>4
    <3> QED  BY <2>1, <3>1 DEF EnteredOnSignal
  <2> QED  BY <2>2, <1>1, <1>2, SignalKept
<1> QED  BY <1>3, <1>4, FacingReady

\* A position whose symbol does not trade on the date.
LEMMA IdleCarries ==
  ASSUME BacktestInv, NEW n, NEW today, NEW picked, DateStep(n, today, picked),
         NEW q \in openPositions, q.symbol \notin Trading(today)
  PROVE  /\ Locked(q)' /\ Carries(q, n + 1)' /\ EnteredOnSignal(q)' /\ TradesBefore(q)'
<1>1. Reaches(n, today) /\ n \in Nat /\ n = Len(calendar) /\ profile' = profile
  <2>1. Reaches(n, today)
    BY DEF DateStep
  <2> QED  BY <2>1, NextDate DEF Reaches
<1>2. /\ q \in Holding /\ Locked(q) /\ Carries(q, n) /\ EnteredOnSignal(q) /\ TradesBefore(q)
      /\ q.symbol \notin pendingEntries
  BY <1>1 DEF BacktestInv, BacktestTypeInv, HoldingsInv
<1>3. q.entered \in 1..n /\ q.entered \in Nat /\ q.entered > 0
  <2>1. q.entered \in 1..n
    BY <1>2 DEF Carries
  <2> QED  BY <2>1, <1>1
<1>4. today[q.symbol] = NoBar
  BY <1>2 DEF Trading, Holding
<1>5. ASSUME NEW a \in 1..(n + 1)
      PROVE  BarDates(q.symbol, a, n + 1)' = BarDates(q.symbol, a, n)
  <2>1. BarDates(q.symbol, a, n + 1)'
          = BarDates(q.symbol, a, n) \cup {d \in {n + 1} : today[q.symbol] # NoBar}
    BY <1>1, DatesGrow
  <2>2. {d \in {n + 1} : today[q.symbol] # NoBar} = {}
    BY <1>4
  <2> QED  BY <2>1, <2>2
<1>6. Locked(q)'
  BY <1>1, <1>2 DEF Locked
<1>7. IsPeak(q.watermark, q, n + 1)'
  <2>1. BarDates(q.symbol, q.entered, n + 1)' = BarDates(q.symbol, q.entered, n)
    BY <1>1, <1>3, <1>5
  <2>2. \A d \in BarDates(q.symbol, q.entered, n) : calendar'[d] = calendar[d]
    BY <1>1, <1>3, NextDate DEF BarDates
  <2>3. Closes(q, n + 1)' = Closes(q, n)
    BY <2>1, <2>2 DEF Closes
  <2>4. IsPeak(q.watermark, q, n)
    BY <1>2 DEF Carries
  <2> QED  BY <2>3, <2>4 DEF IsPeak
<1>8. q.daysHeld = Cardinality(BarDates(q.symbol, q.entered + 1, n + 1)')
  <2>1. BarDates(q.symbol, q.entered + 1, n + 1)' = BarDates(q.symbol, q.entered + 1, n)
    BY <1>1, <1>3, <1>5
  <2> QED  BY <2>1, <1>2 DEF Carries
<1>9. NotStoppedBefore(q, (n + 1) + 1)'
  <2>1. (n + 1) - 1 = n /\ ((n + 1) + 1) - 1 = n + 1
    BY <1>1
  <2>2. BarDates(q.symbol, q.entered, n + 1)' = BarDates(q.symbol, q.entered, n)
    BY <1>1, <1>3, <1>5
  <2>3. \A d \in BarDates(q.symbol, q.entered, n) : d \in 1..n
    BY <1>1, <1>3 DEF BarDates
  <2>4. \A d \in BarDates(q.symbol, q.entered, n) : StoppedOn(q, d)' <=> StoppedOn(q, d)
    BY <2>3, <1>1, <1>3, StoppedKept
  <2>5. \A d \in BarDates(q.symbol, q.entered, n) : profile.eodFlat \/ ~StoppedOn(q, d)
    BY <2>1, <1>2 DEF Carries, NotStoppedBefore
  <2> QED  BY <2>1, <2>2, <2>4, <2>5, <1>1 DEF NotStoppedBefore
<1>10. Carries(q, n + 1)'
  <2>1. q.entered \in 1..(n + 1) /\ ~profile'.eodFlat
    BY <1>1, <1>2, <1>3 DEF Carries
  <2> QED  BY <2>1, <1>7, <1>8, <1>9 DEF Carries
<1>11. ASSUME NEW t \in trades', t.symbol = q.symbol PROVE t \in trades
  <2> SUFFICES ASSUME t \notin trades PROVE FALSE
    OBVIOUS
  <2>1. PICK p \in Facing(today) : SamePosition(p, t)
    BY NewTrades
  <2>2. p.symbol \in Trading(today) /\ p.symbol = q.symbol
    BY <2>1, <1>11, FacingReady DEF SamePosition
  <2> QED  BY <2>2
<1>12. EnteredOnSignal(q)'
  <2>1. q.entered \in 1..(n + 1)
    BY <1>1, <1>3
  <2> QED  BY <2>1, <1>2, <1>11, SignalKept
<1>13. TradesBefore(q)'
  BY <1>2, <1>11 DEF TradesBefore
<1> QED  BY <1>6, <1>10, <1>12, <1>13

LEMMA KeptPositions ==
  ASSUME BacktestInv, NEW n, NEW today, NEW picked, DateStep(n, today, picked),
         NEW q \in openPositions'
  PROVE  /\ q \in Holding /\ Locked(q)' /\ Carries(q, n + 1)' /\ EnteredOnSignal(q)'
         /\ TradesBefore(q)' /\ q.symbol \notin pendingEntries'
         /\ \A r \in openPositions' : q.symbol = r.symbol => q = r
<1>1. Reaches(n, today) /\ profile \in ExitProfiles
  BY DEF DateStep, BacktestInv, BacktestTypeInv
<1>2. ASSUME NEW x \in openPositions'
      PROVE  \/ x \in openPositions /\ x.symbol \notin Trading(today)
             \/ \E p \in Facing(today) :
                  x = AfterBar(p, today[p.symbol], Exits(p, today)) /\ x.remaining > 0
  BY <1>2 DEF DateStep, Kept
<1>3. ASSUME NEW p \in Facing(today), NEW x,
             x = AfterBar(p, today[p.symbol], Exits(p, today)), x.remaining > 0
      PROVE  /\ x \in Holding /\ Locked(x)' /\ Carries(x, n + 1)' /\ SamePosition(p, x)
             /\ x.symbol \in Trading(today) /\ EnteredOnSignal(x)' /\ TradesBefore(x)'
  <2>1. Ready(n, today, p) /\ p.symbol \in Trading(today)
    BY FacingReady
  <2>2. today[p.symbol] # NoBar
    BY <2>1 DEF Trading
  <2>3. x \in Holding /\ Locked(x)' /\ Carries(x, n + 1)' /\ SamePosition(p, x)
    <3>1. PICK exits : exits = EvaluateExit(p, today[p.symbol], p.daysHeld)
      OBVIOUS
    <3>2. x = AfterBar(p, today[p.symbol], exits)
      BY <1>3, <3>1 DEF Exits
    <3> QED  BY <1>1, <1>3, <2>1, <2>2, <3>1, <3>2, KeptCarries
  <2>4. EnteredOnSignal(x)'
    BY <2>3, FacingOnSignal, SameSignal
  <2>5. TradesBefore(x)'
    BY <2>3, FacingTrades DEF TradesBefore, SamePosition
  <2>6. x.symbol \in Trading(today)
    BY <2>1, <2>3 DEF SamePosition
  <2> QED  BY <2>3, <2>4, <2>5, <2>6
<1>4. q \in Holding /\ Locked(q)' /\ Carries(q, n + 1)' /\ EnteredOnSignal(q)' /\ TradesBefore(q)'
  <2>1. CASE q \in openPositions /\ q.symbol \notin Trading(today)
    <3>1. q \in Holding
      BY <2>1 DEF BacktestInv, BacktestTypeInv
    <3> QED  BY <2>1, <3>1, IdleCarries
  <2>2. CASE \E p \in Facing(today) :
                  q = AfterBar(p, today[p.symbol], Exits(p, today)) /\ q.remaining > 0
    BY <2>2, <1>3
  <2> QED  BY <2>1, <2>2, <1>2
<1>5. q.symbol \notin pendingEntries'
  <2>1. /\ pendingEntries' = (pendingEntries \ Trading(today))
             \cup (picked \ ({p.symbol : p \in Kept(today)} \cup (pendingEntries \ Trading(today))))
        /\ q \in Kept(today)
    BY DEF DateStep
  <2>2. q.symbol \notin pendingEntries \ Trading(today)
    <3>1. CASE q \in openPositions
      BY <3>1 DEF BacktestInv, HoldingsInv
    <3>2. CASE q.symbol \in Trading(today)
      BY <3>2
    <3> QED  BY <3>1, <3>2, <1>2, <1>3
  <2> QED  BY <2>1, <2>2
<1>6. ASSUME NEW r \in openPositions', q.symbol = r.symbol PROVE q = r
  <2>1. CASE q \in openPositions /\ q.symbol \notin Trading(today)
    <3>1. r \in openPositions
      BY <1>2, <1>3, <1>6, <2>1
    <3> QED  BY <2>1, <3>1, <1>6 DEF BacktestInv, HoldingsInv
  <2>2. CASE q.symbol \in Trading(today)
    <3>1. PICK p \in Facing(today) :
            q = AfterBar(p, today[p.symbol], Exits(p, today)) /\ q.remaining > 0
      BY <1>2, <2>2
    <3>2. PICK s \in Facing(today) :
            r = AfterBar(s, today[s.symbol], Exits(s, today)) /\ r.remaining > 0
      BY <1>2, <1>6, <2>2
    <3>3. p.symbol = s.symbol
      BY <3>1, <3>2, <1>3, <1>6 DEF SamePosition
    <3>4. p = s
      BY <3>3, OneFaces
    <3> QED  BY <3>1, <3>2, <3>4
  <2> QED  BY <2>1, <2>2, <1>2, <1>3
<1> QED  BY <1>4, <1>5, <1>6

\* A symbol waiting for its next bar was picked with none since.
LEMMA EntriesKept ==
  ASSUME BacktestInv, NEW n, NEW today, NEW picked, DateStep(n, today, picked)
  PROVE  EntriesInv' /\ pendingEntries' \subseteq Universe
<1>1. /\ Reaches(n, today) /\ n \in Nat /\ n = Len(calendar) /\ Len(calendar') = n + 1
      /\ signals \in Seq(SUBSET Universe) /\ Len(signals) = n
      /\ signals' = Append(signals, picked) /\ picked \in SUBSET Universe
      /\ pendingEntries \subseteq Universe
  <2>1. Reaches(n, today)
    BY DEF DateStep
  <2> QED  BY <2>1, NextDate DEF Reaches, DateStep, BacktestInv, BacktestTypeInv
<1>2. signals'[n + 1] = picked /\ \A d \in 1..n : signals'[d] = signals[d]
  BY <1>1, AppendProperties
<1>3. ASSUME NEW s \in pendingEntries'
      PROVE  s \in pendingEntries \ Trading(today) \/ s \in picked
  BY DEF DateStep
<1>4. pendingEntries' \subseteq Universe
  BY <1>1, <1>3
<1>5. \A t \in trades' : t.exited <= n + 1
  <2> SUFFICES ASSUME NEW t \in trades' PROVE t.exited <= n + 1
    OBVIOUS
  <2>1. CASE t \in trades
    <3>1. t.exited \in 1..n
      BY <2>1, <1>1 DEF BacktestInv, TradesInv
    <3> QED  BY <3>1, <1>1
  <2>2. CASE t \notin trades
    <3>1. t.exited = n + 1
      BY <2>2, NewTrades
    <3> QED  BY <3>1, <1>1
  <2> QED  BY <2>1, <2>2
<1>6. ASSUME NEW s \in pendingEntries'
      PROVE  \E d \in 1..(n + 1) :
               /\ s \in signals'[d] /\ BarDates(s, d + 1, n + 1)' = {}
               /\ \A t \in trades' : t.symbol = s => t.exited <= d
  <2>1. CASE s \in picked
    <3>1. BarDates(s, (n + 1) + 1, n + 1)' = {}
      BY <1>1 DEF BarDates
    <3> QED  BY <2>1, <3>1, <1>1, <1>2, <1>5
  <2>2. CASE s \in pendingEntries \ Trading(today)
    <3>1. PICK d \in 1..n :
            /\ s \in signals[d] /\ BarDates(s, d + 1, n) = {}
            /\ \A t \in trades : t.symbol = s => t.exited <= d
      BY <2>2, <1>1 DEF BacktestInv, EntriesInv
    <3>2. today[s] = NoBar /\ d + 1 \in 1..(n + 1) /\ d \in 1..(n + 1)
      BY <2>2, <1>1 DEF Trading
    <3>3. BarDates(s, d + 1, n + 1)' = {}
      <4>1. PICK a : a = d + 1
        OBVIOUS
      <4>2. BarDates(s, a, n + 1)' = BarDates(s, a, n) \cup {k \in {n + 1} : today[s] # NoBar}
        BY <4>1, <3>2, <1>1, DatesGrow
      <4>3. {k \in {n + 1} : today[s] # NoBar} = {}
        BY <3>2
      <4> QED  BY <4>1, <4>2, <4>3, <3>1
    <3>4. ASSUME NEW t \in trades', t.symbol = s PROVE t \in trades
      <4> SUFFICES ASSUME t \notin trades PROVE FALSE
        OBVIOUS
      <4>1. PICK p \in Facing(today) : SamePosition(p, t)
        BY NewTrades
      <4> QED  BY <4>1, <3>4, <2>2, FacingReady DEF SamePosition
    <3> QED  BY <3>1, <3>2, <3>3, <3>4, <1>2
  <2> QED  BY <2>1, <2>2, <1>3
<1> QED  BY <1>1, <1>4, <1>6 DEF EntriesInv

LEMMA TradesKept ==
  ASSUME BacktestInv, NEW n, NEW today, NEW picked, DateStep(n, today, picked)
  PROVE  TradesInv' /\ trades' \subseteq Trade
<1>1. Reaches(n, today) /\ n \in Nat /\ n = Len(calendar) /\ Len(calendar') = n + 1
  <2>1. Reaches(n, today)
    BY DEF DateStep
  <2> QED  BY <2>1, NextDate DEF Reaches
<1>2. ASSUME NEW t \in trades'
      PROVE  /\ t \in Trade /\ t.entered \in 1..t.exited /\ t.exited \in 1..(n + 1)
             /\ EnteredOnSignal(t)' /\ NotStoppedBefore(t, t.exited)' /\ FilledHonestly(t)'
  <2>1. CASE t \in trades
    <3>1. /\ t \in Trade /\ t.entered \in 1..t.exited /\ t.exited \in 1..n
          /\ EnteredOnSignal(t) /\ NotStoppedBefore(t, t.exited) /\ FilledHonestly(t)
      BY <2>1, <1>1 DEF BacktestInv, BacktestTypeInv, TradesInv
    <3>2. /\ t.entered \in Nat /\ t.entered > 0 /\ t.exited \in Nat /\ t.exited <= n + 1
          /\ t.entered \in 1..(n + 1) /\ t.exited \in 1..(n + 1)
      BY <3>1, <1>1
    <3>3. FilledHonestly(t)'
      BY <3>1, <3>2, <1>1, HonestKept
    <3>4. NotStoppedBefore(t, t.exited)'
      BY <3>1, <3>2, <1>1, NotStoppedKept
    <3>5. ASSUME NEW x \in trades', x.symbol = t.symbol, x.entered < t.entered
          PROVE  x \in trades
      <4> SUFFICES ASSUME x \notin trades PROVE FALSE
        OBVIOUS
      <4>1. PICK p \in Facing(today) : SamePosition(p, x)
        BY NewTrades
      <4>2. p.symbol = t.symbol /\ p.entered = x.entered
        BY <4>1, <3>5 DEF SamePosition
      <4>3. t.entered <= p.entered
        BY <4>2, <2>1, FacingTrades DEF TradesBefore, DateStep
      <4>4. p.entered \in Nat
        BY FacingReady DEF Ready, Holding
      <4> QED  BY <4>2, <4>3, <4>4, <3>2, <3>5
    <3>6. EnteredOnSignal(t)'
      BY <3>1, <3>2, <3>5, SignalKept
    <3> QED  BY <3>1, <3>2, <3>3, <3>4, <3>6
  <2>2. CASE t \notin trades
    <3>1. /\ t \in Trade /\ FilledHonestly(t)' /\ NotStoppedBefore(t, n + 1)' /\ t.exited = n + 1
      BY <2>2, NewTrades
    <3>2. PICK p \in Facing(today) : SamePosition(p, t)
      BY <2>2, NewTrades
    <3>3. p.entered \in 1..(n + 1)
      BY FacingReady DEF Ready
    <3>4. EnteredOnSignal(t)'
      BY <3>2, FacingOnSignal, SameSignal
    <3>5. t.entered \in 1..t.exited
      BY <3>1, <3>2, <3>3 DEF SamePosition
    <3>6. t.exited \in 1..(n + 1)
      BY <3>1, <1>1
    <3>7. NotStoppedBefore(t, t.exited)'
      BY <3>1
    <3> QED  BY <3>1, <3>4, <3>5, <3>6, <3>7
  <2> QED  BY <2>1, <2>2
<1> QED  BY <1>1, <1>2 DEF TradesInv

LEMMA BacktestInductive ==
  ASSUME BacktestInv, [RunDate]_backtestVars
  PROVE  BacktestInv'
<1>1. CASE RunDate
  <2>1. PICK n, today, picked : DateStep(n, today, picked)
    BY <1>1, DateSteps DEF BacktestInv
  <2>2. /\ Reaches(n, today) /\ Len(calendar') = n + 1 /\ Len(signals) = n
        /\ signals \in Seq(SUBSET Universe) /\ signals' = Append(signals, picked)
        /\ picked \in SUBSET Universe /\ profile \in ExitProfiles /\ n \in Nat
    <3>1. Reaches(n, today)
      BY <2>1 DEF DateStep
    <3> QED  BY <2>1, <3>1, NextDate DEF DateStep, Reaches, BacktestInv, BacktestTypeInv
  <2>3. \A q \in openPositions' :
          /\ q \in Holding /\ Locked(q)' /\ Carries(q, n + 1)' /\ EnteredOnSignal(q)'
          /\ TradesBefore(q)' /\ q.symbol \notin pendingEntries'
          /\ \A r \in openPositions' : q.symbol = r.symbol => q = r
    BY <2>1, KeptPositions
  <2>4. HoldingsInv'
    <3>1. \A q \in openPositions' : Carries(q, Len(calendar))'
      BY <2>2, <2>3 DEF Carries
    <3> QED  BY <2>3, <3>1 DEF HoldingsInv
  <2>5. EntriesInv' /\ pendingEntries' \subseteq Universe
    BY <2>1, EntriesKept
  <2>6. TradesInv' /\ trades' \subseteq Trade
    BY <2>1, TradesKept
  <2>7. BacktestTypeInv'
    <3>1. signals' \in Seq(SUBSET Universe) /\ Len(signals') = Len(calendar')
      BY <2>2, AppendProperties
    <3>2. calendar' \in Seq([Universe -> Bars \cup {NoBar}]) /\ profile' \in ExitProfiles
      BY <2>2, AppendProperties DEF Reaches
    <3>3. openPositions' \subseteq Holding
      BY <2>3
    <3> QED  BY <2>5, <2>6, <3>1, <3>2, <3>3 DEF BacktestTypeInv
  <2> QED  BY <2>4, <2>5, <2>6, <2>7 DEF BacktestInv
<1>2. CASE UNCHANGED backtestVars
  <2>1. BacktestTypeInv'
    BY <1>2 DEF BacktestInv, BacktestTypeInv, backtestVars
  <2> USE <1>2 DEF backtestVars
  <2>2. \A p, d : Peak(p, d)' = Peak(p, d)
    BY DEF Peak, BarDates
  <2>3. \A p, d : StoppedOn(p, d)' <=> StoppedOn(p, d)
    BY <2>2 DEF StoppedOn
  <2>4. \A p, d : NotStoppedBefore(p, d)' <=> NotStoppedBefore(p, d)
    BY <2>3 DEF NotStoppedBefore, BarDates
  <2>5. \A p : EnteredOnSignal(p)' <=> EnteredOnSignal(p)
    BY DEF EnteredOnSignal, BarDates
  <2>6. \A p, d : Closes(p, d)' = Closes(p, d)
    BY DEF Closes, BarDates
  <2>7. \A p, d : Carries(p, d)' <=> Carries(p, d)
    BY <2>4, <2>6 DEF Carries, IsPeak, BarDates
  <2>8. \A t : FilledHonestly(t)' <=> FilledHonestly(t)
    BY <2>2, <2>3 DEF FilledHonestly, BarDates
  <2>9. HoldingsInv'
    BY <2>5, <2>7 DEF BacktestInv, HoldingsInv, Locked, TradesBefore
  <2>10. EntriesInv'
    BY DEF BacktestInv, EntriesInv, BarDates
  <2>11. TradesInv'
    BY <2>4, <2>5, <2>8 DEF BacktestInv, TradesInv
  <2> QED  BY <2>1, <2>9, <2>10, <2>11 DEF BacktestInv
<1> QED  BY <1>1, <1>2

\* Every position was bought at the open of its entry bar, slippage added.
PaidInv ==
  \A p \in trades \cup openPositions : p.entered \in 1..Len(calendar) /\ EnteredAtOpen(p)

LEMMA PaidStep ==
  ASSUME BacktestInv, PaidInv, NEW n, NEW today, NEW picked, DateStep(n, today, picked)
  PROVE  PaidInv'
<1>1. Reaches(n, today) /\ profile \in ExitProfiles
  BY DEF DateStep, BacktestInv, BacktestTypeInv
<1>2. /\ n \in Nat /\ n = Len(calendar) /\ Len(calendar') = n + 1 /\ Date = n + 1
      /\ calendar'[n + 1] = today /\ \A d \in 1..n : calendar'[d] = calendar[d]
  BY <1>1, NextDate DEF Reaches
<1>3. ASSUME NEW p \in trades \cup openPositions
      PROVE  p.entered \in 1..(n + 1) /\ EnteredAtOpen(p)'
  BY <1>2 DEF PaidInv, EnteredAtOpen
<1>4. ASSUME NEW p \in Facing(today)
      PROVE  p.entered \in 1..(n + 1) /\ EnteredAtOpen(p)'
  <2>1. CASE p \in Opened(today)
    <3>1. PICK s : p = OpenPosition(s, today[s], n + 1)
      BY <2>1, <1>2 DEF Opened
    <3>2. p.symbol = s /\ p.entered = n + 1 /\ p.price = EntryFillPrice(s, today[s].open)
      BY <3>1 DEF OpenPosition
    <3> QED  BY <3>2, <1>2 DEF EnteredAtOpen, EntryFillPrice
  <2>2. CASE p \in Carried(today)
    <3>1. PICK q \in openPositions : p = [q EXCEPT !.daysHeld = @ + 1]
      BY <2>2 DEF Carried
    <3>2. q \in Holding
      BY DEF BacktestInv, BacktestTypeInv
    <3>3. p.symbol = q.symbol /\ p.entered = q.entered /\ p.price = q.price
      BY <3>1, <3>2 DEF Holding
    <3> QED  BY <3>3, <1>3 DEF EnteredAtOpen
  <2> QED  BY <2>1, <2>2 DEF Facing
<1>5. ASSUME NEW p \in openPositions'
      PROVE  p.entered \in 1..(n + 1) /\ EnteredAtOpen(p)'
  <2>1. CASE p \in openPositions
    BY <2>1, <1>3
  <2>2. CASE p \notin openPositions
    <3>1. PICK x \in Facing(today) : p = AfterBar(x, today[x.symbol], Exits(x, today))
      BY <2>2 DEF DateStep, Kept
    <3>2. x \in Holding
      BY FacingReady DEF Ready
    <3>3. p.symbol = x.symbol /\ p.entered = x.entered /\ p.price = x.price
      BY <3>1, <3>2 DEF AfterBar, Holding
    <3> QED  BY <3>3, <1>4 DEF EnteredAtOpen
  <2> QED  BY <2>1, <2>2
<1>6. ASSUME NEW t \in trades'
      PROVE  t.entered \in 1..(n + 1) /\ EnteredAtOpen(t)'
  <2>1. CASE t \in trades
    BY <2>1, <1>3
  <2>2. CASE t \notin trades
    <3>1. PICK p \in Facing(today) : SamePosition(p, t)
      BY <2>2, NewTrades
    <3> QED  BY <3>1, <1>4 DEF EnteredAtOpen, SamePosition
  <2> QED  BY <2>1, <2>2
<1> QED  BY <1>2, <1>5, <1>6 DEF PaidInv

\* Every trade of a backtest is one the bars allow without looking ahead.
THEOREM TradesAreHonest == BacktestSpec => []TradesMatchTheBars
<1>1. BacktestInit => BacktestInv /\ PaidInv
  <2> SUFFICES ASSUME BacktestInit PROVE BacktestInv /\ PaidInv
    OBVIOUS
  <2>1. BacktestTypeInv
    BY EmptySeq DEF BacktestInit, BacktestTypeInv
  <2> QED  BY <2>1 DEF BacktestInit, BacktestInv, HoldingsInv, EntriesInv, TradesInv, PaidInv
<1>2. BacktestInv /\ PaidInv /\ [RunDate]_backtestVars => (BacktestInv /\ PaidInv)'
  <2> SUFFICES ASSUME BacktestInv, PaidInv, [RunDate]_backtestVars PROVE BacktestInv' /\ PaidInv'
    OBVIOUS
  <2>1. CASE RunDate
    BY <2>1, BacktestInductive, DateSteps, PaidStep DEF BacktestInv
  <2>2. CASE UNCHANGED backtestVars
    BY <2>2, BacktestInductive DEF backtestVars, PaidInv, EnteredAtOpen
  <2> QED  BY <2>1, <2>2
<1>3. BacktestInv /\ PaidInv => TradesMatchTheBars
  BY DEF PaidInv, BacktestInv, HoldingsInv, TradesInv, Carries, TradesMatchTheBars
<1> QED  BY <1>1, <1>2, <1>3, PTL DEF BacktestSpec
=============================================================================
