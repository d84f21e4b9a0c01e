-------------------------------- MODULE Study --------------------------------
(***************************************************************************)
(* A strategy study: tune sweep, top-5 selection, out-of-sample validation,*)
(* verdicts and kill levels (trader/backtest/sweep.py, sweep_v2.py, the    *)
(* frozen_config modules, and the drivers run_tune_sweep_all*.py,          *)
(* run_oos_validation_all*.py, write_kill_conditions*.py and               *)
(* run_*_evidence.py).                                                     *)
(*                                                                         *)
(* Every driver has its own copy of one protocol; what differs is a record *)
(* per driver.  A unit is a variant of a (strategy, bucket, regime) group; *)
(* a cell is one exit profile of the grid, run as one backtest whose row   *)
(* is committed at once.  Backtests are seeded: what a cell earns depends  *)
(* on the cell only.  A process may die anywhere and is started again.     *)
(***************************************************************************)
EXTENDS Integers, Sequences, SequencesExt, FiniteSets, Ordering

CONSTANTS
  MetricTables,        \* functions from <<group, variant, cell>> to the metrics
                       \* of its tune and OOS backtests
  TuneMinTrades, OosMinTrades, TopSize,      \* 30, 15 and 5
  MaxGroups, MaxVariants, MaxCells,          \* bounds on a study's size
  MaxStarts,                                 \* process starts (bound)
  Unreadable                                 \* a file that is not there, or torn

VARIABLES
  study,        \* the driver and the metrics its backtests have
  files,        \* the frozen definitions on disk: "frozen" or "edited"
  rows,         \* backtest_runs
  checkpoint,   \* the checkpoint file: <<unit, results>> pairs
  candidates,   \* tune_top5*.json
  results,      \* oos_results*.json, or the evidence file
  survivors,    \* KILL-CONDITIONS.md, or the evidence file's survivors
  starts, lastId,
  work          \* locals of the running process

studyVars == <<study, files, rows, checkpoint, candidates, results, survivors,
               starts, lastId, work>>

-----------------------------------------------------------------------------
(* The drivers.  "gates" are the places where the hash of the frozen files *)
(* is verified; "cleans" whether _cleanup_orphan_rows finds the driver's   *)
(* rows: it only looks for those of sweep "v2".                            *)

DailyGrid  == [stock |-> 270, crypto |-> 270, memecoin |-> 360]
HourlyGrid == [stock |-> 24, crypto |-> 24, memecoin |-> 24]
Regimes(stock, crypto, memecoin) == [stock |-> stock, crypto |-> crypto, memecoin |-> memecoin]

RunTuneSweepAll ==
  [sweep |-> "v1", strategies |-> 2, variants |-> 1, regimes |-> Regimes(2, 2, 2),
   grid |-> DailyGrid, resumes |-> FALSE, cleans |-> FALSE, oneProcess |-> FALSE,
   gates |-> {"unit", "oos", "kill"}]
RunTuneSweepAllV2 ==
  [RunTuneSweepAll EXCEPT !.sweep = "v2", !.variants = 3, !.resumes = TRUE, !.cleans = TRUE]
RunMacrossEvidence ==
  [sweep |-> "macross_v1", strategies |-> 1, variants |-> 2, regimes |-> Regimes(2, 2, 2),
   grid |-> DailyGrid, resumes |-> TRUE, cleans |-> FALSE, oneProcess |-> TRUE,
   gates |-> {"start", "unit", "oos"}]
RunDonchianEvidence ==
  [RunMacrossEvidence EXCEPT !.sweep = "donchian_v1", !.regimes = Regimes(2, 0, 0)]
RunDonchianCryptoEvidence ==
  [RunMacrossEvidence EXCEPT !.sweep = "donchian_crypto_v1", !.regimes = Regimes(0, 2, 2)]
RunRsi2Evidence ==
  [RunMacrossEvidence EXCEPT !.sweep = "rsi2_v1", !.regimes = Regimes(2, 0, 0)]
\* These two run the cells themselves, without sweep_v2 and its gates.
RunHourlyEvidence ==
  [RunMacrossEvidence EXCEPT !.sweep = "hourly_v1", !.strategies = 2, !.gates = {"start"},
                             !.regimes = Regimes(0, 1, 1), !.grid = HourlyGrid]
Run4hEvidence == [RunHourlyEvidence EXCEPT !.sweep = "4h_v1"]

Drivers == {RunTuneSweepAll, RunTuneSweepAllV2, RunMacrossEvidence, RunDonchianEvidence,
            RunDonchianCryptoEvidence, RunRsi2Evidence, RunHourlyEvidence, Run4hEvidence}

Groups(d) == d.strategies * (d.regimes.stock + d.regimes.crypto + d.regimes.memecoin)
TuneRuns(d) == d.strategies * d.variants
                 * (d.regimes.stock * d.grid.stock + d.regimes.crypto * d.grid.crypto
                    + d.regimes.memecoin * d.grid.memecoin)

\* The pre-registered EXPECTED_*_RUN_COUNT constants.
ASSUME StudyAssumption ==
  /\ TuneRuns(RunTuneSweepAllV2) = 10800 /\ TuneRuns(RunDonchianEvidence) = 1080
  /\ TuneRuns(RunDonchianCryptoEvidence) = 2520 /\ TuneRuns(RunMacrossEvidence) = 3600
  /\ TuneRuns(RunRsi2Evidence) = 1080
  /\ TuneRuns(RunHourlyEvidence) = 192 /\ TuneRuns(Run4hEvidence) = 192
  /\ \A table \in MetricTables :
       \A g \in 1..MaxGroups, v \in 1..MaxVariants, c \in 1..MaxCells :
         {table[<<g, v, c>>].tune.trades, table[<<g, v, c>>].tune.pf} \subseteq Int
  /\ {MaxGroups, MaxVariants, MaxCells, TopSize, MaxStarts} \subseteq Nat \ {0}

-----------------------------------------------------------------------------
(* Units, cells and selection.                                             *)

Lesser(m, n) == IF m < n THEN m ELSE n
Variants == Lesser(study.driver.variants, MaxVariants)
Cells == 1..MaxCells

\* Units in the order of the loops: group by group, its variants in turn.
Units == [k \in 1..(Lesser(Groups(study.driver), MaxGroups) * Variants) |->
            [group |-> 1 + (k - 1) \div Variants, variant |-> 1 + ((k - 1) % Variants)]]
Metrics(table, unit, cell) == table[<<unit.group, unit.variant, cell>>]

\* The elements of a sequence at the indices in K.
ElementsAt(seq, K) ==
  LET index == InOrder(K, {pair \in K \X K : pair[1] < pair[2]})
  IN  [k \in 1..Cardinality(K) |-> seq[index[k]]]

\* The finished cells as the selection sees them: the c-th result of the k-th
\* unit, its group and its tune metrics.
Scores(table, done) ==
  UNION {{[k |-> k, c |-> c, group |-> done[k].unit.group,
           tune |-> Metrics(table, done[k].results[c].unit, done[k].results[c].cell).tune] :
             c \in DOMAIN done[k].results} : k \in DOMAIN done}
Earlier(x, y) == x.k < y.k \/ (x.k = y.k /\ x.c < y.c)

\* The order select_top5 sorts by; the sort is stable.
Ahead(x, y) == x.tune.pf > y.tune.pf \/ (x.tune.pf = y.tune.pf /\ Earlier(x, y))

\* select_top5: the best of a group's cells with enough trades.
SelectTop5(cells) ==
  LET eligible == {x \in cells : x.tune.trades >= TuneMinTrades}
  IN  {x \in eligible : Cardinality({y \in eligible : Ahead(y, x)}) < TopSize}

\* Group after group, the best first.
Precedes(x, y) == x.group < y.group \/ (x.group = y.group /\ Ahead(x, y))

AllTop5(table, done) ==
  LET scores == Scores(table, done)
      chosen == UNION {SelectTop5({x \in scores : x.group = done[k].unit.group}) : k \in DOMAIN done}
      listed == InOrder(chosen, {pair \in chosen \X chosen : Precedes(pair[1], pair[2])})
  IN  [n \in 1..Cardinality(chosen) |-> done[listed[n].k].results[listed[n].c]]

\* determine_survivor; a profit factor is in tenths.
DetermineSurvivor(metric) ==
  IF metric.trades < OosMinTrades THEN "insufficient_sample"
  ELSE IF metric.pf > 10 THEN "survivor" ELSE "killed"

\* _max_drawdown_trigger, in half percents: 1.5 times the drawdown, -15 % at most.
MaxDrawdownTrigger(drawdown) == IF 3 * drawdown < -30 THEN -30 ELSE 3 * drawdown

\* Mutant: verified when the process starts, or never.
PassesAtStart(gate) == gate \in study.driver.gates /\ gate = "start" => files = "frozen"

\* verify_frozen and its copies: the process raises unless this holds.
Passes(gate) == gate \in study.driver.gates => files = "frozen"

-----------------------------------------------------------------------------
(* The tune sweep.                                                         *)

IdleWork == [pc |-> "idle", config |-> "frozen", done |-> <<>>, unit |-> 0,
             cells |-> <<>>, candidates |-> <<>>, oos |-> <<>>]

StudyInit ==
  /\ study \in [driver : Drivers, metrics : MetricTables]
  /\ files = "frozen" /\ rows = {} /\ checkpoint = <<>>
  /\ candidates = Unreadable /\ results = Unreadable /\ survivors = Unreadable
  /\ starts = 0 /\ lastId = 0 /\ work = IdleWork

Started == work.pc = "idle" /\ starts < MaxStarts /\ starts' = starts + 1
InProcess == UNCHANGED <<study, files, starts>>
FilesWritten == <<candidates, results, survivors>>

\* The checkpoint is read; without one the sweep begins anew.
StartTune ==
  /\ Started /\ Passes("start")
  /\ work' = [IdleWork EXCEPT !.pc = "tune", !.config = files, !.done = checkpoint]
  /\ UNCHANGED <<study, files, rows, checkpoint, FilesWritten, lastId>>

NextUnit == CHOOSE k \in DOMAIN Units :
              /\ \A j \in 1..(k - 1) : \E d \in DOMAIN work.done : work.done[d].unit = Units[j]
              /\ \A d \in DOMAIN work.done : work.done[d].unit # Units[k]
UnitsLeft == Len(work.done) < Len(Units)

\* Mutant: nothing is cleaned up.
OrphansOfNone(unit) == {}
\* Mutant: the variant is not compared.
OrphansOfGroup(unit) == {r \in rows : study.driver.cleans /\ r.unit.group = unit.group}

\* _cleanup_orphan_rows: rows of the unit, of either split.
Orphans(unit) == {r \in rows : study.driver.cleans /\ r.unit = unit}

\* Orphans are deleted first; then the gate is passed, or the process ends.
BeginUnit ==
  /\ work.pc = "tune" /\ UnitsLeft
  /\ rows' = rows \ Orphans(Units[NextUnit])
  /\ work' = IF Passes("unit") THEN [work EXCEPT !.pc = "cells", !.unit = NextUnit, !.cells = <<>>]
             ELSE IdleWork
  /\ UNCHANGED <<checkpoint, FilesWritten, lastId>> /\ InProcess

Ran(unit, cell, split) ==
  /\ lastId' = lastId + 1
  /\ rows' = rows \cup {[id |-> lastId + 1, unit |-> unit, cell |-> cell, split |-> split,
                         config |-> work.config]}

\* Mutant: the checkpoint grows with every cell.
RunCellCheckpointed ==
  LET unit == Units[work.unit]
      cells == Append(work.cells, [id |-> lastId + 1, unit |-> unit, cell |-> Len(work.cells) + 1]) IN
  /\ work.pc = "cells" /\ Len(work.cells) < MaxCells
  /\ Ran(unit, Len(work.cells) + 1, "tune")
  /\ work' = [work EXCEPT !.cells = cells]
  /\ checkpoint' = IF study.driver.resumes
                     THEN Append(work.done, [unit |-> unit, results |-> cells])
                     ELSE checkpoint
  /\ UNCHANGED <<FilesWritten>> /\ InProcess

\* One cell of run_tune_sweep: the backtest is in the database when it is done.
RunCell ==
  LET unit == Units[work.unit]
      cell == Len(work.cells) + 1 IN
  /\ work.pc = "cells" /\ Len(work.cells) < MaxCells
  /\ Ran(unit, cell, "tune")
  /\ work' = [work EXCEPT !.cells = Append(@, [id |-> lastId + 1, unit |-> unit, cell |-> cell])]
  /\ UNCHANGED <<checkpoint, FilesWritten>> /\ InProcess

\* The whole file is replaced atomically once the unit is complete.
FinishUnit ==
  LET done == Append(work.done, [unit |-> Units[work.unit], results |-> work.cells]) IN
  /\ work.pc = "cells" /\ Len(work.cells) = MaxCells
  /\ work' = [work EXCEPT !.pc = "tune", !.done = done]
  /\ checkpoint' = IF study.driver.resumes THEN done ELSE checkpoint
  /\ UNCHANGED <<rows, FilesWritten, lastId>> /\ InProcess

\* Written to a file for another process, or validated in this one.
SelectCandidates ==
  /\ work.pc = "tune" /\ ~UnitsLeft
  /\ IF study.driver.oneProcess
       THEN /\ work' = IF Passes("oos")
                         THEN [work EXCEPT !.pc = "oos", !.candidates = AllTop5(study.metrics, work.done)]
                         ELSE IdleWork
            /\ UNCHANGED candidates
       ELSE candidates' = AllTop5(study.metrics, work.done) /\ work' = IdleWork
  /\ UNCHANGED <<rows, checkpoint, results, survivors, lastId>> /\ InProcess

-----------------------------------------------------------------------------
(* Validation, verdicts and kill levels.                                   *)

\* run_oos_validation_all*: a process of its own.
StartOos ==
  /\ Started /\ ~study.driver.oneProcess /\ candidates # Unreadable /\ Passes("oos")
  /\ work' = [IdleWork EXCEPT !.pc = "oos", !.config = files, !.candidates = candidates]
  /\ UNCHANGED <<study, files, rows, checkpoint, FilesWritten, lastId>>

RunOos ==
  LET c == work.candidates[Len(work.oos) + 1] IN
  /\ work.pc = "oos" /\ Len(work.oos) < Len(work.candidates)
  /\ Ran(c.unit, c.cell, "oos")
  /\ work' = [work EXCEPT !.oos = Append(@,
       [candidate |-> c, oosId |-> lastId + 1,
        verdict |-> DetermineSurvivor(Metrics(study.metrics, c.unit, c.cell).oos)])]
  /\ UNCHANGED <<checkpoint, FilesWritten>> /\ InProcess

Survivors(table, oos) ==
  LET won == ElementsAt(oos, {k \in DOMAIN oos : oos[k].verdict = "survivor"})
      out(r) == Metrics(table, r.candidate.unit, r.candidate.cell).oos
  IN  [k \in DOMAIN won |-> [candidate |-> won[k].candidate,
                             kill |-> MaxDrawdownTrigger(out(won[k]).drawdown)]]

FinishOos ==
  /\ work.pc = "oos" /\ Len(work.oos) = Len(work.candidates)
  /\ results' = work.oos /\ work' = IdleWork
  /\ survivors' = IF study.driver.oneProcess THEN Survivors(study.metrics, work.oos) ELSE survivors
  /\ UNCHANGED <<rows, checkpoint, candidates, lastId>> /\ InProcess

\* write_kill_conditions*: raises KeyError for a candidate that the top-5 file
\* no longer has.
KillConditionsDue ==
  /\ Started /\ ~study.driver.oneProcess /\ Unreadable \notin {candidates, results}
  /\ Passes("kill")
  /\ \A k \in DOMAIN results : \E c \in DOMAIN candidates : candidates[c].id = results[k].candidate.id

WriteKillConditions ==
  /\ KillConditionsDue /\ survivors' = Survivors(study.metrics, results)
  /\ UNCHANGED <<study, files, rows, checkpoint, candidates, results, lastId, work>>

-----------------------------------------------------------------------------
(* Surroundings, and the whole.                                            *)

\* Definitions are edited, or an edit is taken back, between two processes.
EditFrozenFiles ==
  /\ work.pc = "idle" /\ starts > 0 /\ starts < MaxStarts
  /\ files' = IF files = "frozen" THEN "edited" ELSE "frozen"
  /\ UNCHANGED <<study, rows, checkpoint, FilesWritten, starts, lastId, work>>

\* What the three last steps write goes straight into the file (write_text),
\* which is emptied first: a process that dies meanwhile leaves one that no
\* driver can parse.
ProcessDiesWriting ==
  /\ \/ /\ work.pc = "tune" /\ ~UnitsLeft /\ ~study.driver.oneProcess
        /\ candidates' = Unreadable /\ UNCHANGED <<results, survivors, starts>>
     \/ /\ work.pc = "oos" /\ Len(work.oos) = Len(work.candidates)
        /\ results' = Unreadable
        /\ survivors' = IF study.driver.oneProcess THEN Unreadable ELSE survivors
        /\ UNCHANGED <<candidates, starts>>
     \/ KillConditionsDue /\ survivors' = Unreadable /\ UNCHANGED <<candidates, results>>
  /\ work' = IdleWork
  /\ UNCHANGED <<study, files, rows, checkpoint, lastId>>

ProcessDies ==
  /\ work.pc # "idle" /\ work' = IdleWork
  /\ UNCHANGED <<rows, checkpoint, FilesWritten, lastId>> /\ InProcess

StudyNext ==
  \/ StartTune \/ BeginUnit \/ RunCell \/ FinishUnit \/ SelectCandidates
  \/ StartOos \/ RunOos \/ FinishOos \/ WriteKillConditions
  \/ EditFrozenFiles \/ ProcessDies \/ ProcessDiesWriting

StudySpec == StudyInit /\ [][StudyNext]_studyVars
=============================================================================
