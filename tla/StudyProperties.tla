--------------------------- MODULE StudyProperties ---------------------------
(* What a study's artifacts can be relied on for (Study).                  *)
EXTENDS Study

TuneRowsOf(unit) == {r \in rows : r.unit = unit /\ r.split = "tune"}

\* "the re-run can never double-count cells" (run_tune_sweep_all_v2.py:37-46):
\* a unit in the checkpoint of the v2 sweep has one row per cell, however often
\* it was interrupted and repeated before.
CellsCountedOnce ==
  study.driver.sweep = "v2" =>
    \A k \in DOMAIN checkpoint :
      /\ Cardinality(TuneRowsOf(checkpoint[k].unit)) = MaxCells
      /\ {r.cell : r \in TuneRowsOf(checkpoint[k].unit)} = Cells

Cited == (UNION {ToSet(checkpoint[k].results) : k \in DOMAIN checkpoint})
         \cup (IF candidates = Unreadable THEN {} ELSE ToSet(candidates))
         \cup (IF results = Unreadable THEN {} ELSE {r.candidate : r \in ToSet(results)})

\* backtest_run_id and the reports read trades by run_id (sweep_report.py:107):
\* every run the checkpoint, the candidates or the results cite is in the
\* database and is a run of that cell, whatever was cleaned up since.
CitedRunsExist ==
  \A c \in Cited : \E r \in rows :
    r.id = c.id /\ r.unit = c.unit /\ r.cell = c.cell /\ r.split = "tune"

\* The pre-registration gates (frozen_config*.py): nothing the artifacts cite
\* was run on edited definitions, although the gates stand in different places
\* in different drivers and a checkpoint outlives the process that passed them.
EvidenceIsFrozen ==
  /\ \A c \in Cited : \A r \in rows : r.id = c.id => r.config = "frozen"
  /\ results # Unreadable =>
       \A k \in DOMAIN results : \A r \in rows : r.id = results[k].oosId => r.config = "frozen"

Anonymous(c) == [c EXCEPT !.id = 0]

\* What the top-5 rule chooses from one uninterrupted sweep, ids apart, and
\* who among those survives.
Uninterrupted ==
  AllTop5(study.metrics, [k \in DOMAIN Units |->
    [unit |-> Units[k],
     results |-> [c \in Cells |-> [id |-> 0, unit |-> Units[k], cell |-> c]]]])
VerdictOn(c) == DetermineSurvivor(Metrics(study.metrics, c.unit, c.cell).oos)

\* "no unit is ever run twice, and no completed unit's results are ever lost"
\* (run_tune_sweep_all_v2.py:63-65): what a study ends with is what it would
\* have ended with uninterrupted: the same candidates in the same order, each
\* with its verdict, and a kill level for the survivors among them.
EndsAsUninterrupted ==
  /\ candidates # Unreadable =>
       [k \in DOMAIN candidates |-> Anonymous(candidates[k])] = Uninterrupted
  /\ results # Unreadable =>
       /\ [k \in DOMAIN results |-> Anonymous(results[k].candidate)] = Uninterrupted
       /\ \A k \in DOMAIN results : results[k].verdict = VerdictOn(results[k].candidate)
  /\ survivors # Unreadable =>
       [k \in DOMAIN survivors |-> Anonymous(survivors[k].candidate)] =
         ElementsAt(Uninterrupted,
                    {k \in DOMAIN Uninterrupted : VerdictOn(Uninterrupted[k]) = "survivor"})
=============================================================================
