------------------------------ MODULE Graduation ------------------------------
(***************************************************************************)
(* The graduation review (trader/graduation/evaluator.py, freeze_gate.py)  *)
(* with the metrics it takes from trader/backtest/metrics.py.              *)
(*                                                                         *)
(* Paper trades close while reviews are held.  A trade is what it earned,  *)
(* what it would have lost to fills ADVERSE_FILL_PCT worse, whether it is  *)
(* the first of its day, and the market it closed in: a frozen regime      *)
(* window and, outside of one, SPY against its mean.  Thresholds are in    *)
(* percent and compared by cross-multiplication.                           *)
(***************************************************************************)
EXTENDS Integers, Sequences, SequencesExt, FiniteSets, FiniteSetsExt

CONSTANTS
  ClosedTrades,     \* trades that may close
  MinTrades, PfGraduationPct, MaxDdGraduationPct, MinConditions,
  MaxSharePct,      \* frozen_checklist
  StartingEquity,
  MaxTrades, MaxReviews                            \* bounds

ASSUME GraduationAssumption ==
  /\ {MinTrades, PfGraduationPct, MaxDdGraduationPct, MinConditions, MaxSharePct,
      StartingEquity, MaxTrades, MaxReviews} \subseteq Nat
  /\ MinTrades > 0 /\ StartingEquity > 0
  /\ 2 * MaxSharePct < 100 /\ MinConditions >= 2 /\ MaxDdGraduationPct > 0
  /\ \A t \in ClosedTrades : t.pnl \in Int

VARIABLES
  paperTrades,   \* paper_trades of one strategy, by exit time
  active,        \* the strategy is on probation or full
  checklist,     \* frozen_checklist.py on disk: "frozen" or "edited"
  reports,       \* review reports written (files)
  reviews,       \* graduation_reviews
  review         \* locals of run_graduation_review

graduationVars == <<paperTrades, active, checklist, reports, reviews, review>>

Known == {"risk_on", "risk_off", "choppy"}

-----------------------------------------------------------------------------
(* evaluate_strategy.                                                      *)

Pnl(trades) == FoldLeft(LAMBDA sum, t : sum + t.pnl, 0, trades)
Gains(trades) == Pnl(SelectSeq(trades, LAMBDA t : t.pnl > 0))
Losses(trades) == -Pnl(SelectSeq(trades, LAMBDA t : t.pnl < 0))

\* No profit factor without a win, an infinite one without a loss.
ProfitFactorPasses(trades) ==
  Gains(trades) > 0 /\ 100 * Gains(trades) > PfGraduationPct * Losses(trades)

\* The equity after each day with a trade, after the starting equity.
DailyEquity(trades) ==
  {[trades |-> k, equity |-> StartingEquity + Pnl(SubSeq(trades, 1, k))] :
     k \in {0, Len(trades)} \cup {j \in 1..(Len(trades) - 1) : trades[j + 1].firstOfDay}}

\* Mutant: the loss from the starting equity, not from the peak.
DrawdownFromStart(trades) ==
  \A q \in DailyEquity(trades) :
    100 * (StartingEquity - q.equity) < MaxDdGraduationPct * StartingEquity

DrawdownPasses(trades) ==
  \A p, q \in DailyEquity(trades) :
    p.trades <= q.trades => 100 * (p.equity - q.equity) < MaxDdGraduationPct * p.equity

\* market_condition: the frozen window first, SPY for stocks outside of them.
MarketCondition(t) ==
  IF t.window # "none" THEN t.window ELSE IF t.stock THEN t.spy ELSE "unknown"
InCondition(trades, c) == SelectSeq(trades, LAMBDA t : MarketCondition(t) = c)

\* Mutant: conditions with any trade count.
ConditionsTraded(trades) == {c \in Known : InCondition(trades, c) # <<>>}

ProfitableConditions(trades) == {c \in Known : Pnl(InCondition(trades, c)) > 0}

SharePasses(trades) ==
  /\ Pnl(trades) > 0
  /\ \A k \in DOMAIN trades : 100 * trades[k].pnl <= MaxSharePct * Pnl(trades)

AdverseFillPasses(trades) ==
  Pnl(trades) > FoldLeft(LAMBDA sum, t : sum + t.adverse, 0, trades)

EvaluateStrategy(trades) ==
  IF Len(trades) < MinTrades THEN "not_enough_trades"
  ELSE IF /\ ProfitFactorPasses(trades) /\ DrawdownPasses(trades)
          /\ Cardinality(ProfitableConditions(trades)) >= MinConditions
          /\ SharePasses(trades) /\ AdverseFillPasses(trades)
    THEN "pass" ELSE "fail"

-----------------------------------------------------------------------------
(* run_graduation_review, and what goes on around it.                      *)

NoReview == [pc |-> "idle", results |-> <<>>]

GraduationInit ==
  /\ paperTrades = <<>> /\ active = TRUE /\ checklist = "frozen"
  /\ reports = 0 /\ reviews = <<>> /\ review = NoReview

CloseTrade ==
  /\ Len(paperTrades) < MaxTrades
  /\ \E t \in ClosedTrades : paperTrades' = Append(paperTrades, t)
  /\ UNCHANGED <<active, checklist, reports, reviews, review>>

\* The checklist is verified, every active strategy evaluated.
Evaluate ==
  /\ review.pc = "idle" /\ reports < MaxReviews /\ checklist = "frozen"
  /\ review' = [pc |-> "report", results |-> IF ~active THEN <<>> ELSE
       <<[trades |-> Len(paperTrades), overall |-> EvaluateStrategy(paperTrades)]>>]
  /\ UNCHANGED <<paperTrades, active, checklist, reports, reviews>>

WriteReport ==
  /\ review.pc = "report" /\ reports' = reports + 1
  /\ review' = [review EXCEPT !.pc = "record"]
  /\ UNCHANGED <<paperTrades, active, checklist, reviews>>

RecordReviews ==
  /\ review.pc = "record" /\ reviews' = reviews \o review.results
  /\ review' = NoReview
  /\ UNCHANGED <<paperTrades, active, checklist, reports>>

\* Nothing is recorded by a review that dies, its report may be there.
ReviewDies ==
  /\ review.pc # "idle" /\ review' = NoReview
  /\ UNCHANGED <<paperTrades, active, checklist, reports, reviews>>

\* The tournament retires the strategy; the checklist is edited, or restored.
Surroundings ==
  \/ active /\ active' = FALSE /\ UNCHANGED <<paperTrades, checklist, reports, reviews, review>>
  \/ /\ checklist' = IF checklist = "frozen" THEN "edited" ELSE "frozen"
     /\ UNCHANGED <<paperTrades, active, reports, reviews, review>>

GraduationNext ==
  CloseTrade \/ Evaluate \/ WriteReport \/ RecordReviews \/ ReviewDies \/ Surroundings

GraduationSpec == GraduationInit /\ [][GraduationNext]_graduationVars

-----------------------------------------------------------------------------

\* What five separate checks are for (frozen_checklist.py:7-20): the trades a
\* passing review had seen are still a profit without the best of them, no
\* market condition carries them alone, at least three of them won, and from
\* the start of no day to that of a later one, nor to the end, did they lose
\* the limit, although further trades closed before the review was recorded.
GraduatesOnMoreThanLuck ==
  \A k \in DOMAIN reviews : reviews[k].overall = "pass" =>
    LET T == SubSeq(paperTrades, 1, reviews[k].trades)
        Without(S) == Pnl(T) - MapThenSumSet(LAMBDA i : T[i].pnl, S)
        starts == {i \in DOMAIN T : T[i].firstOfDay}
        Before(i) == StartingEquity + Pnl(SubSeq(T, 1, i - 1)) IN
    /\ \A i \in DOMAIN T : Without({i}) > 0
    /\ Cardinality({i \in DOMAIN T : T[i].pnl > 0}) >= 3
    /\ \A c \in Known : \E d \in Known \ {c} : Pnl(InCondition(T, d)) > 0
    /\ \A i \in starts : \A j \in starts \cup {Len(T) + 1} :
         i < j => 100 * (Before(i) - Before(j)) < MaxDdGraduationPct * Before(i)
=============================================================================
