------------------------------ MODULE LossRules ------------------------------
(***************************************************************************)
(* What the account and a strategy conclude from their closed trades:      *)
(* trader/risk/breakers.py (evaluate_breakers), the kill conditions of     *)
(* trader/paper/guardian.py and the two metrics they use.  A P&L is an     *)
(* integer, a percentage of the code is compared by cross-multiplication.  *)
(***************************************************************************)
EXTENDS Integers, Sequences, SequencesExt, FiniteSetsExt

CONSTANTS
  Equity,           \* PAPER_ACCOUNT_EQUITY
  DailyLossPct,     \* -100 * BREAKER_DAILY_LOSS_PCT
  DrawdownPct,      \* -100 * BREAKER_DRAWDOWN_PCT
  LossStreak,       \* BREAKER_CONSECUTIVE_LOSSES
  Window,           \* trades a strategy needs before it is judged (30)
  PfFloorPct,       \* 100 * pf_floor
  KillDrawdownPct,  \* -100 * max_dd_kill
  KillStreak        \* consecutive_loss_kill

ASSUME RulesAssumption ==
  /\ {Equity, DailyLossPct, DrawdownPct, LossStreak, Window, PfFloorPct,
      KillDrawdownPct, KillStreak} \subseteq Nat
  /\ LossStreak > 0 /\ Window > 0 /\ KillStreak > 0

Total(pnls) == FoldLeft(LAMBDA a, b : a + b, 0, pnls)

\* One point per closed trade, after a first point start (the guardian passes
\* points of trades where evaluate_breakers speaks of points of days).
Curve(start, pnls) ==
  [k \in 1..(Len(pnls) + 1) |-> start + Total(SubSeq(pnls, 1, k - 1))]

\* a has fallen from b by at least pct percent of b, and b is a gain.
Fallen(a, b, pct) == b > 0 /\ 100 * (a - b) <= -(pct * b)

DailyLoss(pnls) ==
  LET c == Curve(Equity, pnls) IN
  Len(c) >= 2 /\ Fallen(c[Len(c)], c[Len(c) - 1], DailyLossPct)

Drawdown(pnls) ==
  LET c == Curve(Equity, pnls) IN
  Fallen(c[Len(c)], Max({c[k] : k \in DOMAIN c}), DrawdownPct)

\* The trades at the end of pnls that all lost.
LosingRun(pnls) ==
  Max({n \in 0..Len(pnls) : \A k \in (Len(pnls) - n + 1)..Len(pnls) : pnls[k] < 0})

\* evaluate_breakers
Breached(pnls) == [daily_loss       |-> DailyLoss(pnls),
                   consecutive_loss |-> LosingRun(pnls) >= LossStreak,
                   drawdown         |-> Drawdown(pnls)]

\* metrics.profit_factor below the floor; no losing trade is no breach.
BelowProfitFloor(pnls) ==
  LET gains  == Total(SelectSeq(pnls, LAMBDA p : p > 0))
      losses == -Total(SelectSeq(pnls, LAMBDA p : p < 0))
  IN  losses > 0 /\ 100 * gains < PfFloorPct * losses

\* metrics.max_drawdown of the running P&L: relative to the P&L's own peak,
\* so a window that has not gained yet (peak below zero) has no drawdown.
\* (A peak of exactly zero, by which the code divides, is left out: instances
\* choose what trades earn so that there is none.)
BelowKillLevel(pnls) ==
  \E k \in DOMAIN pnls :
    Fallen(Total(SubSeq(pnls, 1, k)),
           Max({Total(SubSeq(pnls, 1, j)) : j \in 1..k}), KillDrawdownPct)

Recent(pnls) == SubSeq(pnls, Len(pnls) - Window + 1, Len(pnls))

\* evaluate_kill_conditions for one strategy's trades.
KillDue(pnls) ==
  /\ Len(pnls) >= Window
  /\ LET w == Recent(pnls) IN
     BelowProfitFloor(w) \/ BelowKillLevel(w) \/ LosingRun(w) >= KillStreak
=============================================================================
