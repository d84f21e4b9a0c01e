------------------------------- MODULE Breakers -------------------------------
(***************************************************************************)
(* The circuit breakers' persistence (trader/risk/breakers.py, migration   *)
(* 0004): an append-only event log, and a state that is always read from   *)
(* its latest rows.                                                        *)
(***************************************************************************)
EXTENDS LossRules

VARIABLE events      \* breaker_events; seen: the trades its writer had read

AutoBreakers == {"daily_loss", "consecutive_loss"}
BreakerTypes == AutoBreakers \cup {"drawdown"}
Event == [type : BreakerTypes, action : {"trip", "reset", "manual_restart"}, seen : Nat]

\* breaker_state_current: the latest event of a type, "normal" if none.
LastAction(t) ==
  LET rows == {k \in DOMAIN events : events[k].type = t}
  IN  IF rows = {} THEN "normal" ELSE events[Max(rows)].action

Tripped(t) == LastAction(t) = "trip"
AnyTripped == \E t \in BreakerTypes : Tripped(t)

AppendEvent(t, a, seen) ==
  events' = Append(events, [type |-> t, action |-> a, seen |-> seen])

\* Mutant: the drawdown breaker resets like the other two.
TransitionOfAny(t, was, now) ==
  IF was = now THEN "none" ELSE IF now THEN "trip" ELSE "reset"

\* Mutant: a tripped breaker resets whatever the rule says now.
TransitionResetsAlways(t, was, now) ==
  IF was THEN (IF t \in AutoBreakers THEN "reset" ELSE "none")
  ELSE IF now THEN "trip" ELSE "none"

\* record_breaker_transitions, one type: was is the state read before.
Transition(t, was, now) ==
  IF ~was /\ now THEN "trip"
  ELSE IF was /\ ~now /\ t \in AutoBreakers THEN "reset" ELSE "none"

Rank == [daily_loss |-> 1, consecutive_loss |-> 2, drawdown |-> 3]

ClearManualRestart(seen) == AppendEvent("drawdown", "manual_restart", seen)

HumanRestarts == {k \in DOMAIN events : events[k].action = "manual_restart"}
=============================================================================
