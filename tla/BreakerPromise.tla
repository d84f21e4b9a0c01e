---------------------------- MODULE BreakerPromise ----------------------------
(***************************************************************************)
(* What the circuit breakers promise: each is a switch that trips when it  *)
(* was not tripped; the daily-loss and the loss-streak switch reset by     *)
(* themselves, the drawdown switch only when a human restarts it.          *)
(***************************************************************************)
EXTENDS Naturals

CONSTANTS Auto, Manual     \* switches

VARIABLES tripped, restarts
pvars == <<tripped, restarts>>

Init == /\ tripped = [t \in Auto \cup Manual |-> FALSE]
        /\ restarts = 0

Trip(t)  == /\ ~tripped[t]
            /\ tripped' = [tripped EXCEPT ![t] = TRUE]
            /\ UNCHANGED restarts
Reset(t) == /\ t \in Auto /\ tripped[t]
            /\ tripped' = [tripped EXCEPT ![t] = FALSE]
            /\ UNCHANGED restarts
Restart(t) == /\ t \in Manual
              /\ tripped' = [tripped EXCEPT ![t] = FALSE]
              /\ restarts' = restarts + 1

Next == \E t \in Auto \cup Manual : Trip(t) \/ Reset(t) \/ Restart(t)
Spec == Init /\ [][Next]_pvars
=============================================================================
