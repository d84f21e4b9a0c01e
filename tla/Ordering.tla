------------------------------- MODULE Ordering -------------------------------
(* Lists of the members of a set, in an order; what sorted() returns when  *)
(* the order is strict.  The place of a member is the number of those      *)
(* before it.                                                              *)
EXTENDS Integers, FiniteSets

\* The members of a finite set in the order R has them.
InOrder(S, R) ==
  [k \in 1..Cardinality(S) |->
     CHOOSE x \in S : Cardinality({y \in S : <<y, x>> \in R}) = k - 1]
=============================================================================
