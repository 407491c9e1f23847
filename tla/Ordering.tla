------------------------------ MODULE Ordering ------------------------------
(* Sorting, by a strict order: each member of S at the place of its rank.  *)
(* TLC needs far fewer steps for it than for SetToSortSeq.                 *)
EXTENDS Naturals, FiniteSets

Ordered(S, Before(_, _)) ==
  [n \in 1 .. Cardinality(S) |-> CHOOSE x \in S : Cardinality({y \in S : Before(y, x)}) = n - 1]
=============================================================================
