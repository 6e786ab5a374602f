----------------------------- MODULE SortedSets -----------------------------
(***************************************************************************)
(* A finite set of numbers as a sequence, the least one first.  The        *)
(* community modules' SetToSortSeq is the same sequence; this definition,  *)
(* by rank, is one that can be reasoned about.                             *)
(***************************************************************************)
EXTENDS Integers, FiniteSets

\* How many of A come no later than a.
Rank(A, a) == Cardinality({b \in A : b <= a})

Sorted(A) == [k \in 1..Cardinality(A) |-> CHOOSE a \in A : Rank(A, a) = k]
=============================================================================
