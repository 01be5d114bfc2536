------------------------------- MODULE Ordered -------------------------------
(***************************************************************************)
(* The elements of a finite set of integers in ascending order.             *)
(***************************************************************************)
EXTENDS Integers, FiniteSets, Sequences

\* How many elements of S lie below n.
Rank(S, n) == Cardinality({m \in S : m < n})

Ascending(S) == [i \in 1 .. Cardinality(S) |-> CHOOSE n \in S : Rank(S, n) = i - 1]
=============================================================================
