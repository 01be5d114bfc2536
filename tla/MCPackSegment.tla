---------------------------- MODULE MCPackSegment ----------------------------
(***************************************************************************)
(* PackSegment for TLC: the aggregate states are interchangeable.          *)
(***************************************************************************)
EXTENDS PackSegment, TLC

Symmetry == Permutations(States)
=============================================================================
