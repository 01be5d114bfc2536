----------------------------- MODULE MCLakeIndex ----------------------------
(***************************************************************************)
(* LakeIndex with interchangeable connections.                             *)
(***************************************************************************)
EXTENDS LakeIndex, TLC

ConnSymmetry == Permutations(Conns)
=============================================================================
