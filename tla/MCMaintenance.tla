---------------------------- MODULE MCMaintenance ---------------------------
(***************************************************************************)
(* Maintenance with interchangeable connections.                           *)
(***************************************************************************)
EXTENDS Maintenance, TLC

ConnSymmetry == Permutations(Conns)
=============================================================================
