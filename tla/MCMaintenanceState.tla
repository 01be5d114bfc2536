------------------------- MODULE MCMaintenanceState -------------------------
(***************************************************************************)
(* The instance of MaintenanceState that TLC checks.                       *)
(***************************************************************************)
EXTENDS MaintenanceState, TLC

\* No definition tells connections apart.
Symmetry == Permutations(Connections)
=============================================================================
