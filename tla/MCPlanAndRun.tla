---------------------------- MODULE MCPlanAndRun ----------------------------
(***************************************************************************)
(* Two rows at first and room for a third, for PlanAndRun.                 *)
(***************************************************************************)
EXTENDS PlanAndRun

CONSTANTS r1, r2, r3

TwoRows == <<r1, r2>>
=============================================================================
