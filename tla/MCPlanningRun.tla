--------------------------- MODULE MCPlanningRun ---------------------------
(* Small instances of the planning run for TLC. *)
EXTENDS PlanningRun, TLC

CONSTANTS p1, p2, user

Symmetry == Permutations(Processes)
=============================================================================
