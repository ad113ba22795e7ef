-------------------------- MODULE MCHeadlessTasks --------------------------
(* Small instances of the headless orchestrator for TLC. *)
EXTENDS HeadlessTasks, TLC

CONSTANTS t1, t2, d1, d2, x, y, z

(* A worktree per task *)
Dedicated == [t \in Tasks |-> CASE t = t1 -> d1 [] t = t2 -> d2]

Single == [t \in Tasks |-> 1]

(* Two files may be patched; z is owned by nobody. *)
OwnsXY == [t \in Tasks |-> {x, y}]
=============================================================================
