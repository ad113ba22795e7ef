------------------------------- MODULE History -------------------------------
(***************************************************************************)
(* What the versions of a story promise to whoever produces from them: an  *)
(* append-only log of drafts and approved plans.  No entry ever changes,   *)
(* one approved entry at most is current, an approval replaces the current *)
(* one, and approving again what is current adds nothing to the log.       *)
(***************************************************************************)
EXTENDS Naturals, Sequences

CONSTANT Plans

VARIABLES log,     \* the entries, each a plan and whether it was approved
          current  \* the place of the approved entry in force, 0 for none

hvars == <<log, current>>

HInit == log = <<>> /\ current = 0

Draft(plan) ==
  /\ log' = Append(log, [plan |-> plan, approved |-> FALSE])
  /\ UNCHANGED current

Approve(plan) ==
  /\ current # 0 => log[current].plan # plan
  /\ log' = Append(log, [plan |-> plan, approved |-> TRUE])
  /\ current' = Len(log) + 1

HNext == \E plan \in Plans : Draft(plan) \/ Approve(plan)

HSpec == HInit /\ [][HNext]_hvars
=============================================================================
