----------------------------- MODULE MCJobQueue -----------------------------
(* Small instances of the job queue for TLC. *)
EXTENDS JobQueue, TLC

CONSTANTS w1, w2, op

OneJob == {1}

(* What a canceling user and the monitor of a running prompt ask for; the   *)
(* failure states are interchangeable, so one of them stands for all.       *)
UserAndMonitor ==
  {"canceled", "running", "collecting_outputs", "complete", "runtime_failed"}

(* Direct reservations and releases through transition_job as well. *)
EveryTarget == UserAndMonitor \cup {"reserved", "interrupted"}

Symmetry == Permutations(Workers)
=============================================================================
