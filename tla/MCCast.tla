------------------------------- MODULE MCCast -------------------------------
(* Small instances of the cast for TLC. *)
EXTENDS Cast, TLC

Symmetry == Permutations(Voices) \cup Permutations(Requests)

(* What an archived shot refers to is neither read nor kept when a plan     *)
(* brings the shot back.                                                    *)
Observed ==
  <<character, voice, request,
    [s \in Shots |-> IF s \in Unarchived THEN shot[s] ELSE shot[s].state],
    [s \in Shots |-> IF Active(shot, s) THEN gone[s] ELSE {}]>>
=============================================================================
