-------------------------- MODULE MCStoryVersions --------------------------
(* Small instances of the versions of a story for TLC. *)
EXTENDS StoryVersions, TLC

CONSTANTS s1, s2, p1, plain, linked, relinked

Symmetry == {f @@ g : f \in Permutations(Sessions), g \in Permutations(Linked)}
=============================================================================
