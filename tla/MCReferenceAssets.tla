-------------------------- MODULE MCReferenceAssets --------------------------
(* A small media library for TLC. *)
EXTENDS ReferenceAssets, TLC

CONSTANTS r1, r2, a1, a2, c1, s1

Symmetry == Permutations({r1, r2}) \cup Permutations({a1, a2})
=============================================================================
