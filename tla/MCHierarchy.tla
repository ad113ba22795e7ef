---------------------------- MODULE MCHierarchy ----------------------------
(* Small stories for TLC, by the parents of the rows 1, 2, ...             *)
EXTENDS Hierarchy

CONSTANT r1

(* Chapter 1 with scene 3 and shot 5; chapter 2 with scene 4, where shots 6 *)
(* and 7 contend for positions and may move past each other.  A plan can   *)
(* leave 5 live below chapter 1 and take 6, which 5 continues.             *)
TwoChapters == <<0, 0, 1, 2, 3, 4, 4>>
Positions == <<{0}, {1}, {0}, {0}, {0}, {0, 2}, {1}>>
Links == <<{}, {}, {}, {}, {NoShot, 6}, {NoShot, 7}, {NoShot, 6}>>
=============================================================================
