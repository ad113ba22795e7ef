------------------------------ MODULE Hierarchy ------------------------------
(***************************************************************************)
(* The tree of a story, chapters over scenes over shots, as the requests   *)
(* of backend/app/services/storyboard.py and the merge of an applied       *)
(* proposal (storyboard_mutations.py) change it.                           *)
(*                                                                         *)
(* A row is never deleted: an archived one stays as a tombstone, and the   *)
(* order_index of siblings is unique over the tombstones too.  A shot may  *)
(* name an earlier shot as the source of its continuity.                   *)
(*                                                                         *)
(* A request is two steps.  It first looks its row up, and then locks the  *)
(* story's row (PostgreSQL), changes the tree and commits.  The lock       *)
(* re-reads only the story: the row looked up and the rows above it stay   *)
(* as they were read in the identity map of the session.                   *)
(*                                                                         *)
(* Left out: titles, durations and the other texts of a row, the reopening *)
(* of the story (StoryVersions), audit rows, and the approvals below a     *)
(* shot or of a shot, which only make an archive fail.                     *)
(***************************************************************************)
EXTENDS Integers, FiniteSets, Functions

CONSTANTS Chapters, Scenes, Shots, \* ids the rows may get; ids are ordered
          Story,                   \* the story, parent of the chapters
          ParentOf,                \* the parent of each chapter, scene and shot
          NoShot,                  \* NULL
          Requests,                \* requests that can be under way at a time
          Slow,                    \* bound: rows whose requests others come between
          Asked,                   \* bound: positions a request asks for, by node
          AskedSources,            \* bound: sources a shot may be given, by node
          MaxDepth                 \* bound: how far below 0 tombstones sink

Nodes == Chapters \cup Scenes \cup Shots

ASSUME IdsAssumption == Nodes \subseteq Int /\ Story \notin Nodes /\ NoShot \notin Nodes
ASSUME FiniteAssumption == IsFiniteSet(Nodes)
ASSUME LevelsAssumption ==
  /\ Chapters \cap Scenes = {} /\ Chapters \cap Shots = {} /\ Scenes \cap Shots = {}
  /\ ParentOf \in [Nodes -> Chapters \cup Scenes \cup {Story}]
  /\ \A n \in Nodes : /\ n \in Chapters <=> ParentOf[n] = Story
                      /\ n \in Scenes <=> ParentOf[n] \in Chapters
                      /\ n \in Shots <=> ParentOf[n] \in Scenes
ASSUME BoundsAssumption == /\ Asked \in [Nodes -> SUBSET Nat]
                           /\ AskedSources \in [Nodes -> SUBSET (Shots \cup {NoShot})]
                           /\ MaxDepth \in Nat
ASSUME SlowAssumption == Slow \subseteq Nodes

Sources == Shots \cup {NoShot}

(* order and source of a row that is absent say nothing; only a shot has a *)
(* source.                                                                 *)
Row == [state : {"absent", "active", "archived"}, order : Int, source : Sources]
Absent == [state |-> "absent", order |-> 0, source |-> NoShot]

(* What a request is to do, and for an edit the row as it looked it up. *)
Requested == [op : {"create", "edit", "archive", "reorder"}, node : Nodes, seen : Row]
Idle == [op |-> "idle"]

VARIABLES row,     \* the tables chapters, scenes and shots
          request, \* what each request under way has read
          leftover \* history: shots the last plan did not name and left where they were

vars == <<row, request, leftover>>

TypeOK ==
  /\ row \in [Nodes -> Row]
  /\ request \in [Requests -> Requested \cup {Idle}]
  /\ leftover \subseteq Shots

Init ==
  /\ row = [n \in Nodes |-> Absent]
  /\ request = [r \in Requests |-> Idle]
  /\ leftover = {}

-----------------------------------------------------------------------------
(* The tree *)

Exists(n) == row[n].state # "absent"
Active(n) == row[n].state = "active"
Lineage(n) ==
  LET up == ParentOf[n]
  IN {n} \cup (IF n \in Scenes THEN {up} ELSE IF n \in Shots THEN {up, ParentOf[up]} ELSE {})

(* Neither the node nor a node above it is archived. *)
Live(n) == \A m \in Lineage(n) : Active(m)

Children(p) == {n \in Nodes : ParentOf[n] = p /\ Exists(n)}
ActiveChildren(p) == {n \in Children(p) : Active(n)}
Below(n) == {m \in Nodes : n \in Lineage(m)}

(* The canonical position of shot m is before that of shot n. *)
Before(rows, m, n) ==
  LET scene(x) == ParentOf[x]
      chapter(x) == ParentOf[ParentOf[x]]
      at(x) == rows[x].order
  IN \/ at(chapter(m)) < at(chapter(n))
     \/ /\ at(chapter(m)) = at(chapter(n))
        /\ \/ at(scene(m)) < at(scene(n))
           \/ at(scene(m)) = at(scene(n)) /\ at(m) < at(n)

(* The shots the continuity of shot n goes back to, n included: they are in *)
(* every set that has n and, with a shot, its source.                      *)
Closed(rows, S) == \A m \in S : rows[m].source # NoShot => rows[m].source \in S
Origins(rows, n) ==
  {m \in Shots : \A S \in SUBSET Shots : n \in S /\ Closed(rows, S) => m \in S}

(* Mutant: the precedence of the source is taken to exclude cycles. *)
ContinuesUnwalked(rows, stale, t, m) ==
  m # NoShot => m # t /\ Before(rows, m, t)

(* _validate_continuity of target t and source m over the rows as the      *)
(* session sees them: those in stale still look active to it.              *)
Continues(rows, stale, t, m) ==
  m # NoShot =>
    /\ m # t
    /\ Before(rows, m, t)
    /\ \A o \in Origins(rows, m) :
         /\ o # t
         /\ rows[o].source # NoShot => o \notin Origins(rows, rows[o].source)
         /\ \A x \in Lineage(o) : x \in stale \/ rows[x].state = "active"

-----------------------------------------------------------------------------
(* Unique sibling order *)

(* UPDATEs from before to after, one row at a time in the order of their   *)
(* ids, keep the order_index of the rows S unique all along.               *)
CollisionFree(S, before, after) ==
  \A m, n \in S :
    m # n => /\ after[m] # after[n]
             /\ (m < n /\ after[m] # before[m]) => after[m] # before[n]

OrderOf(S) == [n \in S |-> row[n].order]
Smallest(S) == CHOOSE x \in S : \A y \in S : x <= y
Largest(S) == CHOOSE x \in S : \A y \in S : x >= y
AbsOf(x) == IF x < 0 THEN -x ELSE x

(* Mutant: the staging forgets that tombstones are below 0. *)
StagedFromCount(S) ==
  [n \in S |-> Cardinality(S) + Cardinality({m \in S : row[m].order < row[n].order})]

(* _reindex_active_siblings: above everything first, then the active rows  *)
(* from 0 up and the archived ones from -1 down.                           *)
Staged(S) ==
  LET base == Largest({AbsOf(row[n].order) : n \in S}) + Cardinality(S) + 1
  IN [n \in S |-> base + Cardinality({m \in S : row[m].order < row[n].order})]
Reindexed(S, archived) ==
  [n \in S |-> IF n \in archived
               THEN -(1 + Cardinality({m \in archived : m < n}))
               ELSE Cardinality({m \in S \ archived : row[m].order < row[n].order})]

(* reorder: the active rows go above everything first. *)
StagedActive(S, active) ==
  LET base == Largest({row[n].order : n \in S}) + Cardinality(active) + 1
  IN [n \in S |-> IF n \in active
                  THEN base + Cardinality({m \in active : row[m].order < row[n].order})
                  ELSE row[n].order]

-----------------------------------------------------------------------------
(* What a request q does under the lock of the story *)

LookedUp(op, n) == [op |-> op, node |-> n, seen |-> IF op = "edit" THEN row[n] ELSE Absent]

SlotFree(n, k) == \A m \in Children(ParentOf[n]) \ {n} : row[m].order # k

CreateScene(q, n, k) ==
  /\ n \in Scenes /\ ParentOf[n] = q.node /\ ~Exists(n)
  /\ SlotFree(n, k)
  /\ row' = [row EXCEPT ![n] = [Absent EXCEPT !.state = "active", !.order = k]]

CreateShot(q, n, k, m) ==
  /\ n \in Shots /\ ParentOf[n] = q.node /\ ~Exists(n)
  /\ SlotFree(n, k)
  /\ row' = [row EXCEPT ![n] = [state |-> "active", order |-> k, source |-> m]]
  /\ Continues(row', Lineage(n), n, m)

(* The unit of work writes a column only when it differs from what was     *)
(* read; otherwise the row keeps what it holds by now.                     *)
Flush(seen, value, now) == IF value = seen THEN now ELSE value

Written(n, seen, new) ==
  [row[n] EXCEPT !.order = Flush(seen.order, new.order, @),
                 !.source = Flush(seen.source, new.source, @)]

(* update_shot, which leaves a taken position to the unique constraint, as *)
(* patch_shot does with the position of a tombstone; both fail alike.      *)
UpdateShot(q, k, m) ==
  LET n == q.node
  IN /\ row' = [row EXCEPT ![n] =
                  Written(n, q.seen, [q.seen EXCEPT !.order = k, !.source = m])]
     /\ SlotFree(n, row'[n].order)
     /\ Continues(row', Lineage(n), n, m)

(* patch_shot also validates the source at the position the shot had. *)
PatchShot(q, k, m) ==
  /\ UpdateShot(q, k, m)
  /\ Continues(row, Lineage(q.node), q.node, m)

(* The rows an archive of n takes with it: those below it not archived     *)
(* yet, and every shot that is active in a scene below it.                 *)
Taken(n) == {n} \cup {m \in Below(n) : Active(m)}

(* Mutant: only the archived shots of a whole scene are looked at. *)
DependentsBeside(S) ==
  {m \in Shots \ S : Live(m) /\ row[m].source \in S /\ ParentOf[m] = ParentOf[row[m].source]}

(* _external_continuity_dependents: live shots outside S that continue a   *)
(* shot of S.                                                              *)
Dependents(S) == {m \in Shots \ S : Live(m) /\ row[m].source \in S}

(* archive_chapter, archive_scene, archive_shot.  That the staging starts *)
(* from the position of n as it was read could only make it fail.          *)
Archive(q) ==
  LET n == q.node
      S == Children(ParentOf[n])
      gone == {m \in S : m = n \/ row[m].state = "archived"}
      final == Reindexed(S, gone)
  IN /\ Dependents(Taken(n)) = {}
     /\ CollisionFree(S, OrderOf(S), Staged(S))
     /\ CollisionFree(S, Staged(S), final)
     /\ row' = [m \in Nodes |->
                 [row[m] EXCEPT !.state = IF m \in Taken(n) THEN "archived" ELSE @,
                                !.order = IF m \in S THEN final[m] ELSE @]]

(* reorder: the active children of p trade their positions, and every live *)
(* shot of the story must still come after its source.                     *)
Reorder(p, place, stale) ==
  LET S == Children(p)
      active == ActiveChildren(p)
      final == [n \in S |-> IF n \in active THEN row[place[n]].order ELSE row[n].order]
  IN /\ active # {}
     /\ CollisionFree(S, OrderOf(S), StagedActive(S, active))
     /\ CollisionFree(S, StagedActive(S, active), final)
     /\ row' = [n \in Nodes |-> IF n \in S THEN [row[n] EXCEPT !.order = final[n]] ELSE row[n]]
     /\ \A n \in Shots : Live(n) => Continues(row', stale, n, row[n].source)

ReorderChildren(q, place) == Reorder(q.node, place, Lineage(q.node))

(* create_chapter and the reordering of chapters look nothing up before    *)
(* they lock the story.                                                    *)
CreateChapter(n, k) ==
  /\ n \in Chapters /\ ~Exists(n)
  /\ SlotFree(n, k)
  /\ row' = [row EXCEPT ![n] = [Absent EXCEPT !.state = "active", !.order = k]]

ReorderChapters(place) == Reorder(Story, place, {})

-----------------------------------------------------------------------------
(* apply_proposal *)

(* The full plans a proposal may hold: the nodes, the position of each      *)
(* among its siblings and the source of each shot.  Client ids that name no *)
(* row of the story make new rows.                                          *)
Kept == {S \in SUBSET Nodes : S \cap Shots # {} /\ \A n \in S : Lineage(n) \subseteq S}

(* validate_storyboard_payload: contiguous positions, and sources that are *)
(* in the plan and before their targets.                                   *)
Fanout == Largest({Cardinality({n \in Nodes : ParentOf[n] = p}) : p \in Nodes \cup {Story}})
Placings(S) ==
  {order \in [S -> 0..(Fanout - 1)] :
     \A n \in S : LET siblings == {m \in S : ParentOf[m] = ParentOf[n]}
                  IN {order[m] : m \in siblings} = 0..(Cardinality(siblings) - 1)}

PlanRows(S, order) == [n \in S |-> [Absent EXCEPT !.order = order[n]]]

Plans ==
  UNION {UNION {{[order |-> order, source |-> source] : source \in
                   {f \in [S \cap Shots -> (S \cap Shots) \cup {NoShot}] :
                      \A n \in S \cap Shots :
                        /\ f[n] \in AskedSources[n]
                        /\ f[n] # NoShot => Before(PlanRows(S, order), f[n], n)}} :
                order \in Placings(S)} : S \in Kept}

NodesOf(plan) == DOMAIN plan.order

(* Chapters and scenes get their positions one at a time, in the order of  *)
(* the plan; a later sibling, or one the plan omits, still has its old     *)
(* position then.  Only the shots are moved out of the way first.          *)
Assignable(plan) ==
  \A n \in NodesOf(plan) \ Shots : \A m \in Children(ParentOf[n]) \ {n} :
    row[m].order = plan.order[n] =>
      m \in NodesOf(plan) /\ plan.order[m] < plan.order[n]

(* Mutant: as with scenes, a shot goes only when the plan has another one. *)
OmittedShotsBeside(plan) ==
  {n \in Shots \ NodesOf(plan) :
     Exists(n) /\ \E m \in NodesOf(plan) : ParentOf[m] = ParentOf[n]}

(* The shots of a kept scene that the plan leaves out. *)
OmittedShots(plan) ==
  {n \in Shots \ NodesOf(plan) : Exists(n) /\ ParentOf[n] \in NodesOf(plan)}

(* What else goes: a chapter alone, and a scene when the plan has another  *)
(* scene for its chapter.                                                  *)
Omitted(plan) ==
  {n \in (Chapters \cup Scenes) \ NodesOf(plan) :
     Active(n) /\ (n \in Scenes =>
                      \E m \in NodesOf(plan) : ParentOf[m] = ParentOf[n])}

(* Mutant: shots left out keep their position. *)
SunkNot(n) == row[n].order

(* The shots of a scene move below everything first; those left out stay.  *)
Sunk(n) ==
  LET S == Children(ParentOf[n])
  IN Smallest({row[m].order : m \in S} \cup {0}) - Cardinality(S) - 1
       - Cardinality({m \in S : m < n})

(* The scenes and shots of a chapter that the plan names without scenes are *)
(* not looked at: those that are not archived themselves stay, or come     *)
(* back with the chapter when an earlier plan has left it out.             *)
LeftOver(plan) ==
  {n \in Scenes \cup Shots :
     /\ \A m \in Lineage(n) \cap Chapters :
          m \in NodesOf(plan) /\ ~ \E s \in NodesOf(plan) : ParentOf[s] = m
     /\ \A m \in Lineage(n) \ Chapters : Active(m)}

Merged(plan, n) ==
  IF n \in NodesOf(plan)
  THEN [row[n] EXCEPT !.state = "active", !.order = plan.order[n],
                      !.source = IF n \in Shots THEN plan.source[n] ELSE @]
  ELSE IF n \in OmittedShots(plan)
  THEN [row[n] EXCEPT !.state = "archived", !.order = Sunk(n)]
  ELSE IF n \in Omitted(plan) THEN [row[n] EXCEPT !.state = "archived"] ELSE row[n]

Apply(plan) ==
  /\ Assignable(plan)
  /\ \A n \in OmittedShots(plan) : Sunk(n) >= -MaxDepth
  /\ row' = [n \in Nodes |-> Merged(plan, n)]
  /\ leftover' = LeftOver(plan) \cap Shots

-----------------------------------------------------------------------------
(* Requests *)

LookUp(r, op, n) ==
  /\ request[r] = Idle
  /\ Live(n)
  /\ request' = [request EXCEPT ![r] = LookedUp(op, n)]
  /\ UNCHANGED <<row, leftover>>

Answer(r) == request' = [request EXCEPT ![r] = Idle]

(* The request fails, and whatever it did is rolled back. *)
Fail(r) ==
  /\ request[r] # Idle
  /\ Answer(r)
  /\ UNCHANGED <<row, leftover>>

Arrangements(p) == Bijection(ActiveChildren(p), ActiveChildren(p))

Run(q) ==
  \/ /\ q.op = "create"
     /\ \E n \in Scenes \cup Shots : \E k \in Asked[n] :
          CreateScene(q, n, k) \/ \E m \in AskedSources[n] : CreateShot(q, n, k, m)
  \/ /\ q.op = "edit"
     /\ \E k \in Asked[q.node] \cup {q.seen.order}, m \in AskedSources[q.node] :
          PatchShot(q, k, m) \/ UpdateShot(q, k, m)
  \/ q.op = "archive" /\ Archive(q)
  \/ q.op = "reorder" /\ \E place \in Arrangements(q.node) : ReorderChildren(q, place)

Ops(n) == IF n \in Shots THEN {"edit", "archive"} ELSE {"create", "archive", "reorder"}

(* A request others come between, and one that meets nobody. *)
SlowRequest(r) == request[r] # Idle /\ Run(request[r]) /\ Answer(r) /\ UNCHANGED leftover
PromptRequest(n, op) == Live(n) /\ Run(LookedUp(op, n)) /\ UNCHANGED <<request, leftover>>

Next ==
  \/ /\ \/ \E n \in Chapters : \E k \in Asked[n] : CreateChapter(n, k)
        \/ \E place \in Arrangements(Story) : ReorderChapters(place)
     /\ UNCHANGED <<request, leftover>>
  \/ (\E plan \in Plans : Apply(plan)) /\ UNCHANGED request
  \/ \E n \in Nodes : \E op \in Ops(n) :
       \/ PromptRequest(n, op)
       \/ n \in Slow /\ \E r \in Requests : LookUp(r, op, n)
  \/ \E r \in Requests : SlowRequest(r) \/ Fail(r)

Spec == Init /\ [][Next]_vars

-----------------------------------------------------------------------------
(* Safety *)

(* uq_chapter_story_order, uq_scene_chapter_order and uq_shot_scene_order  *)
(* hold of what archive, reorder and apply compute.                        *)
SlotsUnique ==
  \A m, n \in Nodes :
    m # n /\ ParentOf[m] = ParentOf[n] /\ Exists(m) /\ Exists(n) => row[m].order # row[n].order

(* The two flushes of _reindex_active_siblings and of reorder never run    *)
(* into the unique constraint, whatever tombstones the siblings include.   *)
StagingNeverCollides ==
  \A p \in Chapters \cup Scenes \cup {Story} :
    LET S == Children(p)
        active == ActiveChildren(p)
    IN S # {} => /\ CollisionFree(S, OrderOf(S), Staged(S))
                 /\ CollisionFree(S, Staged(S), Reindexed(S, S \ active))
                 /\ CollisionFree(S, OrderOf(S), StagedActive(S, active))
                 /\ CollisionFree(S, StagedActive(S, active), OrderOf(S))

(* Siblings keep orders of their own, and every flush on the way does.      *)
OrdersStayDistinct == TypeOK /\ SlotsUnique /\ StagingNeverCollides

(* "Continuity links may not form a cycle", whatever requests and proposals *)
(* run side by side and whatever they move.                                 *)
NoContinuityCycle ==
  \A n \in Shots : row[n].source # NoShot => n \notin Origins(row, row[n].source)

(* The source of a live shot is live: no archive takes it away, and no link *)
(* is made to a shot another request is archiving.  Only the shots that a  *)
(* plan leaves below a chapter it names without scenes can lose theirs:    *)
(* the plan takes their sources away elsewhere and does not look at them.  *)
SourceIsLive ==
  \A n \in Shots \ leftover :
    Live(n) /\ row[n].source # NoShot => Live(row[n].source)

(* An applied plan replaces the story, whatever tree it meets: all that is  *)
(* in the plan is there, and what is not is gone, but for the rows below a *)
(* chapter it names without scenes.                                        *)
PlanReplacesStory ==
  (\A r \in Requests : request[r] = Idle) => \A plan \in Plans :
    Assignable(plan) =>
      LET active == {n \in Nodes : Merged(plan, n).state = "active"}
      IN {n \in Nodes : Lineage(n) \subseteq active} = NodesOf(plan) \cup LeftOver(plan)
=============================================================================
