--------------------------- MODULE StoryboardProofs ---------------------------
(***************************************************************************)
(* Theorems about the tree of a story, for every set of chapters, scenes   *)
(* and shots, every number of requests and every position and plan they    *)
(* ask for; about the shots' durations in an assembled plan; and about     *)
(* what becomes of every plan, whatever the providers have answered or an  *)
(* author has written.                                                     *)
(*                                                                         *)
(* The order of the module: ranks in finite sets of numbers, from which    *)
(* positions are computed; the origins of a shot, as least closed sets;    *)
(* the changes a step can make to the rows and what each writes; then one  *)
(* invariant after another, and the theorems about the tree.  After the    *)
(* durations come folds over finite sets, what an assembled plan holds,    *)
(* the rules a plan has passed at each stage, and the theorems about       *)
(* plans; last, rule by rule, that an assembled plan keeps them.           *)
(***************************************************************************)
EXTENDS Hierarchy, Proposals, FiniteSetTheorems, SequenceTheorems, TLAPS

-----------------------------------------------------------------------------
(* Finite sets of numbers *)

LEMMA LessMembers ==
  ASSUME NEW B, IsFiniteSet(B), NEW A \in SUBSET B, NEW b \in B \ A
  PROVE  /\ Cardinality(A) \in Nat /\ Cardinality(B) \in Nat
         /\ Cardinality(A) < Cardinality(B)
<1>1. /\ IsFiniteSet(A) /\ Cardinality(A) <= Cardinality(B)
      /\ Cardinality(B) = Cardinality(A) => B = A
  BY FS_Subset
<1>2. Cardinality(A) \in Nat /\ Cardinality(B) \in Nat
  BY <1>1, FS_CardinalityType
<1> QED  BY <1>1, <1>2

(* Some set of a nonempty set of finite sets has no smaller one in it. *)
LEMMA MinimalExists ==
  ASSUME NEW S, IsFiniteSet(S), NEW T, T # {}, \A A \in T : A \subseteq S
  PROVE  \E A \in T : \A B \in T : B \subseteq A => B = A
<1>1. FiniteSubsetsOf(S) = SUBSET S
  BY FS_FiniteSubsetsOfFinite
<1>2. PICK A \in T : \A B \in T : ~ (<<B, A>> \in StrictSubsetOrdering(S))
  BY <1>1, FS_StrictSubsetOrderingWellFounded, WFMin
<1>3. ASSUME NEW B \in T, B \subseteq A, B # A  PROVE FALSE
  <2>1. <<B, A>> \in (SUBSET S) \X (SUBSET S)
    OBVIOUS
  <2>2. <<B, A>> \in StrictSubsetOrdering(S)
    BY <2>1, <1>3 DEF StrictSubsetOrdering
  <2> QED  BY <1>2, <2>2
<1> QED  BY <1>3

LEMMA SmallestOf ==
  ASSUME NEW S \in SUBSET Int, IsFiniteSet(S), S # {}
  PROVE  Smallest(S) \in S /\ \A y \in S : Smallest(S) <= y
<1> DEFINE below(u) == {v \in S : v <= u}
<1> DEFINE T == {below(x) : x \in S}
<1>0. (\A A \in T : A \subseteq S) /\ T # {} /\ \A z \in S : z \in Int
  OBVIOUS
<1>1. PICK A \in T : \A B \in T : B \subseteq A => B = A
  <2> HIDE DEF T
  <2> QED  BY <1>0, MinimalExists
<1>2. PICK x \in S : A = below(x)
  BY <1>1
<1>3. ASSUME NEW y \in S, ~(x <= y)  PROVE FALSE
  <2>1. x \in Int /\ y \in Int /\ \A z \in S : z \in Int
    BY <1>0
  <2>2. \A z \in Int : z <= y => z <= x
    BY <1>3, <2>1
  <2>3. below(y) \subseteq below(x)
    BY <2>1, <2>2
  <2>4. x \in below(x) /\ x \notin below(y)
    BY <1>3, <2>1
  <2> QED  BY <1>1, <1>2, <2>3, <2>4
<1>4. \E z \in S : \A y \in S : z <= y
  BY <1>3
<1> QED  BY <1>4 DEF Smallest

LEMMA LargestOf ==
  ASSUME NEW S \in SUBSET Int, IsFiniteSet(S), S # {}
  PROVE  Largest(S) \in S /\ \A y \in S : Largest(S) >= y
<1> DEFINE above(u) == {v \in S : v >= u}
<1> DEFINE T == {above(x) : x \in S}
<1>0. (\A A \in T : A \subseteq S) /\ T # {} /\ \A z \in S : z \in Int
  OBVIOUS
<1>1. PICK A \in T : \A B \in T : B \subseteq A => B = A
  <2> HIDE DEF T
  <2> QED  BY <1>0, MinimalExists
<1>2. PICK x \in S : A = above(x)
  BY <1>1
<1>3. ASSUME NEW y \in S, ~(x >= y)  PROVE FALSE
  <2>1. x \in Int /\ y \in Int /\ \A z \in S : z \in Int
    BY <1>0
  <2>2. \A z \in Int : z >= y => z >= x
    BY <1>3, <2>1
  <2>3. above(y) \subseteq above(x)
    BY <2>1, <2>2
  <2>4. x \in above(x) /\ x \notin above(y)
    BY <1>3, <2>1
  <2> QED  BY <1>1, <1>2, <2>3, <2>4
<1>4. \E z \in S : \A y \in S : z >= y
  BY <1>3
<1> QED  BY <1>4 DEF Largest

(* A finite set has a finite image, one-to-one if it is as large. *)
LEMMA ImageOf ==
  ASSUME NEW S, IsFiniteSet(S), NEW f \in [S -> Int]
  PROVE  IsFiniteSet({f[x] : x \in S})
<1>1. f \in Surjection(S, {f[x] : x \in S})
  BY DEF Surjection
<1> QED  BY <1>1, FS_Surjection

LEMMA OneToOne ==
  ASSUME NEW S, IsFiniteSet(S), NEW f \in [S -> Int], NEW T, IsFiniteSet(T),
         {f[x] : x \in S} = T, Cardinality(T) = Cardinality(S),
         NEW a \in S, NEW b \in S, f[a] = f[b]
  PROVE  a = b
<1> SUFFICES ASSUME a # b  PROVE FALSE
  OBVIOUS
<1> DEFINE R == S \ {a}
           g == [t \in T |-> CHOOSE x \in R : f[x] = t]
<1>1. \A t \in T : \E x \in R : f[x] = t
  OBVIOUS
<1>2. g \in [T -> R] /\ \A t \in T : f[g[t]] = t
  BY <1>1
<1>3. IsFiniteSet(R) /\ Cardinality(R) < Cardinality(T)
  <2>1. a \in S \ R /\ R \in SUBSET S
    OBVIOUS
  <2>2. IsFiniteSet(R)
    BY <2>1, FS_Subset
  <2>3. Cardinality(R) < Cardinality(S)
    BY <2>1, LessMembers
  <2> QED  BY <2>2, <2>3
<1> HIDE DEF g, R
<1>4. PICK x \in T, y \in T : x # y /\ g[x] = g[y]
  BY <1>2, <1>3, FS_PigeonHole
<1> QED  BY <1>2, <1>4

(* Places among the nodes of S, by position and by id. *)
LEMMA OrderRank ==
  ASSUME TypeOK, NEW S \in SUBSET Nodes
  PROVE  /\ Cardinality(S) \in Nat
         /\ \A n \in Nodes :
              /\ Cardinality({m \in S : row[m].order < row[n].order}) \in Nat
              /\ Cardinality({m \in S : row[m].order < row[n].order}) <= Cardinality(S)
         /\ \A x \in S, y \in Nodes : row[x].order < row[y].order =>
              Cardinality({m \in S : row[m].order < row[x].order})
                < Cardinality({m \in S : row[m].order < row[y].order})
<1> DEFINE lower(n) == {m \in S : row[m].order < row[n].order}
<1>0. \A n \in Nodes : row[n].order \in Int
  BY DEF TypeOK, Row
<1>1. IsFiniteSet(S) /\ Cardinality(S) \in Nat
  BY FiniteAssumption, FS_Subset, FS_CardinalityType
<1>2. ASSUME NEW n \in Nodes
      PROVE  /\ IsFiniteSet(lower(n)) /\ Cardinality(lower(n)) \in Nat
             /\ Cardinality(lower(n)) <= Cardinality(S)
  <2>1. lower(n) \in SUBSET S
    OBVIOUS
  <2>2. IsFiniteSet(lower(n)) /\ Cardinality(lower(n)) <= Cardinality(S)
    BY <1>1, <2>1, FS_Subset
  <2> QED  BY <2>2, FS_CardinalityType
<1>3. ASSUME NEW x \in S, NEW y \in Nodes, row[x].order < row[y].order
      PROVE  Cardinality(lower(x)) < Cardinality(lower(y))
  <2>1. lower(x) \in SUBSET lower(y) /\ x \in lower(y) \ lower(x)
    BY <1>0, <1>3
  <2> QED  BY <1>2, <2>1, LessMembers
<1> QED  BY <1>1, <1>2, <1>3

LEMMA IdRank ==
  ASSUME NEW S \in SUBSET Nodes
  PROVE  /\ \A n \in Nodes : /\ Cardinality({m \in S : m < n}) \in Nat
                             /\ Cardinality({m \in S : m < n}) <= Cardinality(S)
         /\ \A x \in S, y \in Nodes : x < y =>
              Cardinality({m \in S : m < x}) < Cardinality({m \in S : m < y})
<1> DEFINE lower(n) == {m \in S : m < n}
<1>0. \A n \in Nodes : n \in Int
  BY IdsAssumption
<1>1. IsFiniteSet(S) /\ Cardinality(S) \in Nat
  BY FiniteAssumption, FS_Subset, FS_CardinalityType
<1>2. ASSUME NEW n \in Nodes
      PROVE  /\ IsFiniteSet(lower(n)) /\ Cardinality(lower(n)) \in Nat
             /\ Cardinality(lower(n)) <= Cardinality(S)
  <2>1. lower(n) \in SUBSET S
    OBVIOUS
  <2>2. IsFiniteSet(lower(n)) /\ Cardinality(lower(n)) <= Cardinality(S)
    BY <1>1, <2>1, FS_Subset
  <2> QED  BY <2>2, FS_CardinalityType
<1>3. ASSUME NEW x \in S, NEW y \in Nodes, x < y
      PROVE  Cardinality(lower(x)) < Cardinality(lower(y))
  <2>1. lower(x) \in SUBSET lower(y) /\ x \in lower(y) \ lower(x)
    BY <1>0, <1>3
  <2> QED  BY <1>2, <2>1, LessMembers
<1> QED  BY <1>1, <1>2, <1>3

-----------------------------------------------------------------------------
(* Continuity *)

(* Trees whose shots have shots or nothing for sources. *)
Sourced(rows) == \A n \in Shots : rows[n].source \in Sources

NoCycle(rows) ==
  \A n \in Shots : rows[n].source # NoShot => n \notin Origins(rows, rows[n].source)

LEMMA ShotIsShot == NoShot \notin Shots /\ Shots \subseteq Nodes
BY IdsAssumption DEF Nodes

LEMMA OriginsClosed ==
  ASSUME NEW rows, Sourced(rows), NEW n \in Shots
  PROVE  /\ n \in Origins(rows, n)
         /\ Origins(rows, n) \subseteq Shots
         /\ Closed(rows, Origins(rows, n))
         /\ \A S \in SUBSET Shots :
              n \in S /\ Closed(rows, S) => Origins(rows, n) \subseteq S
<1>1. /\ n \in Origins(rows, n)
      /\ Origins(rows, n) \subseteq Shots
      /\ \A S \in SUBSET Shots :
           n \in S /\ Closed(rows, S) => Origins(rows, n) \subseteq S
  BY DEF Origins
<1>2. ASSUME NEW m \in Origins(rows, n), rows[m].source # NoShot
      PROVE  rows[m].source \in Origins(rows, n)
  <2>1. m \in Shots /\ rows[m].source \in Shots
    BY <1>1, <1>2 DEF Sourced, Sources
  <2>2. ASSUME NEW S \in SUBSET Shots, n \in S, Closed(rows, S)
        PROVE  rows[m].source \in S
    <3>1. m \in S  BY <1>1, <2>2
    <3> QED  BY <1>2, <2>2, <3>1 DEF Closed
  <2> QED  BY <2>1, <2>2 DEF Origins
<1> QED  BY <1>1, <1>2 DEF Closed

(* What a member goes back to, the shot goes back to. *)
LEMMA OriginsNest ==
  ASSUME NEW rows, Sourced(rows), NEW n \in Shots, NEW m \in Origins(rows, n)
  PROVE  m \in Shots /\ Origins(rows, m) \subseteq Origins(rows, n)
<1>1. m \in Shots  BY OriginsClosed
<1>2. Closed(rows, Origins(rows, n)) /\ Origins(rows, n) \in SUBSET Shots
  BY OriginsClosed
<1> QED  BY <1>1, <1>2, OriginsClosed

(* A shot goes back to itself and to what its source goes back to. *)
LEMMA OriginsUnfold ==
  ASSUME NEW rows, Sourced(rows), NEW n \in Shots
  PROVE  /\ rows[n].source = NoShot => Origins(rows, n) = {n}
         /\ rows[n].source # NoShot =>
              /\ rows[n].source \in Shots
              /\ Origins(rows, n) \subseteq {n} \cup Origins(rows, rows[n].source)
<1>1. CASE rows[n].source = NoShot
  <2>1. Closed(rows, {n}) /\ {n} \in SUBSET Shots
    BY <1>1 DEF Closed
  <2> QED  BY <1>1, <2>1, OriginsClosed
<1>2. CASE rows[n].source # NoShot
  <2> DEFINE m == rows[n].source
             S == {n} \cup Origins(rows, m)
  <2>1. m \in Shots  BY <1>2 DEF Sourced, Sources
  <2>2. /\ m \in Origins(rows, m) /\ Origins(rows, m) \subseteq Shots
        /\ Closed(rows, Origins(rows, m))
    BY <2>1, OriginsClosed
  <2>3. Closed(rows, S) /\ S \in SUBSET Shots /\ n \in S
    BY <2>2 DEF Closed
  <2> HIDE DEF S
  <2>4. Origins(rows, n) \subseteq S
    BY <2>3, OriginsClosed
  <2> QED  BY <1>2, <2>1, <2>4 DEF S
<1> QED  BY <1>1, <1>2

(* Every shot of a cycle leads around it. *)
LEMMA CycleIsClosed ==
  ASSUME NEW rows, Sourced(rows), NEW n \in Shots, rows[n].source # NoShot,
         n \in Origins(rows, rows[n].source), NEW x \in Origins(rows, rows[n].source)
  PROVE  /\ x \in Shots /\ rows[x].source # NoShot
         /\ n \in Origins(rows, x)
         /\ x \in Origins(rows, rows[x].source)
<1> DEFINE C == Origins(rows, rows[n].source)
           S == {y \in C : n \in Origins(rows, y)}
<1>1. /\ rows[n].source \in Shots /\ rows[n].source \in C
      /\ C \subseteq Shots /\ Closed(rows, C)
      /\ \A T \in SUBSET Shots : rows[n].source \in T /\ Closed(rows, T) => C \subseteq T
  BY OriginsClosed DEF Sourced, Sources
<1>2. ASSUME NEW y \in S, rows[y].source # NoShot  PROVE rows[y].source \in S
  <2>1. y \in Shots /\ rows[y].source \in C
    BY <1>1, <1>2 DEF Closed
  <2>2. Origins(rows, y) \subseteq {y} \cup Origins(rows, rows[y].source)
    BY <1>2, <2>1, OriginsUnfold
  <2>3. CASE y = n  BY <2>1, <2>3
  <2>4. CASE y # n  BY <1>2, <2>1, <2>2, <2>4
  <2> QED  BY <2>3, <2>4
<1>3. C \subseteq S
  <2>1. S \in SUBSET Shots /\ rows[n].source \in S
    BY <1>1
  <2>2. Closed(rows, S)  BY <1>2 DEF Closed
  <2> HIDE DEF S, C
  <2> QED  BY <1>1, <2>1, <2>2
<1>4. x \in Shots /\ n \in Origins(rows, x)
  BY <1>1, <1>3
<1>5. rows[x].source # NoShot
  <2> SUFFICES ASSUME rows[x].source = NoShot  PROVE FALSE
    OBVIOUS
  <2>1. Origins(rows, x) = {x}  BY <1>4, OriginsUnfold
  <2> QED  BY <1>4, <2>1
<1>6. x \in Origins(rows, rows[x].source)
  <2>1. rows[x].source \in C  BY <1>1, <1>5 DEF Closed
  <2>2. n \in Origins(rows, rows[x].source) /\ rows[x].source \in Shots
    BY <1>1, <1>3, <2>1
  <2>3. C \subseteq Origins(rows, rows[x].source)
    <3>1. Origins(rows, n) \subseteq Origins(rows, rows[x].source)
      BY <2>2, OriginsNest
    <3>2. n \in Origins(rows, n) /\ Closed(rows, Origins(rows, n))
      BY OriginsClosed
    <3>3. rows[n].source \in Origins(rows, n)
      BY <3>2 DEF Closed
    <3>4. C \subseteq Origins(rows, n)
      BY <3>3, OriginsNest
    <3> QED  BY <3>1, <3>4
  <2> QED  BY <2>3
<1> QED  BY <1>4, <1>5, <1>6

(* A cycle whose shots have their sources already in another tree is there *)
(* too.                                                                    *)
LEMMA CycleIsKept ==
  ASSUME NEW rows, Sourced(rows), NEW old, Sourced(old),
         NEW n \in Shots, rows[n].source # NoShot, n \in Origins(rows, rows[n].source),
         \A x \in Origins(rows, rows[n].source) : old[x].source = rows[x].source
  PROVE  ~ NoCycle(old)
<1> DEFINE m == rows[n].source
           C == Origins(rows, m)
           D == Origins(old, m)
<1>1. m \in Shots /\ old[n].source = m
  BY DEF Sourced, Sources
<1>2. m \in C /\ C \in SUBSET Shots /\ Closed(rows, C)
  BY <1>1, OriginsClosed
<1>3. Closed(old, C)  BY <1>2 DEF Closed
<1>4. D \subseteq C
  <2> HIDE DEF C, m
  <2> QED  BY <1>1, <1>2, <1>3, OriginsClosed
<1>5. m \in D /\ D \in SUBSET Shots /\ Closed(old, D)
  BY <1>1, OriginsClosed
<1>6. Closed(rows, D)  BY <1>4, <1>5 DEF Closed
<1>7. C \subseteq D
  <2> HIDE DEF D, m
  <2> QED  BY <1>1, <1>5, <1>6, OriginsClosed
<1> QED  BY <1>1, <1>7 DEF NoCycle

(* A tree that differs in the source of one shot has a new cycle only      *)
(* through that shot.                                                      *)
LEMMA NewCycle ==
  ASSUME NEW rows, Sourced(rows), NEW old, Sourced(old), NoCycle(old), NEW t,
         \A x \in Shots \ {t} : old[x].source = rows[x].source,
         t \in Shots /\ rows[t].source # NoShot => t \notin Origins(rows, rows[t].source)
  PROVE  NoCycle(rows)
<1> SUFFICES ASSUME NEW n \in Shots, rows[n].source # NoShot,
                    n \in Origins(rows, rows[n].source)
             PROVE  FALSE
  BY DEF NoCycle
<1>1. \A x \in Origins(rows, rows[n].source) :
         /\ x \in Shots /\ rows[x].source # NoShot
         /\ x \in Origins(rows, rows[x].source)
  BY CycleIsClosed
<1>2. t \notin Origins(rows, rows[n].source)
  BY <1>1
<1>3. \A x \in Origins(rows, rows[n].source) : old[x].source = rows[x].source
  BY <1>1, <1>2
<1> QED  BY <1>3, CycleIsKept

-----------------------------------------------------------------------------
(* The tree *)

LEMMA LineageOf ==
  ASSUME NEW n \in Nodes
  PROVE  /\ n \in Lineage(n) /\ Lineage(n) \subseteq Nodes
         /\ n \in Chapters => Lineage(n) = {n}
         /\ n \notin Chapters =>
              ParentOf[n] \in Nodes /\ Lineage(n) = {n} \cup Lineage(ParentOf[n])
         /\ \A x \in Lineage(n) : Lineage(x) \subseteq Lineage(n)
<1>1. CASE n \in Chapters
  <2>1. n \notin Scenes /\ n \notin Shots  BY <1>1, LevelsAssumption
  <2>2. Lineage(n) = {n}  BY <2>1 DEF Lineage
  <2> QED  BY <1>1, <2>2
<1>2. CASE n \in Scenes
  <2>1. n \notin Chapters /\ ParentOf[n] \in Chapters  BY <1>2, LevelsAssumption
  <2>2. ParentOf[n] \notin Scenes /\ ParentOf[n] \notin Shots /\ ParentOf[n] \in Nodes
    BY <2>1, LevelsAssumption DEF Nodes
  <2>3. /\ Lineage(n) = {n, ParentOf[n]}
        /\ Lineage(ParentOf[n]) = {ParentOf[n]}
    BY <1>2, <2>2 DEF Lineage
  <2> QED  BY <2>1, <2>2, <2>3
<1>3. CASE n \in Shots
  <2> DEFINE s == ParentOf[n]
             c == ParentOf[s]
  <2>1. n \notin Chapters /\ n \notin Scenes /\ s \in Scenes  BY <1>3, LevelsAssumption
  <2>2. s \in Nodes  BY <2>1 DEF Nodes
  <2>3. s \notin Shots /\ c \in Chapters  BY <2>1, <2>2, LevelsAssumption
  <2>4. c \in Nodes  BY <2>3 DEF Nodes
  <2>5. c \notin Scenes /\ c \notin Shots  BY <2>3, LevelsAssumption
  <2>6. Lineage(n) = {n, s, c} /\ Lineage(s) = {s, c} /\ Lineage(c) = {c}
    BY <1>3, <2>1, <2>3, <2>5 DEF Lineage
  <2> QED  BY <2>1, <2>2, <2>4, <2>6
<1> QED  BY <1>1, <1>2, <1>3 DEF Nodes

LEMMA ChildrenOf ==
  ASSUME NEW p
  PROVE  /\ Children(p) \subseteq Nodes /\ ActiveChildren(p) \subseteq Children(p)
         /\ IsFiniteSet(Children(p)) /\ IsFiniteSet(ActiveChildren(p))
<1>1. Children(p) \in SUBSET Nodes /\ ActiveChildren(p) \in SUBSET Nodes
      /\ ActiveChildren(p) \subseteq Children(p)
  BY DEF Children, ActiveChildren
<1> QED  BY <1>1, FS_Subset, FiniteAssumption

(* Who has a row has rows above it, also when a request comes back to it. *)
Rooted(n) == \A x \in Lineage(n) : Exists(x)
TreeInv ==
  /\ \A n \in Nodes : Exists(n) => Rooted(n)
  /\ \A r \in Requests : request[r] # Idle => Rooted(request[r].node)

(* The steps, by what they do to the rows. *)

Created(n, k, m) ==
  /\ ~Exists(n) /\ SlotFree(n, k)
  /\ row' = [row EXCEPT ![n] = [state |-> "active", order |-> k, source |-> m]]
  /\ \A x \in Lineage(n) \ {n} : Exists(x)
  /\ n \in Shots => Continues(row', Lineage(n), n, m)

Changes ==
  \/ UNCHANGED row
  \/ \E n \in Nodes, k \in Int, m \in Sources : Created(n, k, m)
  \/ \E q \in Requested, k \in Int, m \in Sources : Rooted(q.node) /\ UpdateShot(q, k, m)
  \/ \E q \in Requested : Rooted(q.node) /\ Archive(q)
  \/ \E p \in Nodes \cup {Story}, stale \in SUBSET Nodes :
        \E place \in Arrangements(p) : Reorder(p, place, stale)
  \/ \E plan \in Plans : Apply(plan)

LEMMA AskedOf == ASSUME NEW n \in Nodes, NEW k \in Asked[n]  PROVE k \in Int
BY BoundsAssumption

LEMMA AskedSourcesOf == ASSUME NEW n \in Nodes, NEW m \in AskedSources[n]  PROVE m \in Sources
BY BoundsAssumption DEF Sources

LEMMA NewRows ==
  ASSUME NEW k
  PROVE  [Absent EXCEPT !.state = "active", !.order = k]
           = [state |-> "active", order |-> k, source |-> NoShot]
<1> DEFINE new == [Absent EXCEPT !.state = "active", !.order = k]
           old == [state |-> "active", order |-> k, source |-> NoShot]
<1>1. DOMAIN Absent = {"state", "order", "source"}  BY DEF Absent
<1>2. DOMAIN new = {"state", "order", "source"} /\ DOMAIN old = {"state", "order", "source"}
  BY <1>1
<1>3. new.state = old.state /\ new.order = old.order /\ new.source = old.source
  BY DEF Absent
<1>4. \A c \in {"state", "order", "source"} : new[c] = old[c]
  BY <1>3
<1>5. new = [c \in DOMAIN new |-> new[c]] /\ old = [c \in DOMAIN old |-> old[c]]
  OBVIOUS
<1> HIDE DEF new, old
<1> QED  BY <1>2, <1>4, <1>5 DEF new, old

LEMMA ChapterCreated ==
  ASSUME NEW n \in Chapters, NEW k \in Asked[n], CreateChapter(n, k)
  PROVE  Changes
<1>1. n \in Nodes /\ n \notin Shots /\ NoShot \in Sources
  BY LevelsAssumption DEF Nodes, Sources
<1>2. Lineage(n) \ {n} = {}  BY <1>1, LineageOf
<1>3. Created(n, k, NoShot)  BY <1>1, <1>2, NewRows DEF CreateChapter, Created
<1>4. k \in Int  BY <1>1, AskedOf
<1> QED  BY <1>1, <1>3, <1>4 DEF Changes

LEMMA RunChanges ==
  ASSUME NEW q \in Requested, Rooted(q.node), Run(q)
  PROVE  Changes
<1>0. /\ q.node \in Nodes /\ NoShot \in Sources /\ Scenes \cup Shots \subseteq Nodes
      /\ q.seen \in Row
  BY DEF Requested, Nodes, Sources
<1>1. ASSUME NEW n \in Scenes \cup Shots, ParentOf[n] = q.node
      PROVE  n \in Nodes /\ \A x \in Lineage(n) \ {n} : Exists(x)
  <2>1. n \in Nodes /\ n \notin Chapters  BY LevelsAssumption DEF Nodes
  <2> QED  BY <1>1, <2>1, LineageOf DEF Rooted
<1>2. ASSUME NEW n \in Scenes \cup Shots, NEW k \in Asked[n], CreateScene(q, n, k)
      PROVE  Changes
  <2>1. n \notin Shots  BY <1>2, LevelsAssumption DEF CreateScene
  <2>2. Created(n, k, NoShot)  BY <1>1, <1>2, <2>1, NewRows DEF CreateScene, Created
  <2>3. k \in Int  BY <1>0, AskedOf
  <2> QED  BY <1>0, <2>2, <2>3 DEF Changes
<1>3. ASSUME NEW n \in Scenes \cup Shots, NEW k \in Asked[n], NEW m \in AskedSources[n],
             CreateShot(q, n, k, m)
      PROVE  Changes
  <2>1. Created(n, k, m)  BY <1>1, <1>3 DEF CreateShot, Created
  <2>2. k \in Int /\ m \in Sources  BY <1>0, AskedOf, AskedSourcesOf
  <2> QED  BY <1>0, <2>1, <2>2 DEF Changes
<1>4. ASSUME NEW k \in Asked[q.node] \cup {q.seen.order}, NEW m \in AskedSources[q.node],
             PatchShot(q, k, m) \/ UpdateShot(q, k, m)
      PROVE  Changes
  <2>1. UpdateShot(q, k, m)  BY <1>4 DEF PatchShot
  <2>2. k \in Int /\ m \in Sources  BY <1>0, AskedOf, AskedSourcesOf DEF Row
  <2> QED  BY <2>1, <2>2 DEF Changes
<1>5. ASSUME NEW place \in Arrangements(q.node), ReorderChildren(q, place)
      PROVE  Changes
  <2>1. q.node \in Nodes \cup {Story} /\ Lineage(q.node) \in SUBSET Nodes
    BY <1>0, LineageOf
  <2>2. Reorder(q.node, place, Lineage(q.node))  BY <1>5 DEF ReorderChildren
  <2> QED  BY <2>1, <2>2 DEF Changes
<1>6. CASE Archive(q)  BY <1>6 DEF Changes
<1> QED  BY <1>2, <1>3, <1>4, <1>5, <1>6 DEF Run

LEMMA StepChanges ==
  ASSUME TypeOK, TreeInv, [Next]_vars
  PROVE  Changes /\ (UNCHANGED leftover \/ \E plan \in Plans : Apply(plan))
<1>1. ASSUME NEW place \in Arrangements(Story), ReorderChapters(place)  PROVE Changes
  <2>1. Reorder(Story, place, {}) /\ {} \in SUBSET Nodes  BY <1>1 DEF ReorderChapters
  <2> QED  BY <2>1 DEF Changes
<1>2. ASSUME NEW n \in Nodes, NEW op \in Ops(n), PromptRequest(n, op)  PROVE Changes
  <2> DEFINE q == LookedUp(op, n)
  <2>1. op \in {"create", "edit", "archive", "reorder"}  BY DEF Ops
  <2>2. row[n] \in Row /\ Absent \in Row  BY DEF TypeOK, Row, Absent, Sources
  <2>3. q \in Requested /\ q.node = n  BY <2>1, <2>2 DEF LookedUp, Requested
  <2>4. Rooted(n)  BY <1>2 DEF PromptRequest, Live, Rooted, Active, Exists
  <2>5. Run(q)  BY <1>2 DEF PromptRequest
  <2> QED  BY <2>3, <2>4, <2>5, RunChanges
<1>3. ASSUME NEW r \in Requests, SlowRequest(r)  PROVE Changes
  <2>1. request[r] \in Requested /\ Rooted(request[r].node) /\ Run(request[r])
    BY <1>3 DEF SlowRequest, TypeOK, TreeInv
  <2> QED  BY <2>1, RunChanges
<1>4. ASSUME UNCHANGED row  PROVE Changes  BY <1>4 DEF Changes
<1>5. ASSUME NEW plan \in Plans, Apply(plan)  PROVE Changes
  BY <1>5 DEF Changes
<1>6. Changes
  BY <1>1, <1>2, <1>3, <1>4, <1>5, ChapterCreated DEF Next, LookUp, Fail, vars
<1>7. UNCHANGED leftover \/ \E plan \in Plans : Apply(plan)
  <2>1. \A n \in Nodes : \A op \in Ops(n) : PromptRequest(n, op) => UNCHANGED leftover
    BY DEF PromptRequest
  <2>2. \A n \in Nodes : \A op \in Ops(n) : \A r \in Requests : LookUp(r, op, n) => UNCHANGED leftover
    BY DEF LookUp
  <2>3. \A r \in Requests : SlowRequest(r) \/ Fail(r) => UNCHANGED leftover
    BY DEF SlowRequest, Fail
  <2>4. UNCHANGED vars => UNCHANGED leftover
    BY DEF vars
  <2> QED  BY <2>1, <2>2, <2>3, <2>4 DEF Next
<1> QED  BY <1>6, <1>7

-----------------------------------------------------------------------------
(* What the changes write, column by column. *)

LEMMA ColumnsOf ==
  ASSUME TypeOK, NEW n \in Nodes
  PROVE  /\ row[n] \in Row /\ row[n].order \in Int /\ row[n].source \in Sources
         /\ row[n].state \in {"absent", "active", "archived"}
         /\ DOMAIN row[n] = {"state", "order", "source"}
BY DEF TypeOK, Row

LEMMA CreatedRow ==
  ASSUME TypeOK, NEW n \in Nodes, NEW k \in Int, NEW m \in Sources, Created(n, k, m)
  PROVE  /\ row' \in [Nodes -> Row]
         /\ row'[n] = [state |-> "active", order |-> k, source |-> m]
         /\ \A x \in Nodes \ {n} : row'[x] = row[x]
<1>1. [state |-> "active", order |-> k, source |-> m] \in Row
  BY DEF Row
<1>2. row' = [row EXCEPT ![n] = [state |-> "active", order |-> k, source |-> m]]
  BY DEF Created
<1> QED  BY <1>1, <1>2 DEF TypeOK

LEMMA UpdatedRow ==
  ASSUME TypeOK, NEW q \in Requested, NEW k \in Int, NEW m \in Sources, UpdateShot(q, k, m)
  PROVE  /\ q.node \in Nodes /\ row' \in [Nodes -> Row]
         /\ \A x \in Nodes \ {q.node} : row'[x] = row[x]
         /\ row'[q.node].state = row[q.node].state
         /\ row'[q.node].source =
              IF m = q.seen.source THEN row[q.node].source ELSE m
<1> DEFINE n == q.node
           wanted == [q.seen EXCEPT !.order = k, !.source = m]
<1>1. n \in Nodes /\ q.seen \in Row  BY DEF Requested
<1>2. wanted.order = k /\ wanted.source = m
  BY <1>1 DEF Row
<1> HIDE DEF n, wanted
<1>3. PICK new : new = Written(n, q.seen, wanted)  OBVIOUS
<1>4. row' = [row EXCEPT ![n] = new]
  BY <1>3 DEF UpdateShot, n, wanted
<1>5. /\ row[n] \in Row
      /\ Flush(q.seen.order, k, row[n].order) \in Int
      /\ Flush(q.seen.source, m, row[n].source) \in Sources
  BY <1>1, ColumnsOf DEF Flush
<1>6. /\ new \in Row /\ new.state = row[n].state
      /\ new.source = Flush(q.seen.source, m, row[n].source)
  BY <1>2, <1>3, <1>5 DEF Written, Row
<1> QED  BY <1>1, <1>4, <1>6 DEF TypeOK, n, Flush

LEMMA ReindexedType ==
  ASSUME TypeOK, NEW S \in SUBSET Nodes, NEW gone \in SUBSET S
  PROVE  Reindexed(S, gone) \in [S -> Int]
<1> DEFINE low(n) == Cardinality({m \in gone : m < n})
           high(n) == Cardinality({m \in S \ gone : row[m].order < row[n].order})
<1>1. ASSUME NEW n \in S  PROVE low(n) \in Nat /\ high(n) \in Nat
  <2>1. n \in Nodes /\ gone \in SUBSET Nodes /\ S \ gone \in SUBSET Nodes
    OBVIOUS
  <2>2. low(n) \in Nat  BY <2>1, IdRank
  <2>3. high(n) \in Nat  BY <2>1, OrderRank
  <2> QED  BY <2>2, <2>3
<1>2. Reindexed(S, gone) = [n \in S |-> IF n \in gone THEN -(1 + low(n)) ELSE high(n)]
  BY DEF Reindexed
<1> HIDE DEF low, high
<1> QED  BY <1>1, <1>2

LEMMA ArchivedRow ==
  ASSUME TypeOK, NEW q \in Requested, Archive(q)
  PROVE  LET S == Children(ParentOf[q.node])
             gone == {m \in S : m = q.node \/ row[m].state = "archived"}
         IN /\ q.node \in Nodes /\ row' \in [Nodes -> Row]
            /\ \A x \in Nodes :
                 /\ row'[x].state = IF x \in Taken(q.node) THEN "archived" ELSE row[x].state
                 /\ row'[x].order = IF x \in S THEN Reindexed(S, gone)[x] ELSE row[x].order
                 /\ row'[x].source = row[x].source
<1> DEFINE S == Children(ParentOf[q.node])
           gone == {m \in S : m = q.node \/ row[m].state = "archived"}
           final == Reindexed(S, gone)
           new == [m \in Nodes |->
                    [row[m] EXCEPT !.state = IF m \in Taken(q.node) THEN "archived" ELSE @,
                                   !.order = IF m \in S THEN final[m] ELSE @]]
<1>1. q.node \in Nodes  BY DEF Requested
<1>2. S \in SUBSET Nodes /\ gone \in SUBSET S
  BY ChildrenOf
<1>3. final \in [S -> Int]
  <2> HIDE DEF S, gone
  <2> QED  BY <1>2, ReindexedType
<1>4. row' = new  BY DEF Archive
<1> HIDE DEF final, S
<1>5. ASSUME NEW x \in Nodes
      PROVE  /\ row'[x] \in Row
             /\ row'[x].state = IF x \in Taken(q.node) THEN "archived" ELSE row[x].state
             /\ row'[x].order = IF x \in S THEN final[x] ELSE row[x].order
             /\ row'[x].source = row[x].source
  <2>1. PICK r : r = [row[x] EXCEPT !.state = IF x \in Taken(q.node) THEN "archived" ELSE @,
                                    !.order = IF x \in S THEN final[x] ELSE @]
    OBVIOUS
  <2>2. row[x] \in Row /\ (IF x \in S THEN final[x] ELSE row[x].order) \in Int
    BY <1>3, ColumnsOf
  <2>3. /\ r \in Row
        /\ r.state = IF x \in Taken(q.node) THEN "archived" ELSE row[x].state
        /\ r.order = IF x \in S THEN final[x] ELSE row[x].order
        /\ r.source = row[x].source
    BY <2>1, <2>2 DEF Row
  <2> QED  BY <1>4, <2>1, <2>3
<1>6. row' \in [Nodes -> Row]
  BY <1>4, <1>5
<1> QED  BY <1>1, <1>5, <1>6 DEF final, S

LEMMA ReorderedRow ==
  ASSUME TypeOK, NEW p, NEW place \in Arrangements(p), NEW stale, Reorder(p, place, stale)
  PROVE  LET final == [n \in Children(p) |-> IF n \in ActiveChildren(p)
                                             THEN row[place[n]].order ELSE row[n].order]
         IN /\ row' \in [Nodes -> Row]
            /\ \A x \in Nodes :
                 /\ row'[x].state = row[x].state /\ row'[x].source = row[x].source
                 /\ row'[x].order = IF x \in Children(p) THEN final[x] ELSE row[x].order
<1> DEFINE S == Children(p)
           active == ActiveChildren(p)
           final == [n \in S |-> IF n \in active THEN row[place[n]].order ELSE row[n].order]
<1>1. S \subseteq Nodes /\ active \subseteq S  BY ChildrenOf
<1>2. place \in [active -> active]
  BY DEF Arrangements, Bijection, Injection
<1>3. \A n \in S : row[n].order \in Int  BY <1>1, ColumnsOf
<1>4. final \in [S -> Int]
  <2> HIDE DEF S, active
  <2> QED  BY <1>1, <1>2, <1>3
<1>5. row' = [n \in Nodes |-> IF n \in S THEN [row[n] EXCEPT !.order = final[n]] ELSE row[n]]
  BY DEF Reorder
<1> HIDE DEF S, active, final
<1>6. ASSUME NEW x \in Nodes
      PROVE  /\ row'[x] \in Row
             /\ row'[x].state = row[x].state /\ row'[x].source = row[x].source
             /\ row'[x].order = IF x \in S THEN final[x] ELSE row[x].order
  <2>1. CASE x \in S
    <3>1. PICK r : r = [row[x] EXCEPT !.order = final[x]]  OBVIOUS
    <3>2. row[x] \in Row /\ final[x] \in Int  BY <1>4, <2>1, ColumnsOf
    <3>3. r \in Row /\ r.state = row[x].state /\ r.source = row[x].source /\ r.order = final[x]
      BY <3>1, <3>2 DEF Row
    <3> QED  BY <1>5, <2>1, <3>1, <3>3
  <2>2. CASE x \notin S  BY <1>5, <2>2, ColumnsOf
  <2> QED  BY <2>1, <2>2
<1>7. row' \in [Nodes -> Row]
  BY <1>5, <1>6
<1> QED  BY <1>6, <1>7 DEF S, active, final

(* What the plan of a proposal is *)

LEMMA PlanOf ==
  ASSUME NEW plan \in Plans
  PROVE  LET N == NodesOf(plan)
         IN /\ N \subseteq Nodes /\ \A n \in N : Lineage(n) \subseteq N
            /\ plan.order \in [N -> Int] /\ plan.order \in Placings(N)
            /\ plan.source \in [N \cap Shots -> (N \cap Shots) \cup {NoShot}]
            /\ \A n \in N \cap Shots : plan.source[n] # NoShot =>
                 Before(PlanRows(N, plan.order), plan.source[n], n)
<1> DEFINE H(S, order) == {f \in [S \cap Shots -> (S \cap Shots) \cup {NoShot}] :
                 \A n \in S \cap Shots :
                   /\ f[n] \in AskedSources[n]
                   /\ f[n] # NoShot => Before(PlanRows(S, order), f[n], n)}
           G(S, order) == {[order |-> order, source |-> source] : source \in H(S, order)}
           F(S) == UNION {G(S, order) : order \in Placings(S)}
<1>0. plan \in UNION {F(S) : S \in Kept}
  BY DEF Plans
<1>1. PICK S \in Kept : plan \in F(S)
  <2> HIDE DEF F
  <2> QED  BY <1>0
<1>2. PICK order \in Placings(S) : plan \in G(S, order)
  <2> HIDE DEF G
  <2> QED  BY <1>1
<1>3. PICK source \in H(S, order) : plan = [order |-> order, source |-> source]
  <2> HIDE DEF H
  <2> QED  BY <1>2
<1>4. plan.order = order /\ plan.source = source
  BY <1>3
<1>5. order \in [S -> Int]
  <2>1. order \in [S -> 0..(Fanout - 1)]  BY DEF Placings
  <2>2. \A x \in 0..(Fanout - 1) : x \in Int  OBVIOUS
  <2> QED  BY <2>1, <2>2
<1>6. NodesOf(plan) = S
  BY <1>4, <1>5 DEF NodesOf
<1>7. S \subseteq Nodes /\ \A n \in S : Lineage(n) \subseteq S
  BY DEF Kept
<1>8. /\ source \in [S \cap Shots -> (S \cap Shots) \cup {NoShot}]
      /\ \A n \in S \cap Shots :
           source[n] # NoShot => Before(PlanRows(S, order), source[n], n)
  BY <1>3
<1> QED  BY <1>4, <1>5, <1>6, <1>7, <1>8, Zenon

LEMMA LowestOf ==
  ASSUME TypeOK, NEW p
  PROVE  LET low == Smallest({row[m].order : m \in Children(p)} \cup {0})
         IN low \in Int /\ low <= 0 /\ Cardinality(Children(p)) \in Nat
<1> DEFINE S == Children(p)
           taken == {row[m].order : m \in S} \cup {0}
<1>1. S \in SUBSET Nodes /\ IsFiniteSet(S)  BY ChildrenOf
<1>2. IsFiniteSet(taken) /\ taken \in SUBSET Int /\ taken # {}
  <2> DEFINE f == [m \in S |-> row[m].order]
  <2>1. f \in [S -> Int]  BY <1>1, ColumnsOf
  <2>2. IsFiniteSet({f[m] : m \in S})
    <3> HIDE DEF f, S
    <3> QED  BY <1>1, <2>1, ImageOf
  <2>3. {f[m] : m \in S} = {row[m].order : m \in S}  OBVIOUS
  <2>4. IsFiniteSet(taken)  BY <2>2, <2>3, FS_AddElement
  <2> QED  BY <1>1, <2>4, ColumnsOf
<1> HIDE DEF taken
<1>3. Smallest(taken) \in Int /\ Smallest(taken) <= 0
  BY <1>2, SmallestOf DEF taken
<1> QED  BY <1>1, <1>3, FS_CardinalityType DEF taken

LEMMA SunkType ==
  ASSUME TypeOK, NEW n \in Nodes
  PROVE  Sunk(n) \in Int /\ Sunk(n) < 0
<1> DEFINE S == Children(ParentOf[n])
           low == Smallest({row[m].order : m \in S} \cup {0})
           rank == Cardinality({m \in S : m < n})
<1>1. low \in Int /\ low <= 0 /\ Cardinality(S) \in Nat
  BY LowestOf
<1>2. rank \in Nat
  <2> HIDE DEF S
  <2>1. S \in SUBSET Nodes  BY ChildrenOf DEF S
  <2> QED  BY <2>1, IdRank
<1>3. Sunk(n) = low - Cardinality(S) - 1 - rank
  BY DEF Sunk
<1> HIDE DEF low, rank, S
<1> QED  BY <1>1, <1>2, <1>3

LEMMA MergedRow ==
  ASSUME TypeOK, NEW plan \in Plans, NEW n \in Nodes
  PROVE  LET N == NodesOf(plan)
         IN /\ Merged(plan, n) \in Row
            /\ Merged(plan, n).state =
                 IF n \in N THEN "active"
                 ELSE IF n \in OmittedShots(plan) \cup Omitted(plan) THEN "archived"
                 ELSE row[n].state
            /\ Merged(plan, n).order =
                 IF n \in N THEN plan.order[n]
                 ELSE IF n \in OmittedShots(plan) THEN Sunk(n) ELSE row[n].order
            /\ Merged(plan, n).source =
                 IF n \in N \cap Shots THEN plan.source[n] ELSE row[n].source
<1> DEFINE N == NodesOf(plan)
<1>1. /\ plan.order \in [N -> Int]
      /\ plan.source \in [N \cap Shots -> (N \cap Shots) \cup {NoShot}]
  BY PlanOf
<1>2. row[n] \in Row /\ Sunk(n) \in Int  BY ColumnsOf, SunkType
<1> HIDE DEF N
<1>3. CASE n \in N
  <2>1. PICK r : r = [row[n] EXCEPT !.state = "active", !.order = plan.order[n],
                                    !.source = IF n \in Shots THEN plan.source[n] ELSE @]
    OBVIOUS
  <2>2. /\ plan.order[n] \in Int
        /\ (IF n \in Shots THEN plan.source[n] ELSE row[n].source) \in Sources
    BY <1>1, <1>2, <1>3, ColumnsOf DEF Sources
  <2>3. /\ r \in Row /\ r.state = "active" /\ r.order = plan.order[n]
        /\ r.source = IF n \in Shots THEN plan.source[n] ELSE row[n].source
    BY <1>2, <2>1, <2>2 DEF Row
  <2>4. Merged(plan, n) = r
    BY <1>3, <2>1 DEF Merged, N
  <2> QED  BY <1>3, <2>3, <2>4 DEF N
<1>4. CASE n \notin N /\ n \in OmittedShots(plan)
  <2>1. PICK r : r = [row[n] EXCEPT !.state = "archived", !.order = Sunk(n)]  OBVIOUS
  <2>2. r \in Row /\ r.state = "archived" /\ r.order = Sunk(n) /\ r.source = row[n].source
    BY <1>2, <2>1 DEF Row
  <2>3. Merged(plan, n) = r  BY <1>4, <2>1 DEF Merged, N
  <2> QED  BY <1>4, <2>2, <2>3 DEF N
<1>5. CASE n \notin N /\ n \notin OmittedShots(plan) /\ n \in Omitted(plan)
  <2>1. PICK r : r = [row[n] EXCEPT !.state = "archived"]  OBVIOUS
  <2>2. /\ r \in Row /\ r.state = "archived" /\ r.order = row[n].order
        /\ r.source = row[n].source
    BY <1>2, <2>1 DEF Row
  <2>3. Merged(plan, n) = r  BY <1>5, <2>1 DEF Merged, N
  <2> QED  BY <1>5, <2>2, <2>3 DEF N
<1>6. CASE n \notin N /\ n \notin OmittedShots(plan) /\ n \notin Omitted(plan)
  BY <1>2, <1>6 DEF Merged, N
<1> QED  BY <1>3, <1>4, <1>5, <1>6

LEMMA AppliedRow ==
  ASSUME TypeOK, NEW plan \in Plans, Apply(plan)
  PROVE  row' \in [Nodes -> Row] /\ \A n \in Nodes : row'[n] = Merged(plan, n)
BY MergedRow DEF Apply

LEMMA StepTypeOK ==
  ASSUME TypeOK, TreeInv, [Next]_vars
  PROVE  TypeOK'
<1>1. row' \in [Nodes -> Row]
  <2>1. ASSUME NEW p \in Nodes \cup {Story}, NEW stale \in SUBSET Nodes,
               NEW place \in Arrangements(p), Reorder(p, place, stale)
        PROVE  row' \in [Nodes -> Row]
    BY <2>1, ReorderedRow
  <2>2. ASSUME NEW q \in Requested, Archive(q)  PROVE row' \in [Nodes -> Row]
    BY <2>2, ArchivedRow
  <2>3. CASE UNCHANGED row  BY <2>3 DEF TypeOK
  <2> QED  BY <2>1, <2>2, <2>3, StepChanges, CreatedRow, UpdatedRow, AppliedRow DEF Changes
<1>2. request' \in [Requests -> Requested \cup {Idle}]
  <2>1. ASSUME NEW n \in Nodes, NEW op \in Ops(n), NEW r \in Requests, LookUp(r, op, n)
        PROVE  request' \in [Requests -> Requested \cup {Idle}]
    <3>1. op \in {"create", "edit", "archive", "reorder"}  BY DEF Ops
    <3>2. row[n] \in Row /\ Absent \in Row  BY DEF TypeOK, Row, Absent, Sources
    <3>3. LookedUp(op, n) \in Requested  BY <3>1, <3>2 DEF LookedUp, Requested
    <3> QED  BY <2>1, <3>3 DEF LookUp, TypeOK
  <2>2. ASSUME NEW r \in Requests, Answer(r)
        PROVE  request' \in [Requests -> Requested \cup {Idle}]
    BY <2>2 DEF Answer, TypeOK
  <2>3. CASE UNCHANGED request  BY <2>3 DEF TypeOK
  <2> QED  BY <2>1, <2>2, <2>3 DEF Next, PromptRequest, SlowRequest, Fail, vars
<1>3. leftover' \subseteq Shots
  <2>1. CASE UNCHANGED leftover  BY <2>1 DEF TypeOK
  <2>2. ASSUME NEW plan \in Plans, Apply(plan)  PROVE leftover' \subseteq Shots
    BY <2>2 DEF Apply
  <2> QED  BY <2>1, <2>2, StepChanges
<1> QED  BY <1>1, <1>2, <1>3 DEF TypeOK

-----------------------------------------------------------------------------
(* No row disappears, and a new one comes below existing ones. *)
LEMMA RowsStay ==
  ASSUME TypeOK, TreeInv, Changes, NEW n \in Nodes
  PROVE  /\ Exists(n) => Exists(n)'
         /\ Exists(n)' /\ ~Exists(n) => \A x \in Lineage(n) : Exists(x)'
<1>1. ASSUME NEW m \in Nodes, NEW k \in Int, NEW s \in Sources, Created(m, k, s)
      PROVE  /\ Exists(n) => Exists(n)'
             /\ Exists(n)' /\ ~Exists(n) => \A x \in Lineage(n) : Exists(x)'
  <2>a. /\ row'[m] = [state |-> "active", order |-> k, source |-> s]
        /\ \A x \in Nodes \ {m} : row'[x] = row[x]
    BY <1>1, CreatedRow
  <2>1. /\ row'[m].state = "active" /\ \A x \in Nodes \ {m} : row'[x] = row[x]
    BY <2>a
  <2>2. Lineage(n) \subseteq Nodes  BY LineageOf
  <2>3. \A x \in Lineage(m) \ {m} : Exists(x)  BY <1>1 DEF Created
  <2> QED  BY <2>1, <2>2, <2>3 DEF Exists
<1>2. ASSUME NEW q \in Requested, NEW k \in Int, NEW m \in Sources, UpdateShot(q, k, m)
      PROVE  Exists(n)' <=> Exists(n)
  BY <1>2, UpdatedRow DEF Exists
<1>3. ASSUME NEW q \in Requested, Rooted(q.node), Archive(q)
      PROVE  Exists(n)' <=> Exists(n)
  <2>1. /\ q.node \in Nodes
        /\ row'[n].state = IF n \in Taken(q.node) THEN "archived" ELSE row[n].state
    BY <1>3, ArchivedRow
  <2>2. n \in Taken(q.node) => Exists(n)
    BY <1>3, <2>1, LineageOf DEF Taken, Active, Exists, Rooted
  <2> QED  BY <2>1, <2>2 DEF Exists
<1>4. ASSUME NEW p \in Nodes \cup {Story}, NEW stale \in SUBSET Nodes,
             NEW place \in Arrangements(p), Reorder(p, place, stale)
      PROVE  Exists(n)' <=> Exists(n)
  BY <1>4, ReorderedRow DEF Exists
<1>5. ASSUME NEW plan \in Plans, Apply(plan)
      PROVE  /\ Exists(n) => Exists(n)'
             /\ Exists(n)' /\ ~Exists(n) => \A x \in Lineage(n) : Exists(x)'
  <2>1. \A x \in Nodes : row'[x] = Merged(plan, x)  BY <1>5, AppliedRow
  <2>2. /\ Lineage(n) \subseteq Nodes
        /\ n \in NodesOf(plan) => Lineage(n) \subseteq NodesOf(plan)
    BY LineageOf, PlanOf
  <2>3. \A x \in Nodes : row'[x].state =
           IF x \in NodesOf(plan) THEN "active"
           ELSE IF x \in OmittedShots(plan) \cup Omitted(plan) THEN "archived"
           ELSE row[x].state
    BY <2>1, MergedRow
  <2>4. n \in OmittedShots(plan) \cup Omitted(plan) => Exists(n)
    BY DEF OmittedShots, Omitted, Active, Exists
  <2> QED  BY <2>2, <2>3, <2>4 DEF Exists
<1>6. CASE UNCHANGED row  BY <1>6 DEF Exists
<1> QED  BY <1>1, <1>2, <1>3, <1>4, <1>5, <1>6 DEF Changes

LEMMA StepTreeInv ==
  ASSUME TypeOK, TreeInv, [Next]_vars
  PROVE  TreeInv'
<1>1. Changes  BY StepChanges
<1>2. ASSUME NEW n \in Nodes, Rooted(n)  PROVE Rooted(n)'
  <2>1. Lineage(n) \subseteq Nodes  BY LineageOf
  <2>2. \A x \in Lineage(n) : Exists(x)'  BY <1>1, <1>2, <2>1, RowsStay DEF Rooted
  <2> QED  BY <2>2 DEF Rooted, Exists
<1>3. ASSUME NEW n \in Nodes, Exists(n)'  PROVE Rooted(n)'
  <2>1. CASE Exists(n)  BY <1>2, <2>1 DEF TreeInv
  <2>2. CASE ~Exists(n)
    <3>1. \A x \in Lineage(n) : Exists(x)'  BY <1>1, <1>3, <2>2, RowsStay
    <3> QED  BY <3>1 DEF Rooted, Exists
  <2> QED  BY <2>1, <2>2
<1>4. ASSUME NEW r \in Requests, request'[r] # Idle
      PROVE  request'[r].node \in Nodes /\ Rooted(request'[r].node)
  <2>1. ASSUME NEW n \in Nodes, NEW op \in Ops(n), NEW s \in Requests, LookUp(s, op, n)
        PROVE  request'[r].node \in Nodes /\ Rooted(request'[r].node)
    <3>1. request'[r] \in {request[r], LookedUp(op, n)}
      BY <2>1 DEF LookUp, TypeOK
    <3>2. CASE request'[r] = request[r]
      BY <1>4, <3>2 DEF TreeInv, TypeOK, Requested
    <3>3. CASE request'[r] = LookedUp(op, n)
      BY <2>1, <3>3 DEF LookUp, LookedUp, Live, Rooted, Active, Exists
    <3> QED  BY <3>1, <3>2, <3>3
  <2>2. CASE request'[r] = request[r]
    BY <1>4, <2>2 DEF TreeInv, TypeOK, Requested
  <2>3. ASSUME NEW s \in Requests, Answer(s)
        PROVE  request'[r] = request[r]
    BY <1>4, <2>3 DEF Answer, TypeOK
  <2> QED
    BY <2>1, <2>2, <2>3 DEF Next, PromptRequest, SlowRequest, Fail, vars
<1>5. ASSUME NEW r \in Requests, request'[r] # Idle  PROVE Rooted(request[r].node)'
  <2>1. request'[r].node \in Nodes /\ Rooted(request'[r].node)
    BY <1>4, <1>5
  <2>2. \A x \in Lineage(request'[r].node) : row'[x].state # "absent"
    BY <1>1, <2>1, LineageOf, RowsStay DEF Rooted, Exists
  <2> QED  BY <2>2 DEF Rooted, Exists, Lineage
<1> QED  BY <1>3, <1>5 DEF TreeInv

(* Continuity *)

LEMMA Sourcing ==
  ASSUME NEW rows \in [Nodes -> Row]
  PROVE  Sourced(rows)
BY DEF Row, Sourced, Nodes

LEMMA SameSources ==
  ASSUME NEW rows \in [Nodes -> Row], NEW old \in [Nodes -> Row], NoCycle(old),
         \A x \in Shots : rows[x].source = old[x].source
  PROVE  NoCycle(rows)
BY NewCycle, Sourcing, ShotIsShot

LEMMA BeforeIsTransitive ==
  ASSUME NEW S \in SUBSET Nodes, \A n \in S : Lineage(n) \subseteq S,
         NEW order \in [S -> Int], NEW a \in S \cap Shots, NEW b \in S \cap Shots,
         NEW c \in S \cap Shots, Before(PlanRows(S, order), b, c)
  PROVE  /\ Before(PlanRows(S, order), a, b) => Before(PlanRows(S, order), a, c)
         /\ ~Before(PlanRows(S, order), a, a)
<1> DEFINE rows == PlanRows(S, order)
<1>1. ASSUME NEW x \in S \cap Shots
      PROVE  /\ rows[x].order \in Int /\ rows[ParentOf[x]].order \in Int
             /\ rows[ParentOf[ParentOf[x]]].order \in Int
  <2>1. {x, ParentOf[x], ParentOf[ParentOf[x]]} \subseteq S
    <3>1. x \notin Scenes  BY LevelsAssumption
    <3> QED  BY <3>1 DEF Lineage
  <2>2. \A y \in S : rows[y].order = order[y] /\ order[y] \in Int
    BY DEF PlanRows, Absent
  <2> QED  BY <2>1, <2>2
<1> HIDE DEF rows
<1>2. /\ Before(rows, a, b) /\ Before(rows, b, c) => Before(rows, a, c)
      /\ ~Before(rows, a, a)
  BY <1>1 DEF Before
<1> QED  BY <1>2 DEF rows

LEMMA MergeNoCycle ==
  ASSUME TypeOK, NoCycle(row), NEW plan \in Plans, Apply(plan)
  PROVE  NoCycle(row')
<1> DEFINE N == NodesOf(plan)
           P == PlanRows(N, plan.order)
<1>1. /\ N \in SUBSET Nodes /\ \A n \in N : Lineage(n) \subseteq N
      /\ plan.order \in [N -> Int]
      /\ plan.source \in [N \cap Shots -> (N \cap Shots) \cup {NoShot}]
      /\ \A n \in N \cap Shots : plan.source[n] # NoShot => Before(P, plan.source[n], n)
  BY PlanOf
<1>2. /\ row' \in [Nodes -> Row] /\ Sourced(row') /\ Sourced(row)
      /\ \A x \in Shots : row'[x].source =
            IF x \in N THEN plan.source[x] ELSE row[x].source
  <2>1. row' \in [Nodes -> Row] /\ \A n \in Nodes : row'[n] = Merged(plan, n)
    BY AppliedRow
  <2>2. \A n \in Nodes : Merged(plan, n).source =
            IF n \in N \cap Shots THEN plan.source[n] ELSE row[n].source
    BY MergedRow
  <2> QED  BY <2>1, <2>2, Sourcing, ShotIsShot DEF TypeOK
<1> HIDE DEF N
<1>3. ASSUME NEW n \in N \cap Shots, row'[n].source # NoShot
      PROVE  n \notin Origins(row', row'[n].source)
  <2> DEFINE S == {x \in N \cap Shots : Before(P, x, n)}
             m == row'[n].source
  <2>1. m \in S  BY <1>1, <1>2, <1>3
  <2>2. ASSUME NEW x \in S, row'[x].source # NoShot  PROVE row'[x].source \in S
    <3>1. /\ row'[x].source \in N \cap Shots /\ Before(P, row'[x].source, x)
          /\ Before(P, x, n)
      BY <1>1, <1>2, <2>2
    <3>2. Before(P, row'[x].source, n)
      BY <1>1, <3>1, BeforeIsTransitive
    <3> QED  BY <3>1, <3>2
  <2>3. n \notin S
    <3>1. Before(P, m, n) /\ m \in N \cap Shots  BY <2>1
    <3>2. ~Before(P, n, n)  BY <1>1, <3>1, BeforeIsTransitive
    <3> QED  BY <3>2
  <2>4. Closed(row', S)  BY <2>2 DEF Closed
  <2>5. S \in SUBSET Shots  OBVIOUS
  <2> HIDE DEF S
  <2> QED  BY <1>2, <2>1, <2>3, <2>4, <2>5, OriginsClosed
<1> SUFFICES ASSUME NEW n \in Shots, row'[n].source # NoShot,
                    n \in Origins(row', row'[n].source)
             PROVE  FALSE
  BY DEF NoCycle
<1>4. ASSUME NEW x \in Origins(row', row'[n].source)
      PROVE  x \in Shots /\ x \notin N
  <2>1. x \in Shots /\ row'[x].source # NoShot /\ x \in Origins(row', row'[x].source)
    BY <1>2, CycleIsClosed
  <2> QED  BY <1>3, <2>1
<1>5. \A x \in Origins(row', row'[n].source) : row[x].source = row'[x].source
  BY <1>2, <1>4
<1> QED  BY <1>2, <1>5, CycleIsKept

LEMMA StepNoCycle ==
  ASSUME TypeOK, Changes, NoCycle(row)
  PROVE  NoCycle(row')
<1>0. row \in [Nodes -> Row] /\ Shots \subseteq Nodes  BY ShotIsShot DEF TypeOK
<1>1. ASSUME NEW n \in Nodes, NEW k \in Int, NEW m \in Sources, Created(n, k, m)
      PROVE  NoCycle(row')
  <2>a. /\ row' \in [Nodes -> Row]
        /\ row'[n] = [state |-> "active", order |-> k, source |-> m]
        /\ \A x \in Nodes \ {n} : row'[x] = row[x]
    BY <1>1, CreatedRow
  <2>1. row' \in [Nodes -> Row] /\ row'[n].source = m
    BY <2>a
  <2>2. n \in Shots /\ m # NoShot => n \notin Origins(row', m)
    BY <1>1 DEF Created, Continues
  <2> QED  BY <1>0, <2>a, <2>1, <2>2, NewCycle, Sourcing
<1>2. ASSUME NEW q \in Requested, NEW k \in Int, NEW m \in Sources, UpdateShot(q, k, m)
      PROVE  NoCycle(row')
  <2>1. /\ row' \in [Nodes -> Row]
        /\ row'[q.node].source = IF m = q.seen.source THEN row[q.node].source ELSE m
        /\ \A x \in Nodes \ {q.node} : row'[x] = row[x]
    BY <1>2, UpdatedRow
  <2>2. CASE m = q.seen.source
    <3>1. \A x \in Shots : row'[x].source = row[x].source
      BY <1>0, <2>1, <2>2
    <3> QED  BY <1>0, <2>1, <3>1, SameSources
  <2>3. CASE m # q.seen.source
    <3>1. m # NoShot => q.node \notin Origins(row', m)
      BY <1>2 DEF UpdateShot, Continues
    <3> QED  BY <1>0, <2>1, <2>3, <3>1, NewCycle, Sourcing
  <2> QED  BY <2>2, <2>3
<1>3. ASSUME NEW q \in Requested, Archive(q)  PROVE NoCycle(row')
  BY <1>0, <1>3, ArchivedRow, SameSources
<1>4. ASSUME NEW p \in Nodes \cup {Story}, NEW stale \in SUBSET Nodes,
             NEW place \in Arrangements(p), Reorder(p, place, stale)
      PROVE  NoCycle(row')
  BY <1>0, <1>4, ReorderedRow, SameSources
<1>5. ASSUME NEW plan \in Plans, Apply(plan)  PROVE NoCycle(row')
  BY <1>5, MergeNoCycle
<1> QED  BY <1>1, <1>2, <1>3, <1>4, <1>5 DEF Changes

-----------------------------------------------------------------------------
(* Liveness of the source *)

(* What a plan leaves over: active scenes of a chapter it names alone, and *)
(* active shots of these.                                                  *)
LEMMA LeftOverOf ==
  ASSUME NEW plan \in Plans, NEW n \in Nodes
  PROVE  /\ n \in Chapters => n \notin LeftOver(plan)
         /\ n \in Scenes => (n \in LeftOver(plan) <=>
              /\ ParentOf[n] \in NodesOf(plan) /\ Active(n)
              /\ ~ \E y \in NodesOf(plan) : ParentOf[y] = ParentOf[n])
         /\ n \in Shots => (n \in LeftOver(plan) <=>
              ParentOf[n] \in LeftOver(plan) /\ Active(n))
<1>1. CASE n \in Chapters
  BY <1>1, LevelsAssumption DEF LeftOver
<1>2. ASSUME NEW s \in Scenes
      PROVE  s \in LeftOver(plan) <=>
               /\ ParentOf[s] \in NodesOf(plan) /\ Active(s)
               /\ ~ \E y \in NodesOf(plan) : ParentOf[y] = ParentOf[s]
  <2>1. s \in Nodes /\ s \notin Chapters /\ ParentOf[s] \in Chapters
    BY LevelsAssumption DEF Nodes
  <2>2. Lineage(s) \cap Chapters = {ParentOf[s]} /\ Lineage(s) \ Chapters = {s}
    <3>1. ParentOf[s] \in Nodes  BY <2>1 DEF Nodes
    <3>2. Lineage(s) = {s} \cup Lineage(ParentOf[s]) /\ Lineage(ParentOf[s]) = {ParentOf[s]}
      BY <2>1, <3>1, LineageOf
    <3> QED  BY <2>1, <3>2
  <2> QED  BY <2>2 DEF LeftOver
<1>3. CASE n \in Shots
  <2> DEFINE s == ParentOf[n]
  <2>1. n \notin Chapters /\ n \notin Scenes /\ s \in Scenes /\ s \in Nodes
    BY <1>3, LevelsAssumption DEF Nodes
  <2>2. Lineage(n) = {n} \cup Lineage(s)  BY <2>1, LineageOf
  <2>3. /\ Lineage(n) \cap Chapters = Lineage(s) \cap Chapters
        /\ Lineage(n) \ Chapters = {n} \cup (Lineage(s) \ Chapters)
    BY <2>1, <2>2
  <2> HIDE DEF s
  <2> QED  BY <1>3, <2>1, <2>3 DEF LeftOver, s
<1>4. CASE n \in Scenes
  BY <1>2, <1>4, LevelsAssumption
<1> QED  BY <1>1, <1>3, <1>4, LevelsAssumption DEF Nodes

(* Chapters, scenes and shots of an applied plan are live, and of the others *)
(* those that it leaves over.                                              *)
LEMMA MergedLive ==
  ASSUME TypeOK, NEW plan \in Plans, NEW n \in Nodes
  PROVE  (\A x \in Lineage(n) : Merged(plan, x).state = "active")
           <=> n \in NodesOf(plan) \cup LeftOver(plan)
<1> DEFINE N == NodesOf(plan)
           gone == OmittedShots(plan) \cup Omitted(plan)
           A(x) == Merged(plan, x).state = "active"
<1>1. N \subseteq Nodes /\ \A m \in N : Lineage(m) \subseteq N
  BY PlanOf
<1>2. \A x \in Nodes : Merged(plan, x).state =
        IF x \in N THEN "active" ELSE IF x \in gone THEN "archived" ELSE row[x].state
  BY MergedRow
<1>3. \A x \in Nodes \ N : A(x) <=> Active(x) /\ x \notin gone
  BY <1>2 DEF Active
<1>4. \A x \in N : A(x)
  BY <1>1, <1>2
<1>5. ASSUME NEW c \in Chapters \ N  PROVE ~A(c)
  <2>1. c \in Nodes /\ c \notin Scenes  BY LevelsAssumption DEF Nodes
  <2>2. Active(c) => c \in gone  BY <2>1 DEF Omitted
  <2> QED  BY <1>3, <2>1, <2>2
<1>6. ASSUME NEW s \in Scenes \ N
      PROVE  A(s) /\ A(ParentOf[s]) <=> s \in LeftOver(plan)
  <2>1. s \in Nodes /\ s \notin Chapters /\ s \notin Shots /\ ParentOf[s] \in Chapters
    BY LevelsAssumption DEF Nodes
  <2>2. A(ParentOf[s]) <=> ParentOf[s] \in N
    BY <1>4, <1>5, <2>1
  <2>3. s \in gone <=> Active(s) /\ \E y \in N : ParentOf[y] = ParentOf[s]
    BY <2>1 DEF Omitted, OmittedShots
  <2>4. A(s) <=> Active(s) /\ ~ \E y \in N : ParentOf[y] = ParentOf[s]
    BY <1>3, <2>1, <2>3
  <2> HIDE DEF N, A
  <2> QED  BY <2>1, <2>2, <2>4, LeftOverOf DEF N
<1>7. ASSUME NEW t \in Shots \ N
      PROVE  A(t) /\ A(ParentOf[t]) /\ A(ParentOf[ParentOf[t]]) <=> t \in LeftOver(plan)
  <2>1. t \in Nodes /\ t \notin Chapters /\ t \notin Scenes /\ ParentOf[t] \in Scenes
    BY LevelsAssumption DEF Nodes
  <2>2. t \in gone <=> Exists(t) /\ ParentOf[t] \in N
    BY <2>1 DEF Omitted, OmittedShots
  <2>3. A(t) <=> Active(t) /\ ParentOf[t] \notin N
    BY <1>3, <2>1, <2>2 DEF Active, Exists
  <2>4. ParentOf[t] \in N => ParentOf[t] \notin LeftOver(plan)
    <3>1. ParentOf[t] \in Nodes  BY <2>1 DEF Nodes
    <3> QED  BY <2>1, <3>1, LeftOverOf DEF N
  <2>5. t \in LeftOver(plan) <=> ParentOf[t] \in LeftOver(plan) /\ Active(t)
    BY <2>1, LeftOverOf
  <2>6. ParentOf[t] \notin N =>
          (A(ParentOf[t]) /\ A(ParentOf[ParentOf[t]]) <=> ParentOf[t] \in LeftOver(plan))
    BY <1>6, <2>1
  <2> HIDE DEF N, A
  <2> QED  BY <2>3, <2>4, <2>5, <2>6
<1> HIDE DEF N, A, gone
<1>8. CASE n \in N
  BY <1>1, <1>4, <1>8 DEF N, A
<1>9. CASE n \in Chapters \ N
  <2>1. n \in Lineage(n) /\ n \notin LeftOver(plan)  BY <1>9, LineageOf, LeftOverOf
  <2> QED  BY <1>5, <1>9, <2>1 DEF N, A
<1>10. CASE n \in Scenes \ N
  <2>1. n \notin Chapters /\ ParentOf[n] \in Chapters  BY <1>10, LevelsAssumption
  <2>2. ParentOf[n] \in Nodes  BY <2>1 DEF Nodes
  <2>3. Lineage(n) = {n, ParentOf[n]}  BY <2>1, <2>2, LineageOf
  <2> QED  BY <1>6, <1>10, <2>3 DEF N, A
<1>11. CASE n \in Shots \ N
  <2>1. n \notin Chapters /\ ParentOf[n] \in Scenes  BY <1>11, LevelsAssumption
  <2>2. ParentOf[n] \in Nodes /\ ParentOf[n] \notin Chapters
        /\ ParentOf[ParentOf[n]] \in Chapters
    BY <2>1, LevelsAssumption DEF Nodes
  <2>3. ParentOf[ParentOf[n]] \in Nodes  BY <2>2 DEF Nodes
  <2>4. Lineage(n) = {n, ParentOf[n], ParentOf[ParentOf[n]]}
    BY <2>1, <2>2, <2>3, LineageOf
  <2> QED  BY <1>7, <1>11, <2>4 DEF N, A
<1> QED  BY <1>8, <1>9, <1>10, <1>11 DEF Nodes

(* Below what an archive takes there is nothing live but what it takes too. *)
LEMMA TakenBelow ==
  ASSUME NEW n \in Nodes, NEW y \in Nodes, Live(y), NEW z \in Lineage(y), z \in Taken(n)
  PROVE  y \in Taken(n)
<1>1. z \in Nodes /\ Lineage(z) \subseteq Lineage(y) /\ y \in Lineage(y)
  BY LineageOf
<1>2. n \in Lineage(z)
  BY <1>1, LineageOf DEF Taken, Below
<1> QED  BY <1>1, <1>2 DEF Taken, Below, Live

(* Steps that leave the states of the rows make nothing live or dead. *)
LEMMA SameStates ==
  ASSUME \A x \in Nodes : row'[x].state = row[x].state, NEW n \in Nodes
  PROVE  Live(n)' <=> Live(n)
<1>1. Lineage(n) \subseteq Nodes  BY LineageOf
<1> QED  BY <1>1 DEF Live, Active, Lineage

LEMMA LiveAfter ==
  ASSUME NEW n \in Nodes
  PROVE  Live(n)' <=> \A x \in Lineage(n) : row'[x].state = "active"
BY DEF Live, Active, Lineage

LEMMA StepSourceIsLive ==
  ASSUME TypeOK, TreeInv, Changes, SourceIsLive,
         UNCHANGED leftover \/ \E plan \in Plans : Apply(plan)
  PROVE  SourceIsLive'
<1>0. /\ Shots \subseteq Nodes /\ NoShot \notin Shots
      /\ \A n \in Shots : row[n].source \in Sources
  BY ShotIsShot, ColumnsOf
<1> SUFFICES ASSUME NEW n \in Shots, n \notin leftover', Live(n)', row'[n].source # NoShot
             PROVE  Live(row[n].source)'
  BY DEF SourceIsLive
<1> DEFINE s == row'[n].source
<1>s. Live(row[n].source)' <=> \A x \in Lineage(s) : row'[x].state = "active"
  BY DEF Live, Active, Lineage
<1>old. ASSUME n \notin leftover, Live(n), s = row[n].source  PROVE s \in Shots /\ Live(s)
  BY <1>0, <1>old DEF SourceIsLive, Sources
<1>1. ASSUME n \notin leftover, NEW t \in Nodes, NEW k \in Int, NEW m \in Sources, Created(t, k, m)
      PROVE  Live(row[n].source)'
  <2>1. /\ row'[t] = [state |-> "active", order |-> k, source |-> m]
        /\ \A x \in Nodes \ {t} : row'[x] = row[x]
    BY <1>1, CreatedRow
  <2>2. row'[t].state = "active" /\ row'[t].source = m  BY <2>1
  <2>3. CASE n = t
    <3>1. s = m /\ m \in Shots  BY <2>2, <2>3 DEF Sources
    <3>2. \A x \in Lineage(m) : x \in Lineage(n) \/ row'[x].state = "active"
      <4>1. m \in Origins(row', m)
        <5>1. row' \in [Nodes -> Row]  BY <1>1, CreatedRow
        <5> QED  BY <3>1, <5>1, Sourcing, OriginsClosed
      <4> QED  BY <1>1, <2>3, <3>1, <4>1, ShotIsShot DEF Created, Continues
    <3>3. \A x \in Lineage(n) : row'[x].state = "active"  BY <1>0, LiveAfter
    <3> QED  BY <1>s, <3>1, <3>2, <3>3
  <2>4. CASE n # t
    <3>1. row'[n] = row[n] /\ s = row[n].source  BY <1>0, <2>1, <2>4
    <3>2. \A x \in Lineage(n) : row'[x].state = "active"  BY <1>0, LiveAfter
    <3>3. Exists(n)
      BY <1>0, <3>1, <3>2, LineageOf DEF Exists
    <3>4. t \notin Lineage(n)
      BY <1>0, <1>1, <3>3 DEF TreeInv, Rooted, Created
    <3>5. Live(n)  BY <1>0, <2>1, <3>2, <3>4, LineageOf DEF Live, Active
    <3>6. s \in Shots /\ Live(s)  BY <1>old, <1>1, <3>1, <3>5
    <3>7. \A x \in Lineage(s) : x \in Nodes /\ x # t /\ row[x].state = "active"
      BY <1>0, <1>1, <3>6, LineageOf DEF Live, Active, Created, Exists
    <3> QED  BY <1>s, <2>1, <3>7
  <2> QED  BY <2>3, <2>4
<1>2. ASSUME n \notin leftover, NEW q \in Requested, NEW k \in Int, NEW m \in Sources, UpdateShot(q, k, m)
      PROVE  Live(row[n].source)'
  <2>1. /\ q.node \in Nodes /\ row' \in [Nodes -> Row]
        /\ \A x \in Nodes \ {q.node} : row'[x] = row[x]
        /\ row'[q.node].state = row[q.node].state
        /\ row'[q.node].source = IF m = q.seen.source THEN row[q.node].source ELSE m
    BY <1>2, UpdatedRow
  <2>2. \A x \in Nodes : row'[x].state = row[x].state  BY <2>1
  <2>3. Live(n)  BY <1>0, <2>2, SameStates
  <2>4. CASE s = row[n].source
    <3>1. s \in Shots /\ Live(s)  BY <1>old, <1>2, <2>3, <2>4
    <3>2. s \in Nodes /\ Lineage(s) \subseteq Nodes  BY <1>0, <3>1, LineageOf
    <3> QED  BY <1>s, <2>2, <3>1, <3>2 DEF Live, Active
  <2>5. CASE s # row[n].source
    <3>1. n = q.node /\ s = m /\ m \in Shots  BY <1>0, <2>1, <2>5 DEF Sources
    <3>2. m \in Origins(row', m)  BY <2>1, <3>1, Sourcing, OriginsClosed
    <3>3. \A x \in Lineage(m) : x \in Lineage(n) \/ row'[x].state = "active"
      BY <1>2, <3>1, <3>2, ShotIsShot DEF UpdateShot, Continues
    <3>4. \A x \in Lineage(n) : row'[x].state = "active"  BY <1>0, LiveAfter
    <3> QED  BY <1>s, <3>1, <3>3, <3>4
  <2> QED  BY <2>4, <2>5
<1>3. ASSUME n \notin leftover, NEW q \in Requested, Archive(q)  PROVE Live(row[n].source)'
  <2>1. /\ q.node \in Nodes
        /\ \A x \in Nodes :
             /\ row'[x].state = IF x \in Taken(q.node) THEN "archived" ELSE row[x].state
             /\ row'[x].source = row[x].source
    BY <1>3, ArchivedRow
  <2>2. \A x \in Lineage(n) : x \in Nodes /\ row'[x].state = "active"
    BY <1>0, LiveAfter, LineageOf
  <2>3. \A x \in Lineage(n) : x \notin Taken(q.node) /\ row[x].state = "active"
    BY <2>1, <2>2
  <2>4. Live(n) /\ n \notin Taken(q.node)
    BY <1>0, <2>3, LineageOf DEF Live, Active
  <2>5. s = row[n].source  BY <1>0, <2>1
  <2>6. s \in Shots /\ Live(s)  BY <1>old, <1>3, <2>4, <2>5
  <2>7. s \notin Taken(q.node)
    BY <1>3, <2>4, <2>5 DEF Archive, Dependents
  <2>8. \A x \in Lineage(s) : x \in Nodes /\ x \notin Taken(q.node) /\ row[x].state = "active"
    BY <1>0, <2>1, <2>6, <2>7, LineageOf, TakenBelow DEF Live, Active
  <2> QED  BY <1>s, <2>1, <2>8
<1>4. ASSUME n \notin leftover,
             \A x \in Nodes : row'[x].state = row[x].state /\ row'[x].source = row[x].source
      PROVE  Live(row[n].source)'
  <2>1. s = row[n].source /\ Live(n)  BY <1>0, <1>4, SameStates
  <2>2. s \in Shots /\ Live(s)  BY <1>old, <1>4, <2>1
  <2>3. \A x \in Lineage(s) : x \in Nodes /\ row[x].state = "active"
    BY <1>0, <2>2, LineageOf DEF Live, Active
  <2> QED  BY <1>s, <1>4, <2>3
<1>5. ASSUME n \notin leftover, NEW p \in Nodes \cup {Story}, NEW stale \in SUBSET Nodes,
             NEW place \in Arrangements(p), Reorder(p, place, stale)
      PROVE  Live(row[n].source)'
  BY <1>4, <1>5, ReorderedRow
<1>6. ASSUME NEW plan \in Plans, Apply(plan)  PROVE Live(row[n].source)'
  <2>1. (\A x \in Nodes : row'[x] = Merged(plan, x)) /\ leftover' = LeftOver(plan) \cap Shots
    BY <1>6, AppliedRow DEF Apply
  <2>2. ASSUME NEW y \in Nodes
        PROVE  (\A x \in Lineage(y) : row'[x].state = "active")
                 <=> y \in NodesOf(plan) \cup LeftOver(plan)
    <3>1. Lineage(y) \subseteq Nodes  BY LineageOf
    <3>2. (\A x \in Lineage(y) : Merged(plan, x).state = "active")
            <=> y \in NodesOf(plan) \cup LeftOver(plan)
      BY MergedLive
    <3> QED  BY <2>1, <3>1, <3>2
  <2>3. n \in NodesOf(plan)  BY <1>0, <2>1, <2>2, LiveAfter
  <2>4. s = plan.source[n]
    <3>1. Merged(plan, n).source = plan.source[n]  BY <1>0, <2>3, MergedRow
    <3> QED  BY <1>0, <2>1, <3>1
  <2>5. s \in NodesOf(plan) \cap Shots  BY <2>3, <2>4, PlanOf
  <2> QED  BY <1>0, <1>s, <2>2, <2>5
<1>7. CASE UNCHANGED leftover
  <2>1. n \notin leftover  BY <1>7
  <2>2. UNCHANGED row => Live(row[n].source)'  BY <1>4, <2>1
  <2> QED  BY <1>1, <1>2, <1>3, <1>5, <1>6, <2>1, <2>2 DEF Changes
<1> QED  BY <1>6, <1>7

-----------------------------------------------------------------------------
(* Positions *)

LEMMA PlanSlots ==
  ASSUME NEW plan \in Plans, NEW n \in NodesOf(plan)
  PROVE  /\ plan.order[n] \in Nat
         /\ \A m \in NodesOf(plan) :
              ParentOf[m] = ParentOf[n] /\ plan.order[m] = plan.order[n] => m = n
<1> DEFINE N == NodesOf(plan)
           S == {m \in N : ParentOf[m] = ParentOf[n]}
           c == Cardinality(S)
           f == [m \in S |-> plan.order[m]]
<1>1. N \subseteq Nodes /\ plan.order \in [N -> Int] /\ plan.order \in Placings(N)
  BY PlanOf
<1>2. {plan.order[m] : m \in S} = 0..(c - 1)
  BY <1>1 DEF Placings
<1>3. S \in SUBSET Nodes /\ n \in S  BY <1>1
<1>4. IsFiniteSet(S) /\ c \in Nat
  <2> HIDE DEF S
  <2>1. IsFiniteSet(S)  BY <1>3, FiniteAssumption, FS_Subset
  <2> QED  BY <2>1, FS_CardinalityType
<1>5. f \in [S -> Int]  BY <1>1
<1>6. {f[m] : m \in S} = 0..(c - 1)  BY <1>2
<1>7. \A m \in S : f[m] = plan.order[m]  OBVIOUS
<1>8. plan.order[n] \in 0..(c - 1)
  <2>1. plan.order[n] \in {plan.order[m] : m \in S}  BY <1>3
  <2> QED  BY <1>2, <2>1
<1> HIDE DEF f
<1>9. c >= 1  BY <1>4, <1>8
<1>10. IsFiniteSet(0..(c - 1)) /\ Cardinality(0..(c - 1)) = c
  BY <1>4, <1>9, FS_Interval
<1>11. ASSUME NEW m \in S, f[m] = f[n]  PROVE m = n
  <2> HIDE DEF S
  <2> QED  BY <1>3, <1>4, <1>5, <1>6, <1>10, <1>11, OneToOne
<1>12. ASSUME NEW m \in N, ParentOf[m] = ParentOf[n], plan.order[m] = plan.order[n]
       PROVE  m = n
  BY <1>3, <1>7, <1>11, <1>12
<1>13. plan.order[n] \in Nat  BY <1>8
<1> QED  BY <1>12, <1>13

LEMMA SunkApart ==
  ASSUME TypeOK, NEW m \in Nodes, NEW n \in Nodes, ParentOf[m] = ParentOf[n], Exists(m),
         Exists(n), m # n
  PROVE  Sunk(m) # Sunk(n)
<1> DEFINE S == Children(ParentOf[n])
           low == Smallest({row[x].order : x \in S} \cup {0}) - Cardinality(S) - 1
           rank(x) == Cardinality({y \in S : y < x})
<1>1. /\ S \in SUBSET Nodes /\ m \in S /\ n \in S
      /\ m \in Int /\ n \in Int
  BY IdsAssumption DEF Children
<1>2. Sunk(m) = low - rank(m) /\ Sunk(n) = low - rank(n)
  BY DEF Sunk
<1>3. rank(m) \in Nat /\ rank(n) \in Nat
      /\ (m < n => rank(m) < rank(n)) /\ (n < m => rank(n) < rank(m))
  <2> HIDE DEF S
  <2> QED  BY <1>1, IdRank
<1>4. low \in Int
  <2> DEFINE least == Smallest({row[x].order : x \in S} \cup {0})
  <2>1. least \in Int /\ Cardinality(S) \in Nat  BY LowestOf
  <2> HIDE DEF least
  <2> QED  BY <2>1 DEF least
<1> HIDE DEF low, rank
<1> QED  BY <1>1, <1>2, <1>3, <1>4

LEMMA StepSlotsUnique ==
  ASSUME TypeOK, TreeInv, Changes, SlotsUnique
  PROVE  SlotsUnique'
<1> SUFFICES ASSUME NEW a \in Nodes, NEW b \in Nodes, a # b, ParentOf[a] = ParentOf[b],
                    Exists(a)', Exists(b)'
             PROVE  row'[a].order # row'[b].order
  BY DEF SlotsUnique
<1>0. ASSUME row'[a].order = row[a].order, row'[b].order = row[b].order, Exists(a), Exists(b)
      PROVE  row'[a].order # row'[b].order
  BY <1>0 DEF SlotsUnique
<1>1. ASSUME NEW t \in Nodes, NEW k \in Int, NEW m \in Sources, Created(t, k, m)
      PROVE  row'[a].order # row'[b].order
  <2>1. /\ row'[t] = [state |-> "active", order |-> k, source |-> m]
        /\ \A x \in Nodes \ {t} : row'[x] = row[x]
    BY <1>1, CreatedRow
  <2>2. row'[t].order = k  BY <2>1
  <2>3. \A x \in {a, b} \ {t} : Exists(x)  BY <2>1 DEF Exists
  <2>4. \A x \in Children(ParentOf[t]) \ {t} : row[x].order # k
    BY <1>1 DEF Created, SlotFree
  <2> QED  BY <1>0, <2>1, <2>2, <2>3, <2>4 DEF Children
<1>2. ASSUME NEW q \in Requested, NEW k \in Int, NEW m \in Sources, UpdateShot(q, k, m)
      PROVE  row'[a].order # row'[b].order
  <2> DEFINE t == q.node
  <2>1. /\ t \in Nodes /\ row'[t].state = row[t].state
        /\ \A x \in Nodes \ {t} : row'[x] = row[x]
    BY <1>2, UpdatedRow
  <2>2. Exists(a) /\ Exists(b)  BY <2>1 DEF Exists
  <2>3. \A x \in Children(ParentOf[t]) \ {t} : row[x].order # row'[t].order
    BY <1>2 DEF UpdateShot, SlotFree
  <2> HIDE DEF t
  <2> QED  BY <1>0, <2>1, <2>2, <2>3 DEF Children
<1>3. ASSUME NEW q \in Requested, Rooted(q.node), Archive(q)
      PROVE  row'[a].order # row'[b].order
  <2> DEFINE S == Children(ParentOf[q.node])
             gone == {m \in S : m = q.node \/ row[m].state = "archived"}
             final == Reindexed(S, gone)
  <2>1. /\ q.node \in Nodes
        /\ \A x \in Nodes :
             /\ row'[x].state = IF x \in Taken(q.node) THEN "archived" ELSE row[x].state
             /\ row'[x].order = IF x \in S THEN final[x] ELSE row[x].order
    BY <1>3, ArchivedRow
  <2>2. \A x \in Taken(q.node) : Exists(x)
    BY <1>3, <2>1, LineageOf DEF Taken, Active, Exists, Rooted
  <2>3. Exists(a) /\ Exists(b)  BY <2>1, <2>2 DEF Exists
  <2>4. \A x, y \in S : x # y => final[x] # final[y]
    <3>1. CollisionFree(S, Staged(S), final)  BY <1>3 DEF Archive
    <3> HIDE DEF S, final
    <3> QED  BY <3>1 DEF CollisionFree
  <2>5. a \in S <=> b \in S  BY <2>3 DEF Children
  <2> HIDE DEF S, final
  <2> QED  BY <1>0, <2>1, <2>3, <2>4, <2>5
<1>4. ASSUME NEW p \in Nodes \cup {Story}, NEW stale \in SUBSET Nodes,
             NEW place \in Arrangements(p), Reorder(p, place, stale)
      PROVE  row'[a].order # row'[b].order
  <2> DEFINE S == Children(p)
             final == [n \in S |-> IF n \in ActiveChildren(p)
                                   THEN row[place[n]].order ELSE row[n].order]
  <2>1. \A x \in Nodes : /\ row'[x].state = row[x].state
                         /\ row'[x].order = IF x \in S THEN final[x] ELSE row[x].order
    BY <1>4, ReorderedRow
  <2>2. Exists(a) /\ Exists(b)  BY <2>1 DEF Exists
  <2>3. \A x, y \in S : x # y => final[x] # final[y]
    <3>1. CollisionFree(S, StagedActive(S, ActiveChildren(p)), final)
      BY <1>4 DEF Reorder
    <3> HIDE DEF S, final
    <3> QED  BY <3>1 DEF CollisionFree
  <2>4. a \in S <=> b \in S  BY <2>2 DEF Children
  <2> HIDE DEF S, final
  <2> QED  BY <1>0, <2>1, <2>2, <2>3, <2>4
<1>5. ASSUME NEW plan \in Plans, Apply(plan)  PROVE row'[a].order # row'[b].order
  <2> DEFINE N == NodesOf(plan)
             low == OmittedShots(plan)
  <2>1. /\ \A x \in Nodes : row'[x].state =
              IF x \in N THEN "active"
              ELSE IF x \in low \cup Omitted(plan) THEN "archived" ELSE row[x].state
        /\ \A x \in Nodes : row'[x].order =
              IF x \in N THEN plan.order[x] ELSE IF x \in low THEN Sunk(x) ELSE row[x].order
    <3>1. \A x \in Nodes : row'[x] = Merged(plan, x)  BY <1>5, AppliedRow
    <3> QED  BY <3>1, MergedRow
  <2>2. \A x \in low : Exists(x)  BY DEF OmittedShots
  <2>3. \A x \in {a, b} \ N : Exists(x)
    BY <2>1, <2>2 DEF Omitted, Active, Exists
  <2>4. ASSUME NEW x \in N, NEW y \in Nodes, x # y, ParentOf[x] = ParentOf[y],
               y \notin N => Exists(y)
        PROVE  row'[x].order # row'[y].order
    <3>1. x \in Nodes /\ row'[x].order = plan.order[x] /\ plan.order[x] \in Nat
      BY <2>1, PlanOf, PlanSlots
    <3>2. CASE y \in N  BY <2>1, <2>4, <3>1, <3>2, PlanSlots
    <3>3. CASE y \notin N /\ y \in low
      <4>1. row'[y].order < 0 /\ row'[y].order \in Int  BY <2>1, <3>3, SunkType
      <4> QED  BY <3>1, <4>1
    <3>4. CASE y \notin N /\ y \notin low
      <4>1. row'[y].order = row[y].order  BY <2>1, <3>4
      <4>2. x \notin Shots
        <5> SUFFICES ASSUME x \in Shots  PROVE FALSE
          OBVIOUS
        <5>1. ParentOf[x] \in Scenes  BY <3>1, LevelsAssumption
        <5>2. y \in Shots  BY <2>4, <5>1, LevelsAssumption
        <5>3. ParentOf[x] \in N
          <6>1. ParentOf[x] \in Lineage(x)
            <7>1. x \notin Scenes  BY LevelsAssumption
            <7> QED  BY <7>1 DEF Lineage
          <6> QED  BY <6>1, PlanOf
        <5> QED  BY <2>4, <3>4, <5>2, <5>3 DEF OmittedShots
      <4>3. y \in Children(ParentOf[x]) \ {x}  BY <2>4, <3>4 DEF Children
      <4>4. row[y].order # plan.order[x]
        BY <1>5, <3>4, <4>2, <4>3 DEF Apply, Assignable
      <4> QED  BY <3>1, <4>1, <4>4
    <3> QED  BY <3>2, <3>3, <3>4
  <2>5. CASE a \in N  BY <2>3, <2>4, <2>5
  <2>6. CASE b \in N  BY <2>3, <2>4, <2>6
  <2>7. CASE a \notin N /\ b \notin N
    <3>1. Exists(a) /\ Exists(b)  BY <2>3, <2>7
    <3>2. a \in low <=> b \in low
      <4>1. a \in Shots <=> b \in Shots  BY LevelsAssumption
      <4> QED  BY <2>7, <3>1, <4>1 DEF OmittedShots
    <3>3. CASE a \in low
      <4>1. row'[a].order = Sunk(a) /\ row'[b].order = Sunk(b)
        BY <2>1, <2>7, <3>2, <3>3
      <4> QED  BY <3>1, <4>1, SunkApart
    <3>4. CASE a \notin low
      <4>1. row'[a].order = row[a].order /\ row'[b].order = row[b].order
        BY <2>1, <2>7, <3>2, <3>4
      <4> QED  BY <1>0, <3>1, <4>1
    <3> QED  BY <3>3, <3>4
  <2> QED  BY <2>5, <2>6, <2>7
<1>6. CASE UNCHANGED row  BY <1>0, <1>6 DEF Exists
<1> QED  BY <1>1, <1>2, <1>3, <1>4, <1>5, <1>6 DEF Changes

-----------------------------------------------------------------------------
(* The flushes of archive and reorder *)

(* Siblings with positions of their own. *)
Apart(S) == \A m, n \in S : m # n => row[m].order # row[n].order

LEMMA RanksApart ==
  ASSUME TypeOK, NEW S \in SUBSET Nodes, Apart(S), NEW m \in S, NEW n \in S, m # n
  PROVE  Cardinality({x \in S : row[x].order < row[m].order})
           # Cardinality({x \in S : row[x].order < row[n].order})
<1> DEFINE rank(y) == Cardinality({x \in S : row[x].order < row[y].order})
<1>1. /\ row[m].order \in Int /\ row[n].order \in Int /\ row[m].order # row[n].order
  BY ColumnsOf DEF Apart
<1>2. rank(m) \in Nat /\ rank(n) \in Nat
      /\ (row[m].order < row[n].order => rank(m) < rank(n))
      /\ (row[n].order < row[m].order => rank(n) < rank(m))
  BY OrderRank
<1> HIDE DEF rank
<1>3. rank(m) # rank(n)  BY <1>1, <1>2
<1> QED  BY <1>3 DEF rank

LEMMA FiniteOrders ==
  ASSUME TypeOK, NEW S \in SUBSET Nodes, S # {}
  PROVE  /\ LET top == Largest({row[n].order : n \in S})
            IN top \in Int /\ \A n \in S : row[n].order <= top
         /\ LET top == Largest({AbsOf(row[n].order) : n \in S})
            IN top \in Nat /\ \A n \in S : row[n].order <= top
<1> DEFINE f == [n \in S |-> row[n].order]
           g == [n \in S |-> AbsOf(row[n].order)]
           F == {row[n].order : n \in S}
           G == {AbsOf(row[n].order) : n \in S}
<1>1. IsFiniteSet(S)  BY FiniteAssumption, FS_Subset
<1>2. \A n \in S : /\ row[n].order \in Int /\ AbsOf(row[n].order) \in Nat
                   /\ row[n].order <= AbsOf(row[n].order)
  <2>1. \A x \in Int : AbsOf(x) \in Nat /\ x <= AbsOf(x)  BY DEF AbsOf
  <2> QED  BY <2>1, ColumnsOf
<1>3. f \in [S -> Int] /\ g \in [S -> Int]  BY <1>2
<1>4. {f[n] : n \in S} = F /\ {g[n] : n \in S} = G  OBVIOUS
<1>5. IsFiniteSet(F) /\ IsFiniteSet(G)
  <2> HIDE DEF f, g, F, G
  <2>1. IsFiniteSet({f[n] : n \in S}) /\ IsFiniteSet({g[n] : n \in S})
    BY <1>1, <1>3, ImageOf
  <2> QED  BY <1>4, <2>1
<1>6. /\ F \in SUBSET Int /\ F # {} /\ \A n \in S : row[n].order \in F
      /\ G \in SUBSET Int /\ G # {} /\ G \in SUBSET Nat /\ \A n \in S : AbsOf(row[n].order) \in G
  BY <1>2
<1> HIDE DEF F, G
<1>7. /\ Largest(F) \in F /\ \A y \in F : Largest(F) >= y
      /\ Largest(G) \in G /\ \A y \in G : Largest(G) >= y
  BY <1>5, <1>6, LargestOf
<1>8. Largest(F) \in Int /\ \A n \in S : row[n].order <= Largest(F)
  <2>1. Largest(F) \in Int  BY <1>6, <1>7
  <2> QED  BY <1>2, <1>6, <1>7, <2>1
<1>9. Largest(G) \in Nat /\ \A n \in S : row[n].order <= Largest(G)
  <2>1. Largest(G) \in Nat  BY <1>6, <1>7
  <2>2. ASSUME NEW n \in S  PROVE row[n].order <= Largest(G)
    <3>1. /\ AbsOf(row[n].order) <= Largest(G) /\ row[n].order <= AbsOf(row[n].order)
          /\ row[n].order \in Int /\ AbsOf(row[n].order) \in Int
      BY <1>2, <1>6, <1>7
    <3> QED  BY <2>1, <3>1
  <2> QED  BY <2>1, <2>2
<1> QED  BY <1>8, <1>9 DEF F, G

(* The first flush of an archive puts the siblings above all positions, old *)
(* and new.                                                                *)
LEMMA StagedAbove ==
  ASSUME TypeOK, NEW S \in SUBSET Nodes, S # {}, Apart(S)
  PROVE  /\ Staged(S) \in [S -> Int]
         /\ \A n \in S : Staged(S)[n] > Cardinality(S)
         /\ \A m, n \in S : Staged(S)[m] > row[n].order
         /\ \A m, n \in S : m # n => Staged(S)[m] # Staged(S)[n]
<1> DEFINE top == Largest({AbsOf(row[n].order) : n \in S})
           base == top + Cardinality(S) + 1
           rank(n) == Cardinality({m \in S : row[m].order < row[n].order})
<1>1. top \in Nat /\ \A n \in S : row[n].order <= top /\ row[n].order \in Int
  BY FiniteOrders, ColumnsOf
<1>2. Cardinality(S) \in Nat /\ \A n \in S : rank(n) \in Nat
  BY OrderRank
<1>3. \A m, n \in S : m # n => rank(m) # rank(n)
  BY RanksApart
<1>4. Staged(S) = [n \in S |-> base + rank(n)]
  BY DEF Staged
<1> HIDE DEF top, rank
<1> QED  BY <1>1, <1>2, <1>3, <1>4

(* The second flush leaves each a position of its own. *)
LEMMA ReindexedApart ==
  ASSUME TypeOK, NEW S \in SUBSET Nodes, Apart(S), NEW gone \in SUBSET S
  PROVE  /\ Reindexed(S, gone) \in [S -> Int]
         /\ \A n \in S : Reindexed(S, gone)[n] <= Cardinality(S)
         /\ \A m, n \in S : m # n => Reindexed(S, gone)[m] # Reindexed(S, gone)[n]
<1> DEFINE kept == S \ gone
           low(n) == Cardinality({m \in gone : m < n})
           high(n) == Cardinality({m \in kept : row[m].order < row[n].order})
<1>1. gone \in SUBSET Nodes /\ kept \in SUBSET Nodes /\ kept \in SUBSET S
  OBVIOUS
<1>2. /\ Cardinality(S) \in Nat /\ Cardinality(kept) \in Nat
      /\ Cardinality(kept) <= Cardinality(S)
  <2> HIDE DEF kept
  <2>1. IsFiniteSet(S)  BY FiniteAssumption, FS_Subset
  <2>2. IsFiniteSet(kept) /\ Cardinality(kept) <= Cardinality(S)  BY <1>1, <2>1, FS_Subset
  <2> QED  BY <2>1, <2>2, FS_CardinalityType
<1>3. \A n \in S : high(n) \in Nat /\ high(n) <= Cardinality(kept)
  <2> HIDE DEF kept
  <2> QED  BY <1>1, OrderRank
<1>4. \A m, n \in kept : m # n => high(m) # high(n)
  <2> HIDE DEF kept
  <2>1. Apart(kept)  BY <1>1 DEF Apart
  <2> QED  BY <1>1, <2>1, RanksApart
<1>5. \A n \in S : low(n) \in Nat
  BY <1>1, IdRank
<1>6. \A m, n \in gone : m # n => low(m) # low(n)
  <2> SUFFICES ASSUME NEW m \in gone, NEW n \in gone, m # n  PROVE low(m) # low(n)
    OBVIOUS
  <2>1. m \in Int /\ n \in Int  BY IdsAssumption
  <2>2. /\ low(m) \in Nat /\ low(n) \in Nat
        /\ (m < n => low(m) < low(n)) /\ (n < m => low(n) < low(m))
    BY <1>1, IdRank
  <2> HIDE DEF low
  <2> QED  BY <2>1, <2>2
<1>7. Reindexed(S, gone) = [n \in S |-> IF n \in gone THEN -(1 + low(n)) ELSE high(n)]
  BY DEF Reindexed
<1>8. \A n \in S : n \notin gone => n \in kept
  OBVIOUS
<1> HIDE DEF low, high, kept
<1> QED  BY <1>2, <1>3, <1>4, <1>5, <1>6, <1>7, <1>8

(* The first flush of a reorder puts the active siblings above the others. *)
LEMMA StagedActiveAbove ==
  ASSUME TypeOK, NEW S \in SUBSET Nodes, S # {}, Apart(S), NEW active \in SUBSET S
  PROVE  /\ StagedActive(S, active) \in [S -> Int]
         /\ \A n \in S \ active : StagedActive(S, active)[n] = row[n].order
         /\ \A m \in active, n \in S : StagedActive(S, active)[m] > row[n].order
         /\ \A m, n \in S : m # n => StagedActive(S, active)[m] # StagedActive(S, active)[n]
<1> DEFINE top == Largest({row[n].order : n \in S})
           base == top + Cardinality(active) + 1
           rank(n) == Cardinality({m \in active : row[m].order < row[n].order})
<1>1. top \in Int /\ \A n \in S : row[n].order <= top /\ row[n].order \in Int
  BY FiniteOrders, ColumnsOf
<1>2. active \in SUBSET Nodes /\ Apart(active)
  BY DEF Apart
<1>3. Cardinality(active) \in Nat /\ \A n \in S : rank(n) \in Nat
  BY <1>2, OrderRank
<1>4. \A m, n \in active : m # n => rank(m) # rank(n)
  BY <1>2, RanksApart
<1>5. StagedActive(S, active) =
        [n \in S |-> IF n \in active THEN base + rank(n) ELSE row[n].order]
  BY DEF StagedActive
<1>6. \A m, n \in S : m # n => row[m].order # row[n].order
  BY DEF Apart
<1> HIDE DEF top, rank
<1> DEFINE after == StagedActive(S, active)
<1>7. \A n \in active : after[n] = base + rank(n) /\ after[n] > top /\ after[n] \in Int
  BY <1>1, <1>3, <1>5
<1>8. \A n \in S \ active : after[n] = row[n].order
  BY <1>5
<1>9. after \in [S -> Int]
  BY <1>1, <1>5, <1>7
<1>10. \A m \in active, n \in S : after[m] > row[n].order
  BY <1>1, <1>7
<1>11. ASSUME NEW m \in S, NEW n \in S, m # n  PROVE after[m] # after[n]
  <2>1. CASE m \in active /\ n \in active
    BY <1>1, <1>3, <1>4, <1>7, <1>11, <2>1
  <2>2. CASE m \in active /\ n \notin active
    <3>1. after[m] > row[n].order /\ row[n].order \in Int  BY <1>1, <1>10, <2>2
    <3> QED  BY <1>8, <2>2, <3>1
  <2>3. CASE m \notin active /\ n \in active
    <3>1. after[n] > row[m].order /\ row[m].order \in Int  BY <1>1, <1>10, <2>3
    <3> QED  BY <1>8, <2>3, <3>1
  <2>4. CASE m \notin active /\ n \notin active  BY <1>6, <1>8, <1>11, <2>4
  <2> QED  BY <2>1, <2>2, <2>3, <2>4
<1> QED  BY <1>8, <1>9, <1>10, <1>11

LEMMA FlushesAreFree ==
  ASSUME TypeOK, SlotsUnique
  PROVE  StagingNeverCollides
<1> SUFFICES ASSUME NEW p \in Chapters \cup Scenes \cup {Story}, Children(p) # {}
             PROVE  LET S == Children(p)
                        active == ActiveChildren(p)
                    IN /\ CollisionFree(S, OrderOf(S), Staged(S))
                       /\ CollisionFree(S, Staged(S), Reindexed(S, S \ active))
                       /\ CollisionFree(S, OrderOf(S), StagedActive(S, active))
                       /\ CollisionFree(S, StagedActive(S, active), OrderOf(S))
  BY DEF StagingNeverCollides
<1> DEFINE S == Children(p)
           active == ActiveChildren(p)
           gone == S \ active
<1>1. S \in SUBSET Nodes /\ S # {} /\ active \in SUBSET S /\ gone \in SUBSET S
  BY ChildrenOf
<1>2. Apart(S)
  BY DEF SlotsUnique, Apart, Children
<1>3. \A n \in S : OrderOf(S)[n] = row[n].order /\ row[n].order \in Int
  BY <1>1, ColumnsOf DEF OrderOf
<1>4. Cardinality(S) \in Nat  BY <1>1, OrderRank
<1> HIDE DEF S, active, gone
<1> DEFINE up == Staged(S)
           final == Reindexed(S, gone)
           lifted == StagedActive(S, active)
<1>5. /\ up \in [S -> Int] /\ \A n \in S : up[n] > Cardinality(S)
      /\ \A m, n \in S : up[m] > row[n].order
      /\ \A m, n \in S : m # n => up[m] # up[n]
  BY <1>1, <1>2, StagedAbove
<1>6. /\ final \in [S -> Int] /\ \A n \in S : final[n] <= Cardinality(S)
      /\ \A m, n \in S : m # n => final[m] # final[n]
  BY <1>1, <1>2, ReindexedApart
<1>7. /\ lifted \in [S -> Int]
      /\ \A n \in S \ active : lifted[n] = row[n].order
      /\ \A m \in active, n \in S : lifted[m] > row[n].order
      /\ \A m, n \in S : m # n => lifted[m] # lifted[n]
  BY <1>1, <1>2, StagedActiveAbove
<1>8. \A m, n \in S : m # n => row[m].order # row[n].order
  BY <1>2 DEF Apart
<1> HIDE DEF up, final, lifted
<1>9. CollisionFree(S, OrderOf(S), up)
  <2>1. \A m, n \in S : up[m] # OrderOf(S)[n]
    <3> SUFFICES ASSUME NEW m \in S, NEW n \in S  PROVE up[m] # OrderOf(S)[n]
      OBVIOUS
    <3>1. up[m] > row[n].order /\ row[n].order \in Int /\ OrderOf(S)[n] = row[n].order
      BY <1>3, <1>5
    <3> QED  BY <3>1
  <2> QED  BY <1>5, <2>1 DEF CollisionFree
<1>10. CollisionFree(S, up, final)
  <2>1. \A m, n \in S : final[m] # up[n]
    <3> SUFFICES ASSUME NEW m \in S, NEW n \in S  PROVE final[m] # up[n]
      OBVIOUS
    <3>1. final[m] <= Cardinality(S) /\ Cardinality(S) < up[n]
          /\ final[m] \in Int /\ up[n] \in Int
      BY <1>4, <1>5, <1>6
    <3> QED  BY <1>4, <3>1
  <2> QED  BY <1>6, <2>1 DEF CollisionFree
<1>11. CollisionFree(S, OrderOf(S), lifted)
  <2>1. \A m, n \in S : lifted[m] # OrderOf(S)[m] => lifted[m] # OrderOf(S)[n]
    <3> SUFFICES ASSUME NEW m \in S, NEW n \in S, lifted[m] # OrderOf(S)[m]
                 PROVE  lifted[m] # OrderOf(S)[n]
      OBVIOUS
    <3>1. m \in active  BY <1>3, <1>7
    <3>2. lifted[m] > row[n].order /\ row[n].order \in Int /\ OrderOf(S)[n] = row[n].order
      BY <1>3, <1>7, <3>1
    <3> QED  BY <3>2
  <2> QED  BY <1>7, <2>1 DEF CollisionFree
<1>12. CollisionFree(S, lifted, OrderOf(S))
  <2>1. \A m, n \in S : m # n => OrderOf(S)[m] # lifted[n]
    <3> SUFFICES ASSUME NEW m \in S, NEW n \in S, m # n  PROVE OrderOf(S)[m] # lifted[n]
      OBVIOUS
    <3>1. CASE n \in active
      <4>1. lifted[n] > row[m].order /\ row[m].order \in Int /\ OrderOf(S)[m] = row[m].order
        BY <1>3, <1>7, <3>1
      <4> QED  BY <4>1
    <3>2. CASE n \notin active  BY <1>3, <1>7, <1>8, <3>2
    <3> QED  BY <3>1, <3>2
  <2>2. \A m, n \in S : m # n => OrderOf(S)[m] # OrderOf(S)[n]
    BY <1>3, <1>8
  <2> QED  BY <2>1, <2>2 DEF CollisionFree
<1> QED  BY <1>9, <1>10, <1>11, <1>12 DEF S, active, gone, up, final, lifted

-----------------------------------------------------------------------------
(* The theorems *)

LEMMA InitHolds ==
  ASSUME Init
  PROVE  TypeOK /\ TreeInv /\ SlotsUnique /\ NoCycle(row) /\ SourceIsLive
<1>1. Absent \in Row /\ Absent.state = "absent" /\ Absent.source = NoShot
  BY DEF Absent, Row, Sources
<1>2. \A n \in Nodes : row[n] = Absent  BY DEF Init
<1>3. row \in [Nodes -> Row] /\ request \in [Requests -> {Idle}]
  BY <1>1 DEF Init
<1>4. TypeOK  BY <1>3 DEF TypeOK, Init
<1>5. \A n \in Nodes : ~Exists(n)  BY <1>1, <1>2 DEF Exists
<1>6. \A n \in Shots : row[n].source = NoShot  BY <1>1, <1>2, ShotIsShot
<1>7. TreeInv /\ SlotsUnique  BY <1>3, <1>5 DEF TreeInv, SlotsUnique
<1>8. NoCycle(row) /\ SourceIsLive  BY <1>6 DEF NoCycle, SourceIsLive
<1> QED  BY <1>4, <1>7, <1>8

(* The inductive part that the others rest on. *)
TreeStands == TypeOK /\ TreeInv

LEMMA TreeStandsAlways == Spec => []TreeStands
<1>1. Init => TreeStands  BY InitHolds DEF TreeStands
<1>2. TreeStands /\ [Next]_vars => TreeStands'
  BY StepTypeOK, StepTreeInv DEF TreeStands
<1> QED  BY <1>1, <1>2, PTL DEF Spec

LEMMA SlotsUniqueAlways == Spec => []SlotsUnique
<1>1. Init => SlotsUnique  BY InitHolds
<1>2. TreeStands /\ SlotsUnique /\ [Next]_vars => SlotsUnique'
  BY StepChanges, StepSlotsUnique DEF TreeStands
<1> QED  BY <1>1, <1>2, TreeStandsAlways, PTL DEF Spec

(* Sibling order: the positions that create, update, archive, reorder and  *)
(* apply_proposal leave are unique over live rows and tombstones, and so   *)
(* they are after each UPDATE of the two flushes of                        *)
(* _reindex_active_siblings and reorder: none runs into the constraint.    *)
THEOREM OrdersAreDistinct == Spec => []OrdersStayDistinct
<1>1. TreeStands /\ SlotsUnique => OrdersStayDistinct
  BY FlushesAreFree DEF TreeStands, OrdersStayDistinct
<1> QED  BY <1>1, TreeStandsAlways, SlotsUniqueAlways, PTL

(* Continuity: no shot goes back to itself, whatever requests work on rows *)
(* they read before others committed (_validate_continuity sees those as   *)
(* active) and whatever plans are applied in between.                      *)
THEOREM ContinuityHasNoCycle == Spec => []NoContinuityCycle
<1>1. NoContinuityCycle <=> NoCycle(row)  BY DEF NoContinuityCycle, NoCycle
<1>2. Init => NoContinuityCycle  BY <1>1, InitHolds
<1>3. TreeStands /\ NoContinuityCycle /\ [Next]_vars => NoContinuityCycle'
  <2> SUFFICES ASSUME TreeStands, NoCycle(row), [Next]_vars
               PROVE  NoContinuityCycle'
    BY <1>1
  <2>1. NoCycle(row')  BY StepChanges, StepNoCycle DEF TreeStands
  <2> QED  BY <2>1 DEF NoContinuityCycle, NoCycle
<1> QED  BY <1>2, <1>3, TreeStandsAlways, PTL DEF Spec

(* Live sources: an archive is refused while a live shot outside what it   *)
(* takes continues one inside, and no link is made to a shot that another  *)
(* request has archived.  Whatever plans are applied in between, only the  *)
(* shots they leave below a chapter without scenes can lose their sources. *)
THEOREM SourcesAreLive == Spec => []SourceIsLive
<1>1. Init => SourceIsLive  BY InitHolds
<1>2. TreeStands /\ SourceIsLive /\ [Next]_vars => SourceIsLive'
  BY StepChanges, StepSourceIsLive DEF TreeStands
<1> QED  BY <1>1, <1>2, TreeStandsAlways, PTL DEF Spec

(* Apply: the live rows after apply_proposal are those of its plan and those *)
(* below a chapter that the plan names without scenes, in every tree the   *)
(* plan can be applied to.                                                 *)
THEOREM PlansReplaceTheStory == Spec => []PlanReplacesStory
<1>1. TreeStands => PlanReplacesStory
  <2> SUFFICES ASSUME TypeOK, NEW plan \in Plans
               PROVE  LET active == {n \in Nodes : Merged(plan, n).state = "active"}
                      IN {n \in Nodes : Lineage(n) \subseteq active}
                           = NodesOf(plan) \cup LeftOver(plan)
    BY DEF TreeStands, PlanReplacesStory
  <2> DEFINE active == {n \in Nodes : Merged(plan, n).state = "active"}
             after == NodesOf(plan) \cup LeftOver(plan)
  <2>1. after \subseteq Nodes  BY PlanOf DEF LeftOver, Nodes
  <2>2. \A n \in Nodes : Lineage(n) \subseteq active <=> n \in after
    BY LineageOf, MergedLive
  <2> HIDE DEF after
  <2>3. {n \in Nodes : Lineage(n) \subseteq active} = after  BY <2>1, <2>2
  <2> QED  BY <2>3 DEF after
<1> QED  BY <1>1, TreeStandsAlways, PTL

-----------------------------------------------------------------------------
(* What the division of a target among the shots of an assembled plan      *)
(* yields, for every target and every number of shots.                     *)

(* Division rounds down. *)
LEMMA Quotient ==
  ASSUME NEW a \in Int, NEW b \in Nat \ {0}
  PROVE  /\ a \div b \in Int
         /\ b * (a \div b) <= a
         /\ a < b * (a \div b) + b
BY SMT

LEMMA Monotone ==
  ASSUME NEW n \in Nat, NEW a \in Int, NEW b \in Int, a <= b
  PROVE  n * a <= n * b
BY SMT

(* The bounds on the number of shots leave a choice. *)
LEMMA CountsExist ==
  ASSUME NEW target \in Nat, target >= MinShot
  PROVE  /\ FewestShots(target) \in Nat \ {0}
         /\ MostShots(target) \in Nat \ {0}
         /\ FewestShots(target) <= MostShots(target)
         /\ target <= MaxShot * FewestShots(target)
         /\ MinShot * MostShots(target) <= target
BY SMT DEF FewestShots, MostShots, Ceiling, MinShot, MaxShot, Second

(* Number of shots: whatever the providers have listed, the number of      *)
(* shots _shot_count settles on can fill the target with shots of 6 to 12  *)
(* seconds.                                                                *)
THEOREM CountFitsTarget ==
  ASSUME NEW target \in Nat, target >= MinShot, NEW preferred \in Nat
  PROVE  /\ ShotCount(target, preferred) \in Nat \ {0}
         /\ MinShot * ShotCount(target, preferred) <= target
         /\ target <= MaxShot * ShotCount(target, preferred)
<1> DEFINE few == FewestShots(target)
           many == MostShots(target)
           count == ShotCount(target, preferred)
<1>1. few \in Nat \ {0} /\ many \in Nat \ {0} /\ few <= many
  BY CountsExist
<1>2. target <= MaxShot * few /\ MinShot * many <= target
  BY CountsExist
<1>3. count \in few..many
  <2>1. RoundHalfEven(target, 8 * Second) \in Int
    BY SMT DEF RoundHalfEven, Second
  <2>2. ~(target < MinShot)
    BY SMT DEF MinShot, Second
  <2> HIDE DEF few, many
  <2>3. QED BY <1>1, <2>1, <2>2 DEF ShotCount, few, many
<1> HIDE DEF few, many, count
<1>4. QED BY <1>1, <1>2, <1>3, SMT DEF MinShot, MaxShot, Second, count

(* All shots but the last are within the policy: build_proposal_payload    *)
(* gives each of them the rounded share.                                   *)
THEOREM ShareFitsPolicy ==
  ASSUME NEW target \in Nat, NEW count \in Nat \ {0},
         MinShot * count <= target, target <= MaxShot * count
  PROVE  /\ Share(target, count) \in MinShot..MaxShot
         /\ 2 * Remainder(target, count) \in 2 * MinShot - count..2 * MaxShot + count
<1> DEFINE s == Share(target, count)
<1>1. /\ s \in Int
      /\ (2 * count) * s <= 2 * target + count
      /\ 2 * target + count < (2 * count) * s + 2 * count
  BY Quotient, 2 * target + count \in Int, 2 * count \in Nat \ {0} DEF Share, RoundHalfUp
<1> HIDE DEF s
<1>2. s >= MinShot
  <2> SUFFICES ASSUME s <= MinShot - 1 PROVE FALSE
    BY <1>1, SMT DEF MinShot, Second
  <2>1. (2 * count) * s <= (2 * count) * (MinShot - 1)
    BY <1>1, Monotone, SMT DEF MinShot, Second
  <2>2. QED BY <1>1, <2>1, SMT DEF MinShot, Second
<1>3. s <= MaxShot
  <2> SUFFICES ASSUME MaxShot + 1 <= s PROVE FALSE
    BY <1>1, SMT DEF MaxShot, Second
  <2>1. (2 * count) * (MaxShot + 1) <= (2 * count) * s
    BY <1>1, Monotone, SMT DEF MaxShot, Second
  <2>2. QED BY <1>1, <2>1, SMT DEF MaxShot, Second
<1>4. 2 * Remainder(target, count) = 2 * target - (2 * count) * s + 2 * s
  BY <1>1, SMT DEF Remainder, s
<1>5. (2 * count) * s \in Int
  BY <1>1, SMT
<1>6. 2 * Remainder(target, count) \in Int
  BY <1>1, <1>4, <1>5, SMT
<1> DEFINE whole == (2 * count) * s
           rest == Remainder(target, count)
<1>7. 2 * rest >= 2 * MinShot - count /\ 2 * rest <= 2 * MaxShot + count
  <2> HIDE DEF whole, rest
  <2>1. /\ whole <= 2 * target + count /\ 2 * target + count < whole + 2 * count
        /\ 2 * rest = 2 * target - whole + 2 * s
        /\ whole \in Int /\ 2 * rest \in Int
    BY <1>1, <1>4, <1>5, <1>6 DEF whole, rest
  <2>2. QED BY <1>1, <1>2, <1>3, <2>1, SMT DEF MinShot, MaxShot, Second
<1>8. s \in MinShot..MaxShot
  <2>1. s \in Int
    BY <1>1
  <2>2. MinShot \in Int /\ MaxShot \in Int
    BY SMT DEF MinShot, MaxShot, Second
  <2>3. \A a, b, c \in Int : a <= b /\ b <= c => b \in a..c
    BY SMT
  <2>4. QED BY <1>2, <1>3, <2>1, <2>2, <2>3, Zenon
<1>9. 2 * rest \in 2 * MinShot - count..2 * MaxShot + count
  <2> HIDE DEF rest
  <2>1. 2 * rest \in Int
    BY <1>6 DEF rest
  <2>2. /\ 2 * MinShot - count \in Int
        /\ 2 * MaxShot + count \in Int
    BY SMT DEF MinShot, MaxShot, Second
  <2>3. QED BY <1>7, <2>1, <2>2, SMT
<1>10. QED BY <1>8, <1>9 DEF s

(* No time is lost or added: the equal shares and the last shot make up    *)
(* the target exactly.                                                     *)
THEOREM TargetIsExact ==
  ASSUME NEW target \in Nat, NEW count \in Nat \ {0}
  PROVE  (count - 1) * Share(target, count) + Remainder(target, count) = target
<1>1. Share(target, count) \in Int
  BY Quotient, 2 * target + count \in Int, 2 * count \in Nat \ {0} DEF Share, RoundHalfUp
<1>2. (count - 1) * Share(target, count) \in Int
  BY <1>1, SMT
<1>3. QED BY <1>2, SMT DEF Remainder

(* Every shot of a plan for a target of at least six seconds is within the *)
(* policy range, up to the rounding of the last one.                       *)
THEOREM EveryShotFits ==
  ASSUME NEW target \in Nat, target >= MinShot, NEW preferred \in Nat,
         NEW i \in 1..ShotCount(target, preferred)
  PROVE  LET count == ShotCount(target, preferred)
             duration == Duration(target, count, i)
         IN \/ duration \in MinShot..MaxShot
            \/ /\ i = count
               /\ 2 * duration \in 2 * MinShot - count..2 * MaxShot + count
<1> DEFINE count == ShotCount(target, preferred)
<1>1. count \in Nat \ {0} /\ MinShot * count <= target /\ target <= MaxShot * count
  BY CountFitsTarget
<1> HIDE DEF count
<1>2. /\ Share(target, count) \in MinShot..MaxShot
      /\ 2 * Remainder(target, count) \in 2 * MinShot - count..2 * MaxShot + count
  BY <1>1, ShareFitsPolicy
<1>3. i \in 1..count
  BY DEF count
<1>4. \/ Duration(target, count, i) \in MinShot..MaxShot
      \/ /\ i = count
         /\ 2 * Duration(target, count, i) \in 2 * MinShot - count..2 * MaxShot + count
  BY <1>1, <1>2, <1>3 DEF Duration
<1>5. QED BY <1>4 DEF count

-----------------------------------------------------------------------------
(* Folds over finite sets *)

(* Induction over the subsets of a finite set: Good holds what is shown of  *)
(* every set whose subsets with one member less have it.                    *)
LEMMA SubsetInduction ==
  ASSUME NEW S, IsFiniteSet(S), NEW Good \in SUBSET SUBSET S,
         \A s \in SUBSET S : (\A x \in s : s \ {x} \in Good) => s \in Good
  PROVE  \A s \in SUBSET S : s \in Good
<1> DEFINE T == (SUBSET S) \ Good
<1> SUFFICES ASSUME T # {}  PROVE FALSE
  OBVIOUS
<1>1. PICK A \in T : \A B \in T : B \subseteq A => B = A
  <2>1. \A A \in T : A \subseteq S  OBVIOUS
  <2> HIDE DEF T
  <2> QED  BY <2>1, MinimalExists
<1>2. \A x \in A : A \ {x} \in Good  BY <1>1
<1> QED  BY <1>1, <1>2

(* A function computed set by set, from that of a set with one member less:  *)
(* what is asked of its parts, and what it does.                           *)
Stepwise(S, V, base, pick, step) ==
  /\ IsFiniteSet(S) /\ base \in V
  /\ \A s \in SUBSET S : s # {} => pick[s] \in s
  /\ \A x \in S, v \in V : step[x][v] \in V
Computes(S, V, base, pick, step, g) ==
  /\ g \in [SUBSET S -> V]
  /\ \A s \in SUBSET S :
       /\ s = {} => g[s] = base
       /\ s # {} => g[s] = step[pick[s]][g[s \ {pick[s]}]]

LEMMA SetRecursion ==
  ASSUME NEW S, NEW V, NEW base, NEW pick, NEW step, Stepwise(S, V, base, pick, step)
  PROVE  \E g : Computes(S, V, base, pick, step, g)
<1>a. /\ IsFiniteSet(S) /\ base \in V
      /\ \A s \in SUBSET S : s # {} => pick[s] \in s
      /\ \A x \in S, v \in V : step[x][v] \in V
  BY DEF Stepwise
<1> DEFINE Right(g, s) ==
             /\ s = {} => g[s] = base
             /\ s # {} => g[s] = step[pick[s]][g[s \ {pick[s]}]]
           N == Cardinality(S)
           Done(n) == \E g \in [SUBSET S -> V] :
                        \A s \in SUBSET S : Cardinality(s) <= n => Right(g, s)
           Open == {n \in 0..N : ~Done(n)}
<1>0. N \in Nat  BY <1>a, FS_CardinalityType
<1>1. \A s \in SUBSET S : Cardinality(s) \in Nat /\ Cardinality(s) <= N /\ N \in Nat
  BY <1>a, FS_Subset, FS_CardinalityType
<1>2. Done(N) => \E g \in [SUBSET S -> V] : \A s \in SUBSET S : Right(g, s)
  BY <1>1
<1>3. ASSUME ~Done(N)  PROVE FALSE
  <2>1. Open \in SUBSET Int /\ IsFiniteSet(Open) /\ Open # {}
    <3>0. N \in 0..N  BY <1>0
    <3> HIDE DEF N
    <3>1. Open \subseteq 0..N /\ N \in Open  BY <1>3, <3>0
    <3> HIDE DEF Open
    <3>2. IsFiniteSet(0..N) /\ \A m \in 0..N : m \in Int  BY <1>0, FS_Interval
    <3>3. IsFiniteSet(Open)  BY <3>1, <3>2, FS_Subset
    <3> QED  BY <3>1, <3>2, <3>3
  <2> DEFINE n == Smallest(Open)
  <2>2. n \in Open /\ \A m \in Open : n <= m
    <3> HIDE DEF Open
    <3> QED  BY <2>1, SmallestOf
  <2>3. n \in 0..N /\ ~Done(n) /\ (n # 0 => Done(n - 1))
    <3>0. n \in 0..N  BY <2>2
    <3>1. n # 0 => n - 1 \in 0..N /\ ~(n <= n - 1)
      <4> HIDE DEF n, N
      <4> QED  BY <1>0, <3>0
    <3> HIDE DEF n, Done
    <3> QED  BY <2>2, <3>1
  <2>4. PICK g \in [SUBSET S -> V] :
          \A s \in SUBSET S : Cardinality(s) < n => Right(g, s)
    <3>1. CASE n = 0
      <4>1. [s \in SUBSET S |-> base] \in [SUBSET S -> V]  BY <1>a
      <4> HIDE DEF n
      <4>2. \A s \in SUBSET S : ~(Cardinality(s) < n)  BY <1>1, <3>1
      <4> QED  BY <4>1, <4>2
    <3>2. CASE n # 0
      <4> HIDE DEF n
      <4>1. PICK g \in [SUBSET S -> V] :
              \A s \in SUBSET S : Cardinality(s) <= n - 1 => Right(g, s)
        BY <2>3, <3>2
      <4>2. \A s \in SUBSET S : Cardinality(s) < n => Cardinality(s) <= n - 1
        BY <1>1, <2>3
      <4> HIDE DEF Right
      <4> QED  BY <4>1, <4>2
    <3> QED  BY <3>1, <3>2
  <2> DEFINE h == [s \in SUBSET S |-> IF s = {} THEN base ELSE step[pick[s]][g[s \ {pick[s]}]]]
  <2>5. h \in [SUBSET S -> V]
    <3>1. ASSUME NEW s \in SUBSET S, s # {}  PROVE step[pick[s]][g[s \ {pick[s]}]] \in V
      <4>1. pick[s] \in S /\ s \ {pick[s]} \in SUBSET S  BY <1>a, <3>1
      <4>2. g[s \ {pick[s]}] \in V  BY <4>1
      <4> QED  BY <1>a, <4>1, <4>2
    <3> QED  BY <1>a, <3>1
  <2>6. ASSUME NEW s \in SUBSET S, Cardinality(s) < n  PROVE h[s] = g[s]
    <3> HIDE DEF n
    <3> QED  BY <2>4, <2>6
  <2>7. ASSUME NEW s \in SUBSET S, Cardinality(s) <= n  PROVE Right(h, s)
    <3>1. CASE s = {}  BY <3>1
    <3>2. CASE s # {}
      <4> DEFINE r == s \ {pick[s]}
      <4>1. pick[s] \in s /\ r \in SUBSET S  BY <1>a, <3>2
      <4>2. Cardinality(r) < Cardinality(s)
        <5>1. IsFiniteSet(s) /\ r \in SUBSET s /\ pick[s] \in s \ r  BY <1>a, <4>1, FS_Subset
        <5> HIDE DEF r
        <5> QED  BY <5>1, LessMembers
      <4>3. Cardinality(r) < n  
        <5> HIDE DEF n, r
        <5> QED BY <1>1, <2>3, <2>7, <4>1, <4>2
      <4>4. h[r] = g[r]  BY <2>6, <4>1, <4>3
      <4>5. h[s] = step[pick[s]][g[r]]  BY <3>2
      <4> HIDE DEF h, r
      <4> QED  BY <3>2, <4>4, <4>5 DEF r
    <3> QED  BY <3>1, <3>2
  <2>8. Done(n)
    <3> HIDE DEF h, n, Right
    <3> QED  BY <2>5, <2>7
  <2> QED  BY <2>3, <2>8
<1> QED  BY <1>2, <1>3 DEF Computes

-----------------------------------------------------------------------------
(* Proposals: what an assembled plan holds *)

LEMMA AssembledShots ==
  ASSUME NEW answer, NEW story, NEW target
  PROVE  LET p == Assembled(answer, story, target)
             n == Count(answer, target)
         IN /\ p.target = target
            /\ p.characters = Characters(answer, story) /\ p.voices = Voices(answer, story)
            /\ p.chapters = ChapterTree(answer) /\ p.scenes = SceneTree(answer)
            /\ DOMAIN p.shots = 1..n
            /\ \E T : p.shots \in [1..n -> T]
            /\ \A i \in 1..n : /\ p.shots[i].duration = Duration(target, n, i)
                               /\ p.shots[i].link \in {"none", "shot"}
                               /\ p.shots[i].scene = SceneOf(answer, target, i)
                               /\ p.shots[i].recommendations = Recommendations(answer, i)
                               /\ p.shots[i].cast = CastOf(answer, story, i)
<1> DEFINE n == Count(answer, target)
           ids == ClientIds("shot", [i \in 1..n |-> Template(answer, i)])
           Planned(i) == Shot(answer, story, target, ids, i)
           plan == [target |-> target, characters |-> Characters(answer, story),
                    voices |-> Voices(answer, story), chapters |-> ChapterTree(answer),
                    scenes |-> SceneTree(answer), shots |-> [i \in 1..n |-> Planned(i)]]
           p == Assembled(answer, story, target)
<1>1. p = [plan EXCEPT !.shots = Chain(plan)]
  BY DEF Assembled
<1>2. /\ p.target = target /\ p.shots = Chain(plan)
      /\ p.characters = Characters(answer, story) /\ p.voices = Voices(answer, story)
      /\ p.chapters = ChapterTree(answer) /\ p.scenes = SceneTree(answer)
  BY <1>1
<1> DEFINE earlier(i) == {k \in DOMAIN plan.shots : Earlier(Place(plan, k), Place(plan, i))}
      source(i) ==
        IF earlier(i) = {} THEN NoId
        ELSE plan.shots[CHOOSE k \in earlier(i) : earlier(k) = earlier(i) \ {k}].client
<1>3. p.shots = [i \in 1..n |-> Continuing(Planned(i), source(i))]
  <2>1. Chain(plan) = [i \in DOMAIN plan.shots |-> Continuing(plan.shots[i], source(i))]
    BY DEF Chain
  <2>2. DOMAIN plan.shots = 1..n /\ \A i \in 1..n : plan.shots[i] = Planned(i)
    OBVIOUS
  <2> HIDE DEF plan, source, Planned
  <2> QED BY <1>2, <2>1, <2>2
<1>4. ASSUME NEW i, NEW s
      PROVE LET c == Continuing(Planned(i), s) IN
            /\ c.duration = Duration(target, n, i)
            /\ c.link \in {"none", "shot"}
            /\ c.scene = SceneOf(answer, target, i)
            /\ c.recommendations = Recommendations(answer, i)
            /\ c.cast = CastOf(answer, story, i)
  BY DEF Shot, Continuing
<1>5. \E T : p.shots \in [1..n -> T]
  <2> HIDE DEF n, p, Planned, source, plan
  <2>1. p.shots \in [1..n -> {Continuing(Planned(i), source(i)) : i \in 1..n}]
    BY <1>3
  <2> QED  BY <2>1
<1>6. ASSUME NEW i \in 1..n
      PROVE  /\ p.shots[i].duration = Duration(target, n, i)
             /\ p.shots[i].link \in {"none", "shot"}
             /\ p.shots[i].scene = SceneOf(answer, target, i)
             /\ p.shots[i].recommendations = Recommendations(answer, i)
             /\ p.shots[i].cast = CastOf(answer, story, i)
  <2> HIDE DEF n, p, Planned, source, plan
  <2>1. p.shots[i] = Continuing(Planned(i), source(i))  BY <1>3
  <2> QED  BY <1>4, <2>1
<1> HIDE DEF n, p, Planned, source, plan
<1>7. DOMAIN p.shots = 1..n  BY <1>3
<1> QED  BY <1>2, <1>5, <1>6, <1>7 DEF n, p

LEMMA SumOfNone ==
  ASSUME NEW f, DOMAIN f = {}
  PROVE  SumFunction(f) = 0
<1> DEFINE D == DOMAIN f
           Some(s) == CHOOSE x \in s : TRUE
           Body(g) == [s \in SUBSET D |-> IF s = {} THEN 0 ELSE f[Some(s)] + g[s \ {Some(s)}]]
           sum == CHOOSE g : g = Body(g)
           none == [s \in SUBSET D |-> 0]
<1>1. SumFunction(f) = sum[D]
  BY DEF SumFunction, SumFunctionOnSet, FoldFunctionOnSet, MapThenFoldSet
<1>2. none = Body(none)
  <2>1. \A s \in SUBSET D : s = {}  OBVIOUS
  <2> HIDE DEF D, Some
  <2> QED  BY <2>1
<1>3. sum = Body(sum)
  <2> HIDE DEF Body, none
  <2> QED  BY <1>2
<1>4. sum[D] = 0
  <2>1. D \in SUBSET D /\ D = {}  OBVIOUS
  <2> HIDE DEF sum, D, Some
  <2> QED  BY <1>3, <2>1
<1> QED  BY <1>1, <1>4

(* A sum over the shots of which all but the last add the same.            *)
LEMMA SumOfEqual ==
  ASSUME NEW n \in Nat \ {0}, NEW f \in [1..n -> Int], NEW a \in Int,
         \A i \in 1..n - 1 : f[i] = a
  PROVE  SumFunction(f) = (n - 1) * a + f[n]
<1> DEFINE D == 1..n
           Some(s) == CHOOSE x \in s : TRUE
           Body(g) == [s \in SUBSET D |-> IF s = {} THEN 0 ELSE f[Some(s)] + g[s \ {Some(s)}]]
           sum == CHOOSE g : g = Body(g)
<1>1. SumFunction(f) = sum[D]
  BY DEF SumFunction, SumFunctionOnSet, FoldFunctionOnSet, MapThenFoldSet
<1>2. IsFiniteSet(D)  BY FS_Interval
<1>3. \A s \in SUBSET D : s # {} => Some(s) \in s
  OBVIOUS
<1>4. sum = Body(sum)
  <2> DEFINE pick == [s \in SUBSET D |-> Some(s)]
             step == [x \in D |-> [v \in Int |-> f[x] + v]]
  <2>1. \A s \in SUBSET D : s # {} => pick[s] = Some(s) /\ pick[s] \in s
    BY <1>3
  <2>2. \A x \in D, v \in Int : step[x][v] = f[x] + v /\ step[x][v] \in Int
    OBVIOUS
  <2>3. \E g \in [SUBSET D -> Int] : \A s \in SUBSET D :
          /\ s = {} => g[s] = 0
          /\ s # {} => g[s] = step[pick[s]][g[s \ {pick[s]}]]
    <3>1. \A s \in SUBSET D : s # {} => pick[s] \in s  BY <2>1
    <3>2. \A x \in D, v \in Int : step[x][v] \in Int  BY <2>2
    <3> HIDE DEF D, pick, step
    <3>3. Stepwise(D, Int, 0, pick, step)
      BY <1>2, <3>1, <3>2 DEF Stepwise
    <3>4. PICK g : Computes(D, Int, 0, pick, step, g)  BY <3>3, SetRecursion
    <3> QED  BY <3>4 DEF Computes
  <2>4. PICK g \in [SUBSET D -> Int] : \A s \in SUBSET D :
          /\ s = {} => g[s] = 0
          /\ s # {} => g[s] = step[pick[s]][g[s \ {pick[s]}]]
    BY <2>3
  <2>5. ASSUME NEW s \in SUBSET D, s # {}  PROVE g[s] = f[Some(s)] + g[s \ {Some(s)}]
    <3>1. Some(s) \in D /\ s \ {Some(s)} \in SUBSET D  BY <1>3, <2>5
    <3>2. g[s \ {Some(s)}] \in Int  BY <3>1
    <3>3. step[Some(s)][g[s \ {Some(s)}]] = f[Some(s)] + g[s \ {Some(s)}]
      <4> HIDE DEF D, step, Some
      <4> QED  BY <2>2, <3>1, <3>2
    <3>4. pick[s] = Some(s) /\ g[s] = step[pick[s]][g[s \ {pick[s]}]]
      <4> HIDE DEF D, step, Some, pick
      <4> QED  BY <2>1, <2>4, <2>5
    <3> HIDE DEF D, pick, step, Some
    <3> QED  BY <3>3, <3>4
  <2>6. g = Body(g)
    <3>1. \A s \in SUBSET D : g[s] = Body(g)[s]
      <4> HIDE DEF D, Some
      <4> QED  BY <2>4, <2>5
    <3> HIDE DEF D, Some
    <3> QED  BY <3>1
  <2> HIDE DEF Body
  <2> QED  BY <2>6
<1> DEFINE Total(s) == Cardinality(s \ {n}) * a + (IF n \in s THEN f[n] ELSE 0)
           Good == {s \in SUBSET D : sum[s] = Total(s)}
<1>5. ASSUME NEW s \in SUBSET D, \A x \in s : s \ {x} \in Good  PROVE sum[s] = Total(s)
  <2> DEFINE x == Some(s)
             r == s \ {x}
             k == Cardinality(r \ {n})
  <2>0. sum[s] = IF s = {} THEN 0 ELSE f[x] + sum[r]
    <3> HIDE DEF sum, D, Some
    <3> QED BY <1>4
  <2>1. CASE s = {}
    <3>1. s \ {n} = {} /\ n \notin s  BY <2>1
    <3>2. Cardinality(s \ {n}) = 0  BY <3>1, FS_EmptySet
    <3> HIDE DEF sum
    <3> QED  BY <2>0, <2>1, <3>1, <3>2
  <2>2. CASE s # {}
    <3>1. x \in s /\ x \in D /\ r \in Good /\ IsFiniteSet(s) /\ IsFiniteSet(r)
      BY <1>2, <1>3, <1>5, <2>2, FS_Subset
    <3>2. sum[s] = f[x] + Total(r)
      <4> HIDE DEF sum, Total, x, r
      <4> QED BY <2>0, <2>2, <3>1
    <3>3. f[x] \in Int /\ f[n] \in Int /\ k \in Nat
      <4>1. IsFiniteSet(r \ {n})  BY <3>1, FS_Subset
      <4> HIDE DEF r, x
      <4> QED  BY <3>1, <4>1, FS_CardinalityType
    <3>4. CASE x = n
      <4>1. n \in s /\ n \notin r /\ s \ {n} = r \ {n}  BY <3>1, <3>4
      <4>4. k * a \in Int  BY <3>3
      <4>2. Total(r) = k * a
        <5>1. Total(r) = k * a + 0  BY <4>1
        <5> HIDE DEF k, Total
        <5> QED  BY <4>4, <5>1
      <4>3. Total(s) = k * a + f[n]  BY <4>1
      <4> HIDE DEF sum, x, r, k, Total
      <4> QED  BY <3>2, <3>3, <3>4, <4>2, <4>3, <4>4
    <3>5. CASE x # n
      <4>1. /\ r \ {n} = (s \ {n}) \ {x} /\ x \in s \ {n} /\ IsFiniteSet(s \ {n})
            /\ n \in s <=> n \in r
        BY <3>1, <3>5, FS_Subset
      <4>2. Cardinality(s \ {n}) = k + 1
        <5>1. Cardinality((s \ {n}) \ {x}) = Cardinality(s \ {n}) - 1
          BY <4>1, FS_RemoveElement
        <5>2. Cardinality(s \ {n}) \in Nat  BY <4>1, FS_CardinalityType
        <5>3. k = Cardinality((s \ {n}) \ {x})  BY <4>1
        <5> HIDE DEF x, r, k
        <5> QED  BY <5>1, <5>2, <5>3
      <4>3. x \in 1..n - 1 /\ f[x] = a
        <5> HIDE DEF x
        <5> QED BY <3>1, <3>5
      <4>4. (k + 1) * a = k * a + a /\ k * a \in Int  BY <3>3
      <4> DEFINE rest == IF n \in s THEN f[n] ELSE 0
      <4>5. Total(r) = k * a + rest  BY <4>1
      <4>6. Total(s) = (k + 1) * a + rest  BY <4>2
      <4>7. rest \in Int  BY <3>3
      <4> HIDE DEF sum, x, r, k, Total, rest
      <4> QED  BY <3>2, <4>3, <4>4, <4>5, <4>6, <4>7
    <3> QED  BY <3>4, <3>5
  <2> QED  BY <2>1, <2>2
<1>6. D \in Good
  <2>1. \A s \in SUBSET D : (\A x \in s : s \ {x} \in Good) => s \in Good
    <3> HIDE DEF sum, Total
    <3> QED BY <1>5
  <2>2. Good \in SUBSET SUBSET D  OBVIOUS
  <2> HIDE DEF Good, D
  <2> QED  BY <1>2, <2>1, <2>2, SubsetInduction
<1>7. Cardinality(D \ {n}) = n - 1 /\ n \in D
  <2>1. n \in D /\ IsFiniteSet(D)  BY <1>2
  <2>2. Cardinality(D) = n  BY FS_Interval
  <2> HIDE DEF D
  <2> QED  BY <2>1, <2>2, FS_RemoveElement
<1>8. sum[D] = (n - 1) * a + f[n]
  <2>1. sum[D] = Total(D)
    <3> HIDE DEF sum, D, Total
    <3> QED  BY <1>6
  <2>2. Total(D) = (n - 1) * a + f[n]
    <3> HIDE DEF sum, D
    <3> QED  BY <1>7
  <2> QED  BY <2>1, <2>2
<1> HIDE DEF sum, D
<1> QED  BY <1>1, <1>8

LEMMA CountIsPositive ==
  ASSUME NEW target \in Nat, NEW preferred \in Nat
  PROVE  ShotCount(target, preferred) \in Nat \ {0}
<1>1. CASE target < MinShot  BY <1>1 DEF ShotCount
<1>2. CASE ~(target < MinShot)
  <2>1. target >= MinShot  BY <1>2 DEF MinShot, Second
  <2> QED  BY <2>1, CountFitsTarget
<1> QED  BY <1>1, <1>2

LEMMA AssembledLength ==
  ASSUME NEW answer, Len(ShotItems(answer)) \in Nat, NEW story, NEW target \in Nat
  PROVE  LET n == Count(answer, target)
         IN /\ n = ShotCount(target, Len(ShotItems(answer)))
            /\ n \in Nat \ {0}
            /\ Len(Assembled(answer, story, target).shots) = n
            /\ DOMAIN Assembled(answer, story, target).shots = 1..n
<1> DEFINE n == Count(answer, target)
           shots == Assembled(answer, story, target).shots
<1>1. n = ShotCount(target, Len(ShotItems(answer)))
  BY DEF Count
<1>2. n \in Nat \ {0}  BY <1>1, CountIsPositive
<1>3. DOMAIN shots = 1..n  BY AssembledShots
<1>4. PICK T : shots \in Seq(T)
  <2>1. \E T : shots \in [1..n -> T]  BY AssembledShots
  <2> HIDE DEF n, shots
  <2> QED  BY <1>2, <2>1
<1> HIDE DEF n, shots
<1>5. Len(shots) = n
  <2>1. Len(shots) \in Nat /\ 1..Len(shots) = 1..n  BY <1>3, <1>4, LenProperties
  <2> QED  BY <1>2, <2>1
<1> QED BY <1>1, <1>2, <1>3, <1>5 DEF n, shots

LEMMA ShareIsInt ==
  ASSUME NEW target \in Nat, NEW count \in Nat \ {0}
  PROVE  Share(target, count) \in Int
BY Quotient, 2 * target + count \in Int, 2 * count \in Nat \ {0} DEF Share, RoundHalfUp

LEMMA AssembledIsExact ==
  ASSUME NEW answer, Len(ShotItems(answer)) \in Nat, NEW story, NEW target \in Nat
  PROVE  Exact(Assembled(answer, story, target))
<1> DEFINE n == Count(answer, target)
           p == Assembled(answer, story, target)
           f == [i \in DOMAIN p.shots |-> p.shots[i].duration]
           share == Share(target, n)
<1>1. n \in Nat \ {0} /\ DOMAIN p.shots = 1..n  BY AssembledLength
<1>2. \A i \in 1..n : p.shots[i].duration = Duration(target, n, i)
  BY <1>1, AssembledShots
<1>3. p.target = target  BY AssembledShots
<1>4. share \in Int  BY <1>1, ShareIsInt
<1>5. Exact(p) <=> SumFunction(f) = target  
  <2> HIDE DEF p
  <2> QED BY <1>3 DEF Exact, PlannedDuration
<1> HIDE DEF n, p
<1>6. \A i \in 1..n : f[i] = Duration(target, n, i)  BY <1>1, <1>2
<1>7. /\ \A i \in 1..n - 1 : f[i] = share
      /\ f[n] = target - (n - 1) * share
  <2> HIDE DEF share, f
  <2> QED  BY <1>1, <1>6 DEF Duration, Remainder, share
<1>8. f \in [1..n -> Int]
  <2>1. (n - 1) * share \in Int
    <3> HIDE DEF share
    <3> QED  BY <1>1, <1>4
  <2>2. \A i \in 1..n : f[i] \in Int
    <3> HIDE DEF share, f
    <3> QED BY <1>1, <1>4, <1>7, <2>1
  <2>3. f = [i \in 1..n |-> f[i]]  BY <1>1
  <2> HIDE DEF f
  <2> QED BY <2>2, <2>3
<1>9. SumFunction(f) = (n - 1) * share + f[n]
  <2> HIDE DEF f, share
  <2> QED  BY <1>1, <1>4, <1>7, <1>8, SumOfEqual
<1>10. (n - 1) * share + (target - (n - 1) * share) = target
  <2>1. (n - 1) * share \in Int
    <3> HIDE DEF share
    <3> QED  BY <1>1, <1>4
  <2> HIDE DEF share
  <2> QED BY <2>1
<1> QED
  <2> HIDE DEF f, share
  <2> QED  BY <1>5, <1>7, <1>9, <1>10 DEF p

(* No two places of a list hold the same. *)
Unrepeated(s) == \A a, b \in 1..Len(s) : s[a] = s[b] => a = b

LEMMA LastOf ==
  ASSUME NEW D \in SUBSET Int, IsFiniteSet(D), NEW s \in SUBSET D, s # {}
  PROVE  Max(s) \in s
<1>1. IsFiniteSet(s) /\ s \in SUBSET Int  BY FS_Subset
<1> QED  BY <1>1, LargestOf DEF Max, Largest

LEMMA AppendUnrepeated ==
  ASSUME NEW C, NEW s \in Seq(C), Unrepeated(s), NEW c \in C, \A a \in 1..Len(s) : s[a] # c
  PROVE  /\ Append(s, c) \in Seq(C) /\ Unrepeated(Append(s, c))
         /\ Len(Append(s, c)) = Len(s) + 1
<1> DEFINE t == Append(s, c)
<1>1. /\ t \in Seq(C) /\ Len(t) = Len(s) + 1 /\ t[Len(s) + 1] = c
      /\ \A a \in 1..Len(s) : t[a] = s[a]
  BY AppendProperties
<1>2. Len(s) \in Nat  OBVIOUS
<1> HIDE DEF t
<1>3. \A a \in 1..Len(t) : a \in 1..Len(s) \/ a = Len(s) + 1
  BY <1>1, <1>2
<1>4. Unrepeated(t)  BY <1>1, <1>3 DEF Unrepeated
<1> QED  BY <1>1, <1>4 DEF t

LEMMA CastIsOnce ==
  ASSUME NEW f, IsFiniteSet(DOMAIN f), DOMAIN f \in SUBSET Int,
         NEW C, \A k \in DOMAIN f : f[k] \in C
  PROVE  FoldLeft(Also, <<>>, f) \in {s \in Seq(C \ {NoId}) : Unrepeated(s)}
<1> DEFINE D == DOMAIN f
           V == {s \in Seq(C \ {NoId}) : Unrepeated(s)}
           Top(s) == Max(s)
           Body(g) == [s \in SUBSET D |-> IF s = {} THEN <<>>
                                          ELSE Also(g[s \ {Top(s)}], f[Top(s)])]
           cast == CHOOSE g : g = Body(g)
<1>1. FoldLeft(Also, <<>>, f) = cast[D]
  BY DEF FoldLeft, MapThenFoldSet
<1>2. \A s \in SUBSET D : s # {} => Top(s) \in s
  BY LastOf
<1>3. ASSUME NEW v \in V, NEW c \in C  PROVE Also(v, c) \in V
  <2>1. CASE c = NoId \/ Contains(v, c)  BY <2>1 DEF Also
  <2>2. CASE ~(c = NoId \/ Contains(v, c))
    <3>1. Also(v, c) = Append(v, c)  BY <2>2 DEF Also
    <3>2. \A a \in 1..Len(v) : v[a] # c  BY <2>2 DEF Contains
    <3>3. c \in C \ {NoId}  BY <2>2
    <3> QED  BY <3>1, <3>2, <3>3, AppendUnrepeated
  <2> QED  BY <2>1, <2>2
<1>4. <<>> \in V  BY DEF Unrepeated
<1>5. cast = Body(cast)
  <2> DEFINE pick == [s \in SUBSET D |-> Top(s)]
             step == [x \in D |-> [v \in V |-> Also(v, f[x])]]
  <2>1. \A s \in SUBSET D : s # {} => pick[s] = Top(s) /\ pick[s] \in s
    BY <1>2
  <2>2. \A x \in D, v \in V : step[x][v] = Also(v, f[x]) /\ step[x][v] \in V
    <3> HIDE DEF V
    <3> QED  BY <1>3
  <2>3. \E g : Computes(D, V, <<>>, pick, step, g)
    <3>1. \A s \in SUBSET D : s # {} => pick[s] \in s  BY <2>1
    <3>2. \A x \in D, v \in V : step[x][v] \in V  BY <2>2
    <3>3. IsFiniteSet(D)  OBVIOUS
    <3> HIDE DEF D, V, pick, step
    <3>4. Stepwise(D, V, <<>>, pick, step)
      BY <1>4, <3>1, <3>2, <3>3 DEF Stepwise
    <3> QED  BY <3>4, SetRecursion
  <2>4. PICK g \in [SUBSET D -> V] : \A s \in SUBSET D :
          /\ s = {} => g[s] = <<>>
          /\ s # {} => g[s] = step[pick[s]][g[s \ {pick[s]}]]
    <3> HIDE DEF D, V, pick, step
    <3> QED  BY <2>3 DEF Computes
  <2>5. ASSUME NEW s \in SUBSET D, s # {}  PROVE g[s] = Also(g[s \ {Top(s)}], f[Top(s)])
    <3>1. Top(s) \in D /\ s \ {Top(s)} \in SUBSET D  BY <1>2, <2>5
    <3>2. g[s \ {Top(s)}] \in V
      <4> HIDE DEF D, V, Top
      <4> QED  BY <3>1
    <3>3. step[Top(s)][g[s \ {Top(s)}]] = Also(g[s \ {Top(s)}], f[Top(s)])
      <4> HIDE DEF D, V, step, Top
      <4> QED  BY <2>2, <3>1, <3>2
    <3>4. pick[s] = Top(s) /\ g[s] = step[pick[s]][g[s \ {pick[s]}]]
      <4> HIDE DEF D, V, step, Top, pick
      <4> QED  BY <2>1, <2>4, <2>5
    <3> HIDE DEF D, V, pick, step, Top
    <3> QED  BY <3>3, <3>4
  <2>6. g = Body(g)
    <3>1. \A s \in SUBSET D : g[s] = Body(g)[s]
      <4> HIDE DEF D, V, Top
      <4> QED  BY <2>4, <2>5
    <3> HIDE DEF D, V, Top
    <3> QED  BY <3>1
  <2> HIDE DEF Body
  <2> QED  BY <2>6
<1> DEFINE Good == {s \in SUBSET D : cast[s] \in V}
<1>6. ASSUME NEW s \in SUBSET D, \A x \in s : s \ {x} \in Good  PROVE cast[s] \in V
  <2>1. cast[s] = IF s = {} THEN <<>> ELSE Also(cast[s \ {Top(s)}], f[Top(s)])
    <3> HIDE DEF cast, D, Top
    <3> QED  BY <1>5
  <2>2. CASE s = {}
    <3> HIDE DEF cast, V
    <3> QED  BY <1>4, <2>1, <2>2
  <2>3. CASE s # {}
    <3>1. Top(s) \in s  BY <1>2, <2>3
    <3>2. cast[s \ {Top(s)}] \in V /\ f[Top(s)] \in C
      <4> HIDE DEF cast, V, Top
      <4> QED  BY <1>6, <3>1
    <3> HIDE DEF cast, V, Top
    <3> QED  BY <1>3, <2>1, <2>3, <3>2
  <2> QED  BY <2>2, <2>3
<1>7. D \in Good
  <2>1. \A s \in SUBSET D : (\A x \in s : s \ {x} \in Good) => s \in Good
    <3> HIDE DEF cast, V
    <3> QED  BY <1>6
  <2>2. Good \in SUBSET SUBSET D  OBVIOUS
  <2>3. IsFiniteSet(D)  OBVIOUS
  <2> HIDE DEF Good, D
  <2> QED  BY <2>1, <2>2, <2>3, SubsetInduction
<1>8. cast[D] \in V
  <2> HIDE DEF cast, V, D
  <2> QED  BY <1>7
<1>9. cast[D] \in {s \in Seq(C \ {NoId}) : Unrepeated(s)}  BY <1>8
<1> HIDE DEF cast, D
<1> QED  BY <1>1, <1>9, Zenon

LEMMA ListOf ==
  ASSUME NEW s, IsList(s)
  PROVE  /\ s \in Seq(Range(s)) /\ Len(s) \in Nat /\ DOMAIN s = 1..Len(s)
         /\ IsFiniteSet(DOMAIN s) /\ DOMAIN s \in SUBSET Int
         /\ s # <<>> => Len(s) # 0
<1>1. s \in Seq(Range(s))
  <2>1. Len(s) \in Nat /\ DOMAIN s = 1..Len(s)  BY DEF IsList
  <2>2. s \in [1..Len(s) -> Range(s)]  BY <2>1 DEF IsList, Range
  <2> QED  BY <2>1, <2>2
<1>2. Len(s) \in Nat /\ DOMAIN s = 1..Len(s)  BY <1>1
<1>3. s # <<>> => Len(s) # 0  BY <1>1, EmptySeq
<1> QED  BY <1>1, <1>2, <1>3, FS_Interval

LEMMA MadeList ==
  ASSUME NEW s, NEW n \in Nat, NEW T, s \in [1..n -> T]
  PROVE  IsList(s) /\ Len(s) = n
<1>1. s \in [1..n -> Range(s)]  BY DEF Range
<1>2. s \in Seq(Range(s)) /\ Len(s) = n  BY <1>1
<1> QED  BY <1>1, <1>2 DEF IsList

LEMMA SingleList ==
  ASSUME NEW x
  PROVE  IsList(<<x>>) /\ Len(<<x>>) = 1 /\ <<x>>[1] = x
<1>1. <<x>> \in [1..1 -> {x}]  OBVIOUS
<1> QED  BY <1>1, MadeList

LEMMA ItemsOf ==
  ASSUME NEW answer, Answered(answer)
  PROVE  LET chapters == ChapterItems(answer)
             scenes == SceneItems(answer)
             shots == ShotItems(answer)
         IN /\ IsList(chapters) /\ Len(chapters) \in Nat \ {0} /\ DOMAIN chapters = 1..Len(chapters)
            /\ IsList(scenes) /\ Len(scenes) \in Nat \ {0} /\ DOMAIN scenes = 1..Len(scenes)
            /\ IsList(shots) /\ Len(shots) \in Nat \ {0} /\ DOMAIN shots = 1..Len(shots)
            /\ \A s \in DOMAIN scenes : scenes[s].chapter \in Int
            /\ \A i \in DOMAIN shots : shots[i].scene \in Int /\ IsList(shots[i].cast)
<1>1. /\ IsList(answer.chapters) /\ IsList(answer.scenes) /\ IsList(answer.shots)
      /\ \A s \in DOMAIN answer.scenes : answer.scenes[s].chapter \in Int
      /\ \A i \in DOMAIN answer.shots : /\ answer.shots[i].scene \in Int
                                        /\ IsList(answer.shots[i].cast)
  BY DEF Answered, Named
<1>2. IsList(ChapterItems(answer)) /\ Len(ChapterItems(answer)) # 0
  <2>1. CASE answer.chapters # <<>>  BY <1>1, <2>1, ListOf DEF ChapterItems
  <2>2. CASE answer.chapters = <<>>  BY <2>2, SingleList DEF ChapterItems
  <2> QED  BY <2>1, <2>2
<1>3. /\ IsList(SceneItems(answer)) /\ Len(SceneItems(answer)) # 0
      /\ \A s \in DOMAIN SceneItems(answer) : SceneItems(answer)[s].chapter \in Int
  <2>1. CASE answer.scenes # <<>>  BY <1>1, <2>1, ListOf DEF SceneItems
  <2>2. CASE answer.scenes = <<>>
    <3> DEFINE x == [client |-> NoId, row |-> NoId, chapter |-> 0]
    <3>1. SceneItems(answer) = <<x>> /\ x.chapter \in Int  BY <2>2 DEF SceneItems
    <3> HIDE DEF x
    <3>2. DOMAIN <<x>> = {1}  OBVIOUS
    <3> QED  BY <3>1, <3>2, SingleList
  <2> QED  BY <2>1, <2>2
<1>4. /\ IsList(ShotItems(answer)) /\ Len(ShotItems(answer)) # 0
      /\ \A i \in DOMAIN ShotItems(answer) : /\ ShotItems(answer)[i].scene \in Int
                                               /\ IsList(ShotItems(answer)[i].cast)
  <2>1. CASE answer.shots # <<>>  BY <1>1, <2>1, ListOf DEF ShotItems
  <2>2. CASE answer.shots = <<>>
    <3> DEFINE x == OpeningShot
    <3>0. x.scene \in Int /\ x.cast = <<>>  BY DEF OpeningShot, Unset
    <3>1. ShotItems(answer) = <<x>>  BY <2>2 DEF ShotItems
    <3>2. IsList(<<>>)  BY DEF IsList
    <3> HIDE DEF x
    <3>3. DOMAIN <<x>> = {1}  OBVIOUS
    <3> QED  BY <3>0, <3>1, <3>2, <3>3, SingleList
  <2> QED  BY <2>1, <2>2
<1> QED  BY <1>2, <1>3, <1>4, ListOf

LEMMA TemplateOf ==
  ASSUME NEW answer, Answered(answer), NEW i \in Nat \ {0}
  PROVE  /\ Template(answer, i).scene \in Int
         /\ IsList(Template(answer, i).cast)
<1> DEFINE shots == ShotItems(answer)
<1>1. /\ Len(shots) \in Nat \ {0} /\ DOMAIN shots = 1..Len(shots)
      /\ \A k \in DOMAIN shots : shots[k].scene \in Int /\ IsList(shots[k].cast)
  BY ItemsOf
<1> HIDE DEF shots
<1>2. 1 + ((i - 1) % Len(shots)) \in DOMAIN shots  BY <1>1
<1>3. Template(answer, i) = shots[1 + ((i - 1) % Len(shots))]  BY DEF Template, shots
<1> QED  BY <1>1, <1>2, <1>3

LEMMA NamedOnce ==
  ASSUME NEW answer, Answered(answer), NEW story, NEW i \in Nat \ {0}
  PROVE  LET given == Template(answer, i).cast
             named == [k \in DOMAIN given |-> CharacterNamed(answer, story, given[k])]
             C == {CharacterNamed(answer, story, given[k]) : k \in DOMAIN given}
         IN FoldLeft(Also, <<>>, named) \in {s \in Seq(C \ {NoId}) : Unrepeated(s)}
<1> DEFINE given == Template(answer, i).cast
           named == [k \in DOMAIN given |-> CharacterNamed(answer, story, given[k])]
           C == {CharacterNamed(answer, story, given[k]) : k \in DOMAIN given}
           once == FoldLeft(Also, <<>>, named)
<1>1. IsFiniteSet(DOMAIN given) /\ DOMAIN given \in SUBSET Int
  BY TemplateOf, ListOf
<1>2. /\ IsFiniteSet(DOMAIN named) /\ DOMAIN named \in SUBSET Int
      /\ \A k \in DOMAIN named : named[k] \in C
  BY <1>1
<1>3. once \in {s \in Seq(C \ {NoId}) : Unrepeated(s)}
  <2> HIDE DEF named, C
  <2> QED  BY <1>2, CastIsOnce DEF once
<1> QED  BY <1>3

LEMMA CastOfIsOnce ==
  ASSUME NEW answer, Answered(answer), NEW story, NEW i \in Nat \ {0}
  PROVE  Unrepeated(CastOf(answer, story, i)) /\ IsList(CastOf(answer, story, i))
<1> DEFINE given == Template(answer, i).cast
           named == [k \in DOMAIN given |-> CharacterNamed(answer, story, given[k])]
           once == FoldLeft(Also, <<>>, named)
           characters == Characters(answer, story)
           C == {CharacterNamed(answer, story, given[k]) : k \in DOMAIN given}
<1>2. once \in {s \in Seq(C \ {NoId}) : Unrepeated(s)}
  BY NamedOnce
<1>3. CastOf(answer, story, i) = IF once = <<>> /\ characters # <<>>
                                   THEN <<characters[1].client>> ELSE once
  BY DEF CastOf
<1> HIDE DEF once, characters
<1>4. Unrepeated(once) /\ IsList(once)
  <2>1. once \in Seq(C \ {NoId}) /\ Unrepeated(once)  BY <1>2
  <2> HIDE DEF C
  <2>2. once \in [1..Len(once) -> C \ {NoId}] /\ Len(once) \in Nat  BY <2>1
  <2> QED  BY <2>1, <2>2, MadeList
<1>5. ASSUME NEW x  PROVE Unrepeated(<<x>>) /\ IsList(<<x>>)
  BY SingleList DEF Unrepeated
<1> QED  BY <1>3, <1>4, <1>5

LEMMA ChapterExists ==
  ASSUME NEW answer, Answered(answer), NEW s \in DOMAIN SceneItems(answer)
  PROVE  ChapterOf(answer, s) \in 1..Len(ChapterItems(answer))
<1> DEFINE raw == SceneItems(answer)[s].chapter
           last == Len(ChapterItems(answer))
<1>1. raw \in Int /\ last \in Nat \ {0}  BY ItemsOf
<1>2. ChapterOf(answer, s) =
        IF raw = Unset \/ raw < 0 THEN 1 ELSE IF raw >= last THEN last ELSE raw + 1
  BY DEF ChapterOf
<1> HIDE DEF raw, last
<1>3. ChapterOf(answer, s) \in 1..last  BY <1>1, <1>2
<1> QED  BY <1>3 DEF last

LEMMA SceneExists ==
  ASSUME NEW answer, Answered(answer), NEW target \in Nat,
         NEW i \in 1..Count(answer, target)
  PROVE  SceneOf(answer, target, i) \in 1..Len(SceneItems(answer))
<1> DEFINE scenes == Len(SceneItems(answer))
           count == Count(answer, target)
           raw == Template(answer, i).scene
           share == ((i - 1) * scenes) \div count
<1>0. SceneOf(answer, target, i) = 1 + (IF raw = Unset THEN share ELSE raw % scenes)
  BY DEF SceneOf
<1>1. scenes \in Nat \ {0}  BY ItemsOf
<1>2. count \in Nat \ {0}
  <2>1. Len(ShotItems(answer)) \in Nat  BY ItemsOf
  <2> QED  BY <2>1, AssembledLength
<1>3. i \in Nat \ {0} /\ i <= count
  <2>1. i \in 1..count  OBVIOUS
  <2> HIDE DEF count
  <2> QED  BY <1>2, <2>1
<1>4. raw \in Int  BY <1>3, TemplateOf
<1>5. share \in 0..scenes - 1
  <2> HIDE DEF scenes, count
  <2> DEFINE a == (i - 1) * scenes
  <2>1. a \in Nat /\ a <= (count - 1) * scenes
    BY <1>1, <1>2, <1>3
  <2>2. (count - 1) * scenes = count * scenes - scenes /\ count * scenes \in Int
    BY <1>1, <1>2
  <2> HIDE DEF a
  <2>3. a < count * scenes  BY <1>1, <2>1, <2>2
  <2> DEFINE q == a \div count
  <2>4. q \in Int /\ count * q <= a /\ a < count * q + count  BY <1>2, <2>1, Quotient
  <2> HIDE DEF q
  <2>5. q >= 0
    <3>1. ASSUME q <= 0 - 1  PROVE FALSE
      <4>1. count * q <= count * (0 - 1)  BY <1>2, <2>4, <3>1, Monotone
      <4> QED  BY <1>2, <2>1, <2>4, <4>1
    <3> QED  BY <2>4, <3>1
  <2>6. q < scenes
    <3>1. ASSUME scenes <= q  PROVE FALSE
      <4>1. count * scenes <= count * q  BY <1>1, <1>2, <2>4, <3>1, Monotone
      <4>2. count * q \in Int  BY <1>2, <2>4
      <4> QED  BY <2>1, <2>2, <2>3, <2>4, <4>1, <4>2
    <3> QED  BY <1>1, <2>4, <3>1
  <2> QED  BY <1>1, <2>4, <2>5, <2>6 DEF q, a
<1>6. raw % scenes \in 0..scenes - 1
  <2> HIDE DEF raw, scenes
  <2> QED  BY <1>1, <1>4
<1> HIDE DEF share, scenes, raw, count
<1>7. SceneOf(answer, target, i) \in 1..scenes  BY <1>0, <1>1, <1>5, <1>6
<1> QED  BY <1>7 DEF scenes

LEMMA AssembledIsShaped ==
  ASSUME NEW answer, Answered(answer), NEW story, NEW target \in Nat
  PROVE  Shaped(Assembled(answer, story, target))
<1> DEFINE p == Assembled(answer, story, target)
           chapters == ChapterItems(answer)
           scenes == SceneItems(answer)
           n == Count(answer, target)
<1>1. /\ Len(chapters) \in Nat /\ DOMAIN chapters = 1..Len(chapters)
      /\ Len(scenes) \in Nat /\ DOMAIN scenes = 1..Len(scenes)
      /\ Len(ShotItems(answer)) \in Nat
  BY ItemsOf
<1>2. n \in Nat /\ DOMAIN p.shots = 1..n  BY <1>1, AssembledLength
<1>3. /\ p.chapters = ChapterTree(answer) /\ p.scenes = SceneTree(answer)
      /\ \E T : p.shots \in [1..n -> T]
      /\ \A i \in 1..n : /\ p.shots[i].link \in {"none", "shot"}
                         /\ p.shots[i].scene = SceneOf(answer, target, i)
  <2> HIDE DEF chapters, scenes
  <2>1. \E T : p.shots \in [1..n -> T]  BY AssembledShots
  <2>2. p.chapters = ChapterTree(answer) /\ p.scenes = SceneTree(answer)
    BY AssembledShots
  <2>3. \A i \in 1..n : /\ p.shots[i].link \in {"none", "shot"}
                        /\ p.shots[i].scene = SceneOf(answer, target, i)
    BY AssembledShots
  <2> QED  BY <2>1, <2>2, <2>3
<1> HIDE DEF n, p
<1>4. IsList(p.chapters) /\ DOMAIN p.chapters = 1..Len(chapters)
  <2> DEFINE c == p.chapters
  <2>1. c = [x \in DOMAIN chapters |-> c[x]]  BY <1>3 DEF ChapterTree
  <2>2. c \in [1..Len(chapters) -> {c[x] : x \in DOMAIN chapters}]
    <3> HIDE DEF c, chapters
    <3> QED  BY <1>1, <2>1
  <2> HIDE DEF c, chapters
  <2>3. IsList(c)  BY <1>1, <2>2, MadeList
  <2> QED  BY <1>1, <2>2, <2>3 DEF c
<1>5. /\ IsList(p.scenes) /\ DOMAIN p.scenes = 1..Len(scenes)
      /\ \A s \in DOMAIN scenes : p.scenes[s].chapter = ChapterOf(answer, s)
  <2> DEFINE c == p.scenes
  <2>0. \A s \in DOMAIN scenes : c[s].chapter = ChapterOf(answer, s)
    BY <1>3 DEF SceneTree
  <2>1. c = [x \in DOMAIN scenes |-> c[x]]  BY <1>3 DEF SceneTree
  <2>2. c \in [1..Len(scenes) -> {c[x] : x \in DOMAIN scenes}]
    <3> HIDE DEF c, scenes
    <3> QED  BY <1>1, <2>1
  <2> HIDE DEF c, scenes
  <2>3. IsList(c)  BY <1>1, <2>2, MadeList
  <2> QED  BY <1>1, <2>0, <2>2, <2>3 DEF c
<1>6. IsList(p.shots)  BY <1>2, <1>3, MadeList
<1>7. ASSUME NEW s \in DOMAIN p.scenes  PROVE p.scenes[s].chapter \in DOMAIN p.chapters
  BY <1>1, <1>4, <1>5, <1>7, ChapterExists
<1>8. ASSUME NEW i \in DOMAIN p.shots
      PROVE  /\ p.shots[i].scene \in DOMAIN p.scenes
             /\ p.shots[i].link \in {"none", "shot", "image"}
  <2>1. i \in 1..Count(answer, target)  BY <1>2, <1>8 DEF n
  <2>2. SceneOf(answer, target, i) \in 1..Len(scenes)  BY <2>1, SceneExists
  <2> QED  BY <1>2, <1>3, <1>5, <2>2
<1>9. p.target \in Int  BY AssembledShots DEF p
<1>10. Shaped(p)  BY <1>4, <1>5, <1>6, <1>7, <1>8, <1>9 DEF Shaped
<1> QED  BY <1>10 DEF p

-----------------------------------------------------------------------------
(* The rules a plan has passed at each stage *)

LEMMA NoneBroken ==
  ASSUME NEW holds, Broken(holds) = {}, NEW rule \in DOMAIN holds
  PROVE  holds[rule]
BY DEF Broken

LEMMA SharedHold ==
  ASSUME NEW p, Broken(SharedRules(p)) = {}
  PROVE  /\ Ordered(p) /\ Exact(p) /\ AllAssigned(p)
         /\ \A i \in DOMAIN p.shots : /\ Justified(p.shots[i]) /\ Told(p.shots[i])
                                      /\ Linked(p.shots[i])
<1> DEFINE holds == SharedRules(p)
<1>1. \A rule \in DOMAIN holds : holds[rule]
  BY NoneBroken
<1>2. /\ "order" \in DOMAIN holds /\ "exact" \in DOMAIN holds /\ "assigned" \in DOMAIN holds
      /\ "override" \in DOMAIN holds /\ "narration" \in DOMAIN holds /\ "link" \in DOMAIN holds
  BY DEF SharedRules
<1>3. /\ holds["order"] /\ holds["exact"] /\ holds["assigned"]
      /\ holds["override"] /\ holds["narration"] /\ holds["link"]
  <2> HIDE DEF holds
  <2> QED  BY <1>1, <1>2
<1>4. Ordered(p) /\ Exact(p) /\ AllAssigned(p)
  BY <1>3 DEF SharedRules
<1>5. /\ AllShots(p, Justified) /\ AllShots(p, Told) /\ AllShots(p, Linked)
  BY <1>3 DEF SharedRules
<1> QED  BY <1>4, <1>5 DEF AllShots

LEMMA ValidatorHold ==
  ASSUME NEW p, NEW voices, ValidatorErrors(p, voices) = {}
  PROVE  /\ Broken(SharedRules(p)) = {}
         /\ p.chapters # <<>> /\ p.shots # <<>> /\ Forward(p)
         /\ \A i \in DOMAIN p.shots : /\ SourceInPlan(p, p.shots[i]) /\ Cast(p, p.shots[i])
                                      /\ Voiced(p, p.shots[i])
<1> DEFINE holds ==
    [names |-> NamesUniqueWithin(p),
     source |-> AllShots(p, LAMBDA shot : SourceInPlan(p, shot)),
     cast |-> AllShots(p, LAMBDA shot : Cast(p, shot)),
     voice |-> AllShots(p, LAMBDA shot : Voiced(p, shot)),
     qwen |-> AllShots(p, QwenAllowed),
     factual |-> AllShots(p, Factual),
     empty |-> p.chapters # <<>> /\ p.shots # <<>>,
     forward |-> Forward(p),
     preserved |-> VoicesPreserved(p, voices)]
<1>0. ValidatorErrors(p, voices) = Broken(SharedRules(p)) \cup Broken(holds)
  BY DEF ValidatorErrors
<1>1. Broken(SharedRules(p)) = {} /\ Broken(holds) = {}
  <2> HIDE DEF holds
  <2> QED  BY <1>0
<1>2. \A rule \in DOMAIN holds : holds[rule]
  <2> HIDE DEF holds
  <2> QED  BY <1>1, NoneBroken
<1>3. /\ "source" \in DOMAIN holds /\ "cast" \in DOMAIN holds /\ "voice" \in DOMAIN holds
      /\ "empty" \in DOMAIN holds /\ "forward" \in DOMAIN holds
  OBVIOUS
<1>4. holds["source"] /\ holds["cast"] /\ holds["voice"] /\ holds["empty"] /\ holds["forward"]
  <2> HIDE DEF holds
  <2> QED  BY <1>2, <1>3
<1>5. /\ p.chapters # <<>> /\ p.shots # <<>> /\ Forward(p)
      /\ AllShots(p, LAMBDA shot : SourceInPlan(p, shot))
      /\ AllShots(p, LAMBDA shot : Cast(p, shot))
      /\ AllShots(p, LAMBDA shot : Voiced(p, shot))
  BY <1>4
<1> QED  BY <1>1, <1>5 DEF AllShots

LEMMA WritableSources ==
  ASSUME NEW p, WriteErrors(p) = {}
  PROVE  \A i \in DOMAIN p.shots : p.shots[i].source \in Clients(p.shots) \cup {NoId}
<1>1. "source" \in DOMAIN WriteRules(p)  BY DEF WriteRules
<1>2. WriteRules(p)["source"]  BY <1>1, NoneBroken DEF WriteErrors
<1>3. AllShots(p, LAMBDA shot : shot.source \in Clients(p.shots) \cup {NoId})
  BY <1>2 DEF WriteRules
<1> QED  BY <1>3 DEF AllShots

(* What a proposal has gone through at each stage. *)
PlanInv ==
  /\ before \in Stories /\ asked \in PlanRequests
  /\ IF stage = "asked" THEN proposal = NoPlan
     ELSE \/ /\ asked.by = "engine"
             /\ proposal = Assembled(asked.answer, Context, asked.target)
          \/ asked.by = "author" /\ proposal = asked.plan
  /\ stage \in {"proposed", "recorded", "applied", "refused"} => SchemaErrors(proposal) = {}
  /\ stage \in {"recorded", "applied", "refused"} =>
       ValidatorErrors(proposal, BaseVoices) = {}
  /\ stage = "applied" =>
       \A i \in DOMAIN proposal.shots :
         proposal.shots[i].source \in Clients(proposal.shots) \cup {NoId}

LEMMA PlanStart == PlanInit => PlanInv
BY DEF PlanInit, PlanInv

LEMMA PlanStep ==
  ASSUME PlanInv, [PlanNext]_planVars
  PROVE  PlanInv'
<1>0. ASSUME before' = before  PROVE Context' = Context /\ BaseVoices' = BaseVoices
  BY <1>0 DEF Context, BaseVoices, IdentitySnapshot
<1>1. CASE Assemble  BY <1>0, <1>1 DEF PlanInv, Assemble
<1>2. CASE Submit  BY <1>2 DEF PlanInv, Submit
<1>3. CASE Validate  BY <1>0, <1>3 DEF PlanInv, Validate
<1>4. CASE ApplyPlan
  <2>1. before' = before /\ asked' = asked /\ proposal' = proposal  BY <1>4 DEF ApplyPlan
  <2>2. stage' = IF WriteErrors(proposal) = {} THEN "applied" ELSE "refused"
    BY <1>4 DEF ApplyPlan
  <2>3. stage' = "applied" =>
          \A i \in DOMAIN proposal.shots :
            proposal.shots[i].source \in Clients(proposal.shots) \cup {NoId}
    BY <2>2, WritableSources
  <2>4. stage = "recorded"  BY <1>4 DEF ApplyPlan
  <2> QED  BY <1>0, <2>1, <2>2, <2>3, <2>4 DEF PlanInv
<1>5. CASE UNCHANGED planVars
  <2>1. before' = before /\ asked' = asked /\ proposal' = proposal /\ stage' = stage
    BY <1>5 DEF planVars
  <2> QED  BY <1>0, <2>1 DEF PlanInv
<1> QED  BY <1>1, <1>2, <1>3, <1>4, <1>5 DEF PlanNext

THEOREM PlansAreChecked == PlanSpec => []PlanInv
<1>1. PlanInv /\ [PlanNext]_planVars => PlanInv'  BY PlanStep
<1> QED  BY PlanStart, <1>1, PTL DEF PlanSpec

LEMMA EngineAsked ==
  ASSUME PlanInv, asked.by = "engine"
  PROVE  asked.target \in Nat /\ Answered(asked.answer)
BY InputsAssumption DEF PlanInv

LEMMA PlanShaped ==
  ASSUME PlanInv, stage # "asked"
  PROVE  Shaped(proposal)
<1>1. CASE asked.by = "engine" /\ proposal = Assembled(asked.answer, Context, asked.target)
  BY <1>1, EngineAsked, AssembledIsShaped
<1>2. CASE asked.by = "author" /\ proposal = asked.plan
  BY <1>2, InputsAssumption DEF PlanInv
<1> QED  BY <1>1, <1>2 DEF PlanInv

LEMMA AssembledFits ==
  ASSUME NEW answer, Answered(answer), NEW story, NEW target \in Nat, target >= MinShot
  PROVE  LET p == Assembled(answer, story, target)
         IN \A i \in DOMAIN p.shots :
              \/ InPolicy(p.shots[i])
              \/ /\ i = Len(p.shots)
                 /\ 2 * p.shots[i].duration \in
                      2 * MinShot - Len(p.shots)..2 * MaxShot + Len(p.shots)
<1> DEFINE p == Assembled(answer, story, target)
           preferred == Len(ShotItems(answer))
           n == ShotCount(target, preferred)
<1>0. MinShot \in Int /\ MaxShot \in Int
  BY DEF MinShot, MaxShot, Second
<1>1. preferred \in Nat /\ target >= MinShot  BY <1>0, ItemsOf
<1>2. /\ Count(answer, target) = n /\ n \in Nat \ {0} /\ Len(p.shots) = n
      /\ DOMAIN p.shots = 1..n
  BY <1>1, AssembledLength
<1>3. \A i \in 1..n : p.shots[i].duration = Duration(target, n, i)
  BY <1>2, AssembledShots
<1> HIDE DEF p, n, preferred
<1>4. ASSUME NEW i \in 1..n
      PROVE \/ Duration(target, n, i) \in MinShot..MaxShot
            \/ i = n /\ 2 * Duration(target, n, i) \in 2 * MinShot - n..2 * MaxShot + n
  BY <1>1, EveryShotFits DEF n
<1>5. ASSUME NEW i \in DOMAIN p.shots
      PROVE  \/ InPolicy(p.shots[i])
             \/ /\ i = Len(p.shots)
                /\ 2 * p.shots[i].duration \in
                     2 * MinShot - Len(p.shots)..2 * MaxShot + Len(p.shots)
  <2>1. i \in 1..n /\ p.shots[i].duration = Duration(target, n, i)  BY <1>2, <1>3
  <2>2. CASE Duration(target, n, i) \in MinShot..MaxShot
    <3>1. MinShot <= p.shots[i].duration /\ p.shots[i].duration <= MaxShot
      BY <1>0, <2>1, <2>2
    <3>2. InPolicy(p.shots[i])  BY <1>0, <3>1 DEF InPolicy
    <3> QED  BY <3>2
  <2>3. CASE i = n /\ 2 * Duration(target, n, i) \in 2 * MinShot - n..2 * MaxShot + n
    <3>1. /\ i = Len(p.shots) /\ n = Len(p.shots)
          /\ p.shots[i].duration = Duration(target, n, i)
      BY <1>2, <2>1, <2>3
    <3>2. 2 * Duration(target, n, i) \in 2 * MinShot - n..2 * MaxShot + n
      BY <1>0, <2>3
    <3> QED  BY <3>1, <3>2
  <2> QED  BY <1>4, <2>1, <2>2, <2>3
<1> QED  BY <1>5 DEF p

(* ShotsFitPolicy: whatever the providers list and however long the story   *)
(* shall be, build_proposal_payload divides the target exactly, and only    *)
(* the last shot may leave the policy range, by the rounding of the others. *)
THEOREM AssembledPlansFit == PlanSpec => []ShotsFitPolicy
<1>1. ASSUME PlanInv  PROVE ShotsFitPolicy
  <2> SUFFICES ASSUME asked.by = "engine", proposal # NoPlan
               PROVE  /\ Exact(proposal)
                      /\ asked.target >= MinShot =>
                           \A i \in DOMAIN proposal.shots :
                             \/ InPolicy(proposal.shots[i])
                             \/ /\ i = Len(proposal.shots)
                                /\ 2 * proposal.shots[i].duration \in
                                     2 * MinShot - Len(proposal.shots)
                                       ..2 * MaxShot + Len(proposal.shots)
    BY DEF ShotsFitPolicy
  <2>1. asked.target \in Nat /\ Answered(asked.answer)  BY <1>1, EngineAsked
  <2>2. proposal = Assembled(asked.answer, Context, asked.target)  BY <1>1 DEF PlanInv
  <2>3. Exact(proposal)
    <3>1. Len(ShotItems(asked.answer)) \in Nat  BY <2>1, ItemsOf
    <3> QED  BY <2>1, <2>2, <3>1, AssembledIsExact
  <2>4. ASSUME asked.target >= MinShot
        PROVE  \A i \in DOMAIN proposal.shots :
                 \/ InPolicy(proposal.shots[i])
                 \/ /\ i = Len(proposal.shots)
                    /\ 2 * proposal.shots[i].duration \in
                         2 * MinShot - Len(proposal.shots)..2 * MaxShot + Len(proposal.shots)
    BY <2>1, <2>2, <2>4, AssembledFits
  <2> QED  BY <2>3, <2>4
<1>2. PlanInv => ShotsFitPolicy  BY <1>1
<1> QED  BY PlansAreChecked, <1>2, PTL

LEMMA OrdersAreNumbers ==
  ASSUME NEW p, Shaped(p), Ordered(p), NEW i \in DOMAIN p.shots
  PROVE  \A k \in 1..3 : Place(p, i)[k] \in Int
<1> DEFINE s == p.shots[i].scene
           c == p.scenes[s].chapter
<1>1. s \in DOMAIN p.scenes /\ c \in DOMAIN p.chapters  BY DEF Shaped
<1>2. \A items, group : Contiguous(items, group) => \A j \in group : items[j].order \in Int
  BY DEF Contiguous
<1>3. /\ Contiguous(p.chapters, DOMAIN p.chapters)
      /\ Contiguous(p.scenes, ScenesOf(p, c)) /\ Contiguous(p.shots, ShotsOf(p, s))
  BY <1>1 DEF Ordered
<1>4. s \in ScenesOf(p, c) /\ i \in ShotsOf(p, s)
  BY <1>1 DEF ScenesOf, ShotsOf
<1>5. p.chapters[c].order \in Int /\ p.scenes[s].order \in Int /\ p.shots[i].order \in Int
  BY <1>1, <1>2, <1>3, <1>4
<1>6. Place(p, i) = <<p.chapters[c].order, p.scenes[s].order, p.shots[i].order>>
  BY DEF Place
<1>7. /\ Place(p, i)[1] \in Int /\ Place(p, i)[2] \in Int /\ Place(p, i)[3] \in Int
  <2> HIDE DEF s, c
  <2> QED  BY <1>5, <1>6
<1>8. \A k \in 1..3 : k = 1 \/ k = 2 \/ k = 3  OBVIOUS
<1> QED  BY <1>7, <1>8

LEMMA NotBeforeItself ==
  ASSUME NEW p, Shaped(p), Ordered(p), NEW i \in DOMAIN p.shots
  PROVE  ~Earlier(Place(p, i), Place(p, i))
<1> DEFINE place == Place(p, i)
<1>1. DOMAIN place = 1..3  BY DEF Place
<1>2. \A k \in 1..3 : place[k] \in Int  BY OrdersAreNumbers
<1> HIDE DEF place
<1>3. ~Earlier(place, place)  BY <1>1, <1>2 DEF Earlier
<1> QED  BY <1>3 DEF place

LEMMA NothingOmitted ==
  ASSUME NEW p, Shaped(p), ~Repeats(p)
  PROVE  Remaining(p) = DOMAIN p.shots
<1>1. /\ \A x \in DOMAIN p.chapters : x \in Int
      /\ \A x \in DOMAIN p.scenes : x \in Int
      /\ \A x \in DOMAIN p.shots : x \in Int
  <2>1. IsList(p.chapters) /\ IsList(p.scenes) /\ IsList(p.shots)  BY DEF Shaped
  <2> QED  BY <2>1, ListOf
<1>2. /\ \A c, d \in DOMAIN p.chapters : ChapterRow(p, c) = ChapterRow(p, d) => c = d
      /\ \A s, t \in DOMAIN p.scenes : SceneRow(p, s) = SceneRow(p, t) => s = t
      /\ \A i, j \in DOMAIN p.shots : ShotRow(p, i) = ShotRow(p, j) => i = j
  BY DEF Repeats
<1>3. ASSUME NEW i \in DOMAIN p.shots
      PROVE  LET s == p.shots[i].scene
                 c == p.scenes[s].chapter
             IN /\ \A d \in {e \in DOMAIN p.chapters : ScenesOf(p, e) # {}} :
                     ChapterRow(p, d) = ChapterRow(p, c) => d <= c
                /\ \A t \in ScenesOf(p, c) : SceneRow(p, t) = SceneRow(p, s) => t <= s
                /\ \A j \in ShotsOf(p, s) : ShotRow(p, j) = ShotRow(p, i) => j <= i
  <2> DEFINE s == p.shots[i].scene
             c == p.scenes[s].chapter
  <2>1. s \in DOMAIN p.scenes /\ c \in DOMAIN p.chapters  BY DEF Shaped
  <2>2. ScenesOf(p, c) \subseteq DOMAIN p.scenes /\ ShotsOf(p, s) \subseteq DOMAIN p.shots
    BY DEF ScenesOf, ShotsOf
  <2> HIDE DEF s, c
  <2>3. \A d \in DOMAIN p.chapters : ChapterRow(p, d) = ChapterRow(p, c) => d <= c
    BY <1>1, <1>2, <2>1
  <2>4. \A t \in ScenesOf(p, c) : SceneRow(p, t) = SceneRow(p, s) => t <= s
    BY <1>1, <1>2, <2>1, <2>2
  <2>5. \A j \in ShotsOf(p, s) : ShotRow(p, j) = ShotRow(p, i) => j <= i
    BY <1>1, <1>2, <2>2
  <2> QED  BY <2>3, <2>4, <2>5 DEF s, c
<1> QED  BY <1>3 DEF Remaining

LEMMA LinkedOnce ==
  ASSUME NEW p, NEW i \in DOMAIN p.shots, IsList(p.shots[i].cast), Unrepeated(p.shots[i].cast),
         Cast(p, p.shots[i]), ~Repeats(p)
  PROVE  IsInjective(LinkRows(p, i))
<1> DEFINE cast == p.shots[i].cast
           rows == LinkRows(p, i)
           Linking(k) == {d \in DOMAIN p.characters : p.characters[d].client = cast[k]}
<1>1. DOMAIN cast = 1..Len(cast)  BY ListOf
<1>2. rows = [k \in DOMAIN cast |-> {CharacterRow(p, c) : c \in Linking(k)}]
  BY DEF LinkRows
<1>3. \A k \in DOMAIN cast : Linking(k) # {}
  BY DEF Cast, Range, Clients
<1>4. \A c, d \in DOMAIN p.characters : CharacterRow(p, c) = CharacterRow(p, d) => c = d
  BY DEF Repeats
<1>5. ASSUME NEW a \in DOMAIN cast, NEW b \in DOMAIN cast, rows[a] = rows[b]  PROVE a = b
  <2>1. PICK c \in Linking(a) : TRUE  BY <1>3
  <2>2. CharacterRow(p, c) \in rows[a]  BY <1>2, <2>1
  <2>3. PICK d \in Linking(b) : CharacterRow(p, c) = CharacterRow(p, d)
    BY <1>2, <1>5, <2>2
  <2>4. c = d  BY <1>4, <2>1, <2>3
  <2>5. cast[a] = cast[b]  BY <2>1, <2>3, <2>4
  <2> QED  BY <1>1, <2>5 DEF Unrepeated
<1>6. DOMAIN rows = DOMAIN cast  BY <1>2
<1> HIDE DEF rows, cast
<1>7. IsInjective(rows)  BY <1>5, <1>6 DEF IsInjective
<1> QED  BY <1>7 DEF rows

-----------------------------------------------------------------------------
(* What becomes of plans *)

LEMMA OrdersDiffer ==
  ASSUME NEW items, NEW group, IsFiniteSet(group), Contiguous(items, group),
         NEW a \in group, NEW b \in group, items[a].order = items[b].order
  PROVE  a = b
<1> DEFINE n == Cardinality(group)
           T == 0..n - 1
           f == [x \in group |-> items[x].order]
<1>1. n \in Nat  BY FS_CardinalityType
<1>2. IsFiniteSet(T) /\ Cardinality(T) = n
  <2> HIDE DEF n
  <2>1. IsFiniteSet(0..n - 1) /\ Cardinality(0..n - 1) = IF 0 > n - 1 THEN 0 ELSE (n - 1) - 0 + 1
    BY <1>1, FS_Interval
  <2> QED  BY <1>1, <2>1
<1>3. {items[x].order : x \in group} = T  BY DEF Contiguous
<1>4. {f[x] : x \in group} = T
  <2> HIDE DEF T
  <2> QED  BY <1>3
<1>5. f \in [group -> Int]
  <2>1. \A x \in group : items[x].order \in T
    <3> HIDE DEF T
    <3> QED  BY <1>3
  <2>2. T \subseteq Int  BY <1>1
  <2> HIDE DEF T
  <2> QED  BY <2>1, <2>2
<1>6. f[a] = f[b]  OBVIOUS
<1>7. Cardinality(T) = Cardinality(group)  BY <1>2
<1> HIDE DEF f, T, n
<1> QED  BY <1>2, <1>4, <1>5, <1>6, <1>7, OneToOne

LEMMA ErrorsOfWriting ==
  ASSUME NEW p, NEW error \in WriteErrors(p)
  PROVE  \/ error = "preserved" /\ ~VoicesPreserved(p, before.voices)
         \/ error = "assigned" /\ ~AllAssigned(p)
         \/ error = "reassigned" /\ \E c \in DOMAIN p.characters : Reassigned(p, c)
         \/ error = "cast" /\ \E i \in DOMAIN p.shots : ~Cast(p, p.shots[i])
         \/ error = "twice" /\ \E i \in DOMAIN p.shots : ~IsInjective(LinkRows(p, i))
         \/ error = "voice" /\ \E i \in DOMAIN p.shots : ~Voiced(p, p.shots[i])
         \/ /\ error = "source"
            /\ \E i \in DOMAIN p.shots : p.shots[i].source \notin Clients(p.shots) \cup {NoId}
         \/ /\ error = "itself"
            /\ \E i, j \in DOMAIN p.shots :
                 p.shots[i].source = p.shots[j].client /\ ShotRow(p, i) = ShotRow(p, j)
         \/ error = "positions" /\ Collides(p)
         \/ error = "omitted" /\ OmitsProtected(p)
         \/ error = "foreign" /\ Foreign(p)
<1> DEFINE holds == WriteRules(p)
<1>1. error \in DOMAIN holds /\ ~holds[error]  BY DEF WriteErrors, Broken
<1>2. DOMAIN holds = {"preserved", "assigned", "reassigned", "cast", "twice", "voice", "source",
                      "itself", "positions", "omitted", "foreign"}
  BY DEF WriteRules
<1>3. /\ holds["preserved"] <=> VoicesPreserved(p, before.voices)
      /\ holds["assigned"] <=> AllAssigned(p)
      /\ holds["reassigned"] <=> \A c \in DOMAIN p.characters : ~Reassigned(p, c)
      /\ holds["cast"] <=> \A i \in DOMAIN p.shots : Cast(p, p.shots[i])
      /\ holds["twice"] <=> \A i \in DOMAIN p.shots : IsInjective(LinkRows(p, i))
      /\ holds["voice"] <=> \A i \in DOMAIN p.shots : Voiced(p, p.shots[i])
      /\ holds["source"] <=> \A i \in DOMAIN p.shots :
                               p.shots[i].source \in Clients(p.shots) \cup {NoId}
      /\ holds["itself"] <=> \A i, j \in DOMAIN p.shots :
           p.shots[i].source = p.shots[j].client => ShotRow(p, i) # ShotRow(p, j)
      /\ holds["positions"] <=> ~Collides(p)
      /\ holds["omitted"] <=> ~OmitsProtected(p)
      /\ holds["foreign"] <=> ~Foreign(p)
  BY DEF WriteRules, AllShots
<1> HIDE DEF holds
<1> QED  BY <1>1, <1>2, <1>3

(* What a voice that only shares its name with an approved one becomes. *)
LEMMA VoiceIsKept ==
  ASSUME NEW answer, NEW w \in before.voices, w.approved, w.row # NoId,
         \A u \in before.voices : u.row = w.row => u = w,
         \A k \in DOMAIN answer.voices : answer.voices[k].row # w.row,
         NEW v \in DOMAIN Voices(answer, Context), Voices(answer, Context)[v].row = w.row
  PROVE  Identity(Voices(answer, Context)[v]) = Identity(w)
<1> DEFINE items == VoiceItems(answer)
           item == items[v]
           known == KnownVoice(Context, item)
           kept == ProposedIdentity(item, known)
           voice == Voices(answer, Context)[v]
<1>1. v \in DOMAIN items /\ voice.row = RowOf(item, known)  BY DEF Voices
<1>2. /\ voice.source = kept.source /\ voice.mode = kept.mode
      /\ voice.provider = kept.provider /\ voice.required = kept.required
      /\ voice.confirmed = kept.confirmed
  BY <1>1 DEF Voices
<1>3. item.row # w.row
  <2>1. CASE items = answer.voices  BY <1>1, <2>1
  <2>2. CASE items # answer.voices
    <3> DEFINE x == [client |-> NoId, row |-> NoId, name |-> <<"Narrator">>,
                     character |-> NoId, source |-> "placeholder", mode |-> "",
                     provider |-> NoId, required |-> FALSE, confirmed |-> FALSE,
                     foreign |-> FALSE]
    <3>1. items = <<x>>  BY <2>2 DEF VoiceItems
    <3>2. x.row = NoId /\ DOMAIN <<x>> = {1} /\ <<x>>[1] = x  OBVIOUS
    <3> HIDE DEF x
    <3> QED  BY <1>1, <3>1, <3>2
  <2> QED  BY <2>1, <2>2
<1> HIDE DEF item, items
<1>4. known.row = w.row  BY <1>1, <1>3 DEF RowOf
<1>5. known \in before.voices
  <2>1. Context.voices \subseteq before.voices  BY DEF Context, IdentitySnapshot
  <2>2. known = NoVoice \/ known \in Context.voices  BY DEF KnownVoice, Match
  <2>3. NoVoice.row = NoId  BY DEF NoVoice
  <2> QED  BY <1>4, <2>1, <2>2, <2>3
<1>6. known = w  BY <1>4, <1>5
<1> HIDE DEF known
<1>7. kept = Identity(w)  BY <1>6 DEF ProposedIdentity
<1>8. /\ kept.source = w.source /\ kept.mode = w.mode /\ kept.provider = w.provider
      /\ kept.required = w.required /\ kept.confirmed = w.confirmed
  BY <1>7 DEF Identity
<1> HIDE DEF kept, voice
<1>9. Identity(voice) = Identity(w)  BY <1>2, <1>8 DEF Identity
<1> QED  BY <1>9 DEF voice

(* The plan gives two chapters, or two scenes of a chapter, two positions:  *)
(* where the story has none there is room.                                 *)
LEMMA PositionsAreFree ==
  ASSUME NEW p, Shaped(p), Ordered(p), ~Repeats(p), DOMAIN before.chapters = {},
         DOMAIN before.scenes = {}
  PROVE  ~Collides(p)
<1>1. \A c \in DOMAIN p.chapters : ~ChapterCollides(p, c)  BY DEF ChapterCollides
<1>2. ASSUME NEW s \in DOMAIN p.scenes, SceneCollides(p, s)  PROVE FALSE
  <2>1. PICK t \in DOMAIN p.scenes :
          /\ ChapterRow(p, p.scenes[t].chapter) = ChapterRow(p, p.scenes[s].chapter)
          /\ SceneRow(p, t) # SceneRow(p, s) /\ p.scenes[t].order = p.scenes[s].order
    BY <1>2 DEF SceneCollides
  <2> DEFINE c == p.scenes[s].chapter
  <2>2. c \in DOMAIN p.chapters /\ p.scenes[t].chapter \in DOMAIN p.chapters  BY DEF Shaped
  <2>3. p.scenes[t].chapter = c  BY <2>1, <2>2 DEF Repeats
  <2>4. s \in ScenesOf(p, c) /\ t \in ScenesOf(p, c)  BY <2>3 DEF ScenesOf
  <2>5. Contiguous(p.scenes, ScenesOf(p, c))  BY <2>2 DEF Ordered
  <2>6. IsFiniteSet(ScenesOf(p, c))
    <3>1. IsFiniteSet(DOMAIN p.scenes)  BY ListOf DEF Shaped
    <3>2. ScenesOf(p, c) \in SUBSET DOMAIN p.scenes  BY DEF ScenesOf
    <3> QED  BY <3>1, <3>2, FS_Subset
  <2>7. s = t  BY <2>1, <2>4, <2>5, <2>6, OrdersDiffer
  <2> QED  BY <2>1, <2>7
<1> QED  BY <1>1, <1>2 DEF Collides

LEMMA ReassignedHadVoice ==
  ASSUME NEW p, ~Repeats(p), NEW c \in DOMAIN p.characters, Reassigned(p, c)
  PROVE  \E x \in before.characters, w \in before.voices : w.approved /\ x.voice = w.row
<1> DEFINE earlier == {d \in DOMAIN p.characters :
                         /\ d \in 1..c - 1 /\ CharacterRow(p, d) = CharacterRow(p, c)
                         /\ p.characters[d].voice # NoId}
           held == {x.voice : x \in {y \in before.characters : y.row = CharacterRow(p, c)}}
           current == IF earlier = {} THEN held
                      ELSE VoicesCalled(p, p.characters[Max(earlier)].voice)
<1>1. PICK w \in before.voices : w.approved /\ w.row \in current  BY DEF Reassigned
<1>2. earlier = {}
  <2> SUFFICES ASSUME NEW d \in earlier  PROVE FALSE
    OBVIOUS
  <2>1. d \in 1..c - 1  OBVIOUS
  <2>2. d # c  BY <2>1
  <2> QED  BY <2>2 DEF Repeats
<1> HIDE DEF earlier
<1>3. w.row \in held  BY <1>1, <1>2
<1> QED  BY <1>1, <1>3

LEMMA OmittedWasHeld ==
  ASSUME NEW p, OmitsProtected(p),
         \A x \in before.characters : x.row # NoId, \A w \in before.voices : w.row # NoId
  PROVE  \/ \E x \in before.characters : x.approved \/ x.voice # NoId
         \/ \E w \in before.voices : w.approved \/ w.character # NoId
         \/ LeftShots(p) # {}
<1>1. ASSUME NEW old \in VoicesInUse(p), old # NoId
      PROVE  (\E x \in before.characters : x.voice # NoId) \/ LeftShots(p) # {}
  BY <1>1 DEF VoicesInUse
<1>2. ASSUME NEW old \in CharactersInUse(p), old # NoId
      PROVE  (\E w \in before.voices : w.character # NoId) \/ LeftShots(p) # {}
  BY <1>2 DEF CharactersInUse
<1>3. \/ \E w \in before.voices : w.approved \/ w.row \in VoicesInUse(p)
      \/ \E x \in before.characters : x.approved \/ x.row \in CharactersInUse(p)
  BY DEF OmitsProtected
<1> QED  BY <1>1, <1>2, <1>3

LEMMA RecordedRules ==
  ASSUME PlanInv, stage \in {"recorded", "applied", "refused"}
  PROVE  /\ Shaped(proposal) /\ Ordered(proposal) /\ Exact(proposal) /\ AllAssigned(proposal)
         /\ proposal.chapters # <<>> /\ proposal.shots # <<>> /\ Forward(proposal)
         /\ \A i \in DOMAIN proposal.shots :
              /\ Justified(proposal.shots[i]) /\ Told(proposal.shots[i])
              /\ Linked(proposal.shots[i])
              /\ SourceInPlan(proposal, proposal.shots[i]) /\ Cast(proposal, proposal.shots[i])
              /\ Voiced(proposal, proposal.shots[i])
<1>1. ValidatorErrors(proposal, BaseVoices) = {}  BY DEF PlanInv
<1>2. Broken(SharedRules(proposal)) = {}  BY <1>1, ValidatorHold
<1>3. Shaped(proposal)  BY PlanShaped
<1> QED  BY <1>1, <1>2, <1>3, ValidatorHold, SharedHold

(* RecordedCanBeWritten: what the schema and the validator have let pass,   *)
(* upsert_voices, upsert_characters and upsert_hierarchy can write, but for *)
(* the gaps named there, each with what it takes to meet it.                *)
THEOREM RecordedIsWritable == PlanSpec => []RecordedCanBeWritten
<1>1. ASSUME PlanInv  PROVE RecordedCanBeWritten
  <2> DEFINE p == proposal
  <2> SUFFICES ASSUME stage \in {"recorded", "applied", "refused"}, ~Repeats(p),
                      NEW error \in WriteErrors(p)
               PROVE
      \/ error = "preserved" /\ \E w \in before.voices : w.approved /\ w.row \in VoicesNamed
      \/ /\ error = "reassigned"
         /\ \E x \in before.characters, w \in before.voices : w.approved /\ x.voice = w.row
      \/ /\ error = "omitted"
         /\ \/ \E x \in before.characters : x.approved \/ x.voice # NoId
            \/ \E w \in before.voices : w.approved \/ w.character # NoId
            \/ LeftShots(p) # {}
      \/ error = "positions" /\ DOMAIN before.chapters # {}
      \/ /\ error = "foreign"
         /\ \/ \E v \in DOMAIN p.voices : p.voices[v].foreign
            \/ \E i \in DOMAIN p.shots : p.shots[i].foreign
      \/ error = "twice" /\ asked.by = "author"
      \/ /\ error = "source" /\ asked.by = "author"
         /\ \E i \in DOMAIN p.shots : p.shots[i].link = "image"
    BY DEF RecordedCanBeWritten
  <2>1. /\ Shaped(p) /\ Ordered(p) /\ AllAssigned(p) /\ Forward(p)
        /\ \A i \in DOMAIN p.shots : /\ Linked(p.shots[i]) /\ SourceInPlan(p, p.shots[i])
                                     /\ Cast(p, p.shots[i]) /\ Voiced(p, p.shots[i])
    BY <1>1, RecordedRules
  <2>2. /\ \A x \in before.characters : x.row # NoId
        /\ \A v, w \in before.voices : v.row # NoId /\ (v.row = w.row => v = w)
        /\ \A s \in DOMAIN before.scenes : before.scenes[s].chapter \in DOMAIN before.chapters
    BY <1>1, InputsAssumption DEF PlanInv
  <2>3. \/ asked.by = "engine" /\ p = Assembled(asked.answer, Context, asked.target)
        \/ asked.by = "author" /\ p = asked.plan
    BY <1>1 DEF PlanInv
  <2>4. ASSUME NEW i \in DOMAIN p.shots, NEW j \in DOMAIN p.shots,
               p.shots[i].source = p.shots[j].client
        PROVE  ShotRow(p, i) # ShotRow(p, j)
    <3>1. Earlier(Place(p, j), Place(p, i))  BY <2>1, <2>4 DEF Forward
    <3>2. i # j  BY <2>1, <3>1, NotBeforeItself
    <3> QED  BY <3>2 DEF Repeats
  <2>5. ASSUME asked.by = "engine", NEW i \in DOMAIN p.shots
        PROVE  IsInjective(LinkRows(p, i)) /\ p.shots[i].link # "image"
    <3>1. asked.target \in Nat /\ Answered(asked.answer)  BY <1>1, <2>5, EngineAsked
    <3>2. p = Assembled(asked.answer, Context, asked.target)  BY <2>3, <2>5
    <3>3. /\ i \in Nat \ {0} /\ p.shots[i].cast = CastOf(asked.answer, Context, i)
          /\ p.shots[i].link \in {"none", "shot"}
      <4>1. Len(ShotItems(asked.answer)) \in Nat  BY <3>1, ItemsOf
      <4> DEFINE n == Count(asked.answer, asked.target)
      <4>2. n \in Nat \ {0} /\ DOMAIN p.shots = 1..n
        BY <3>1, <3>2, <4>1, AssembledLength
      <4>3. \A k \in 1..n : /\ p.shots[k].cast = CastOf(asked.answer, Context, k)
                            /\ p.shots[k].link \in {"none", "shot"}
        BY <3>2, AssembledShots
      <4> HIDE DEF n, p
      <4> QED  BY <2>5, <4>2, <4>3
    <3>4. Unrepeated(p.shots[i].cast) /\ IsList(p.shots[i].cast)
      BY <3>1, <3>3, CastOfIsOnce
    <3> QED  BY <2>1, <2>5, <3>3, <3>4, LinkedOnce
  <2>6. ASSUME NEW i \in DOMAIN p.shots, p.shots[i].link # "image"
        PROVE  p.shots[i].source \in Clients(p.shots) \cup {NoId}
    <3>1. CASE p.shots[i].link = "none"  BY <2>1, <3>1 DEF Linked
    <3>2. CASE p.shots[i].link = "shot"  BY <2>1, <3>2 DEF SourceInPlan, ShotClients
    <3> QED  BY <2>1, <2>6, <3>1, <3>2 DEF Shaped
  <2>7. ASSUME ~VoicesPreserved(p, before.voices)
        PROVE  \E w \in before.voices : w.approved /\ w.row \in VoicesNamed
    <3>1. PICK v \in DOMAIN p.voices, w \in before.voices :
            /\ p.voices[v].row = w.row /\ w.approved
            /\ Identity(p.voices[v]) # Identity(w)
      BY <2>7 DEF VoicesPreserved
    <3>2. CASE asked.by = "author" /\ p = asked.plan
      <4>1. w.row \in VoicesNamed  BY <3>1, <3>2 DEF VoicesNamed
      <4> QED  BY <3>1, <4>1
    <3>3. CASE asked.by = "engine" /\ p = Assembled(asked.answer, Context, asked.target)
      <4>1. p.voices = Voices(asked.answer, Context)  BY <3>3, AssembledShots
      <4>2. VoicesNamed = {asked.answer.voices[k].row : k \in DOMAIN asked.answer.voices}
        BY <3>3 DEF VoicesNamed
      <4>3. \A u \in before.voices : w.row # NoId /\ (u.row = w.row => u = w)  BY <2>2
      <4> HIDE DEF p
      <4>4. w.row \in VoicesNamed
        <5> SUFFICES ASSUME w.row \notin VoicesNamed  PROVE FALSE
          OBVIOUS
        <5>1. \A k \in DOMAIN asked.answer.voices : asked.answer.voices[k].row # w.row
          BY <4>2
        <5> QED  BY <3>1, <4>1, <4>3, <5>1, VoiceIsKept
      <4> QED  BY <3>1, <4>4
    <3> QED  BY <2>3, <3>2, <3>3
  <2>8. Collides(p) => DOMAIN before.chapters # {}
    BY <2>1, <2>2, PositionsAreFree
  <2>9. Foreign(p) => \/ \E v \in DOMAIN p.voices : p.voices[v].foreign
                      \/ \E i \in DOMAIN p.shots : p.shots[i].foreign
    BY DEF Foreign, NewSource
  <2>10. OmitsProtected(p) => \/ \E x \in before.characters : x.approved \/ x.voice # NoId
                              \/ \E w \in before.voices : w.approved \/ w.character # NoId
                              \/ LeftShots(p) # {}
    BY <2>2, OmittedWasHeld
  <2>11. (\E c \in DOMAIN p.characters : Reassigned(p, c)) =>
           \E x \in before.characters, w \in before.voices : w.approved /\ x.voice = w.row
    BY ReassignedHadVoice
  <2> HIDE DEF p
  <2>12. (\E i \in DOMAIN p.shots : ~IsInjective(LinkRows(p, i))) => asked.by = "author"
    BY <2>3, <2>5
  <2>13. (\E i \in DOMAIN p.shots : p.shots[i].source \notin Clients(p.shots) \cup {NoId}) =>
           asked.by = "author" /\ \E i \in DOMAIN p.shots : p.shots[i].link = "image"
    BY <2>3, <2>5, <2>6
  <2> QED  BY <2>1, <2>4, <2>7, <2>8, <2>9, <2>10, <2>11, <2>12, <2>13, ErrorsOfWriting
<1>2. PlanInv => RecordedCanBeWritten  BY <1>1
<1> QED  BY PlansAreChecked, <1>2, PTL

(* AppliedKeepsOrder: once apply_proposal has written a plan, every shot    *)
(* that continues another one finds it in the story and before itself.      *)
THEOREM AppliedIsInOrder == PlanSpec => []AppliedKeepsOrder
<1>1. ASSUME PlanInv  PROVE AppliedKeepsOrder
  <2> SUFFICES ASSUME stage = "applied", ~Repeats(proposal),
                      NEW i \in Remaining(proposal), proposal.shots[i].source # NoId
               PROVE  \E k \in Remaining(proposal) :
                        /\ proposal.shots[k].client = proposal.shots[i].source
                        /\ Earlier(Place(proposal, k), Place(proposal, i))
    BY DEF AppliedKeepsOrder
  <2>1. Shaped(proposal) /\ Forward(proposal)  BY <1>1, RecordedRules
  <2>2. Remaining(proposal) = DOMAIN proposal.shots  BY <2>1, NothingOmitted
  <2>3. proposal.shots[i].source \in Clients(proposal.shots)  BY <1>1, <2>2 DEF PlanInv
  <2>4. PICK k \in DOMAIN proposal.shots : proposal.shots[k].client = proposal.shots[i].source
    BY <2>3 DEF Clients
  <2>5. Earlier(Place(proposal, k), Place(proposal, i))
    BY <2>1, <2>2, <2>4 DEF Forward
  <2> QED  BY <2>2, <2>4, <2>5
<1>2. PlanInv => AppliedKeepsOrder  BY <1>1
<1> QED  BY PlansAreChecked, <1>2, PTL

LEMMA StructureRules ==
  ASSUME NEW p
  PROVE  LET tree == TreeSnapshot(p)
         IN StructureReasons(p) \subseteq
              (IF tree.chapters # {} THEN {} ELSE {"chapters"})
              \cup (IF tree.scenes # {} \/ tree.leftScenes # {} THEN {} ELSE {"scenes"})
              \cup (IF tree.shots # {} \/ tree.leftShots # {} THEN {} ELSE {"shots"})
              \cup (IF tree.planned = p.target THEN {} ELSE {"duration"})
<1> DEFINE tree == TreeSnapshot(p)
           holds == [chapters |-> tree.chapters # {},
                     scenes |-> tree.scenes # {} \/ tree.leftScenes # {},
                     shots |-> tree.shots # {} \/ tree.leftShots # {},
                     duration |-> tree.planned = p.target]
<1>1. StructureReasons(p) = Broken(holds)  BY DEF StructureReasons
<1>2. DOMAIN holds = {"chapters", "scenes", "shots", "duration"}  OBVIOUS
<1>3. \A rule \in Broken(holds) : rule \in DOMAIN holds /\ ~holds[rule]
  <2> HIDE DEF holds
  <2> QED  BY DEF Broken
<1>4. /\ holds["chapters"] <=> tree.chapters # {}
      /\ holds["scenes"] <=> tree.scenes # {} \/ tree.leftScenes # {}
      /\ holds["shots"] <=> tree.shots # {} \/ tree.leftShots # {}
      /\ holds["duration"] <=> tree.planned = p.target
  <2> HIDE DEF tree
  <2> QED  OBVIOUS
<1> HIDE DEF holds, tree
<1> QED  BY <1>1, <1>2, <1>3, <1>4 DEF tree

LEMMA ShotRules ==
  ASSUME NEW p, NEW i
  PROVE  LET shot == p.shots[i]
             rows == RowsBelow(p, i)
         IN ShotReasons(p, i) \subseteq
              {"blocked", "image"}
              \cup (IF InPolicy(shot) \/ shot.override THEN {} ELSE {"override"})
              \cup (IF Told(rows) THEN {} ELSE {"narration"})
              \cup (IF rows.packages > 0 THEN {} ELSE {"prompt"})
              \cup (IF rows.recommendations # {} THEN {} ELSE {"recommendation"})
<1> DEFINE shot == p.shots[i]
           rows == RowsBelow(p, i)
           blocked == {m \in DOMAIN before.shots : "blocked" \in before.shots[m].lacks}
           holds == [override |-> InPolicy(shot) \/ shot.override, narration |-> Told(rows),
                     blocked |-> ShotRow(p, i) \notin blocked,
                     image |-> shot.imageRequired => shot.image = "approved",
                     prompt |-> rows.packages > 0,
                     recommendation |-> rows.recommendations # {}]
<1>1. ShotReasons(p, i) = Broken(holds)  BY DEF ShotReasons
<1>2. DOMAIN holds = {"override", "narration", "blocked", "image", "prompt", "recommendation"}
  OBVIOUS
<1>3. \A rule \in Broken(holds) : rule \in DOMAIN holds /\ ~holds[rule]
  <2> HIDE DEF holds
  <2> QED  BY DEF Broken
<1>4. /\ holds["override"] <=> (InPolicy(shot) \/ shot.override)
      /\ holds["narration"] <=> Told(rows)
      /\ holds["prompt"] <=> rows.packages > 0
      /\ holds["recommendation"] <=> rows.recommendations # {}
  <2> HIDE DEF shot, rows
  <2> QED  OBVIOUS
<1> HIDE DEF holds, shot, rows
<1> QED  BY <1>1, <1>2, <1>3, <1>4 DEF shot, rows

LEMMA RecommendedAlways ==
  ASSUME NEW answer, NEW i
  PROVE  Recommendations(answer, i) # {}
BY DEF Recommendations

(* AppliedIsReady: after apply_proposal, readiness finds nothing missing in *)
(* a plan of the engine but images, consent and blocked shots, unless the   *)
(* plan has left shots below a chapter it names without scenes.             *)
THEOREM AppliedLacksLittle == PlanSpec => []AppliedIsReady
<1>1. ASSUME PlanInv  PROVE AppliedIsReady
  <2> SUFFICES ASSUME stage = "applied", ~Repeats(proposal)
               PROVE  Reasons(proposal) \subseteq
                        {"image", "consent", "blocked"}
                        \cup (IF asked.by = "engine" THEN {} ELSE {"recommendation"})
                        \cup (IF LeftShots(proposal) = {} THEN {} ELSE {"duration"})
                        \cup UNION {before.shots[m].lacks : m \in LeftShots(proposal)}
    BY DEF AppliedIsReady
  <2> DEFINE p == proposal
             tree == TreeSnapshot(p)
             left == LeftShots(p)
             missing == UNION {before.shots[m].lacks : m \in left}
             allowed == {"image", "consent", "blocked"}
                        \cup (IF asked.by = "engine" THEN {} ELSE {"recommendation"})
                        \cup (IF left = {} THEN {} ELSE {"duration"})
                        \cup missing
  <2>1. /\ Shaped(p) /\ Exact(p) /\ p.chapters # <<>> /\ p.shots # <<>>
        /\ \A i \in DOMAIN p.shots : Justified(p.shots[i]) /\ Told(p.shots[i])
    BY <1>1, RecordedRules
  <2>2. Remaining(p) = DOMAIN p.shots  BY <2>1, NothingOmitted
  <2>3. /\ tree.chapters = DOMAIN p.chapters /\ tree.scenes = DOMAIN p.scenes
        /\ tree.shots = DOMAIN p.shots /\ tree.leftShots = left
        /\ tree.planned = PlannedDuration(p)
                          + SumFunction([m \in left |-> before.shots[m].duration])
    BY <2>2 DEF TreeSnapshot, PlannedDuration
  <2>4. StructureReasons(p) \subseteq IF left = {} THEN {} ELSE {"duration"}
    <3>1. IsList(p.chapters) /\ IsList(p.shots)  BY <2>1 DEF Shaped
    <3>2. DOMAIN p.chapters # {} /\ DOMAIN p.shots # {}
      <4>1. /\ Len(p.chapters) \in Nat \ {0} /\ DOMAIN p.chapters = 1..Len(p.chapters)
            /\ Len(p.shots) \in Nat \ {0} /\ DOMAIN p.shots = 1..Len(p.shots)
        BY <2>1, <3>1, ListOf
      <4> HIDE DEF p
      <4>2. 1 \in 1..Len(p.chapters) /\ 1 \in 1..Len(p.shots)  BY <4>1
      <4> QED  BY <4>1, <4>2
    <3>3. DOMAIN p.scenes # {}  BY <2>1, <3>2 DEF Shaped
    <3>4. left = {} => tree.planned = p.target
      <4>1. PlannedDuration(p) = p.target /\ p.target \in Int  BY <2>1 DEF Exact, Shaped
      <4>2. ASSUME left = {}  PROVE SumFunction([m \in left |-> before.shots[m].duration]) = 0
        <5> HIDE DEF left
        <5> QED  BY <4>2, SumOfNone
      <4> HIDE DEF tree, p, left
      <4> QED  BY <2>3, <4>1, <4>2
    <3> HIDE DEF p, left
    <3> QED  BY <2>3, <3>2, <3>3, <3>4, StructureRules
  <2>5. VoiceReasons(p) \subseteq {"consent"}
    BY DEF VoiceReasons, Broken
  <2>6. ASSUME NEW i \in DOMAIN p.shots  PROVE ShotReasons(p, i) \subseteq allowed
    <3> DEFINE shot == p.shots[i]
               rows == RowsBelow(p, i)
    <3>1. InPolicy(shot) \/ shot.override  BY <2>1, <2>6 DEF Justified
    <3>2. /\ rows.text = shot.text /\ rows.exception = shot.exception
          /\ rows.recommendations = shot.recommendations
          /\ rows.packages \in {1, 2}
      BY DEF RowsBelow
    <3>3. Told(rows)  BY <2>1, <2>6, <3>2 DEF Told
    <3>4. rows.packages > 0  BY <3>2
    <3>5. asked.by = "engine" => shot.recommendations # {}
      <4> SUFFICES ASSUME asked.by = "engine"  PROVE shot.recommendations # {}
        OBVIOUS
      <4>1. asked.target \in Nat /\ Answered(asked.answer)  BY <1>1, EngineAsked
      <4>2. p = Assembled(asked.answer, Context, asked.target)  BY <1>1 DEF PlanInv
      <4>3. \A k \in DOMAIN p.shots :
              p.shots[k].recommendations = Recommendations(asked.answer, k)
        <5> DEFINE n == Count(asked.answer, asked.target)
        <5>1. /\ DOMAIN p.shots = 1..n
              /\ \A k \in 1..n : p.shots[k].recommendations = Recommendations(asked.answer, k)
          BY <4>2, AssembledShots
        <5> HIDE DEF n, p
        <5> QED  BY <5>1
      <4> QED  BY <2>6, <4>3, RecommendedAlways
    <3>6. ShotReasons(p, i) \subseteq
            {"blocked", "image"}
            \cup (IF InPolicy(shot) \/ shot.override THEN {} ELSE {"override"})
            \cup (IF Told(rows) THEN {} ELSE {"narration"})
            \cup (IF rows.packages > 0 THEN {} ELSE {"prompt"})
            \cup (IF rows.recommendations # {} THEN {} ELSE {"recommendation"})
      BY ShotRules
    <3> HIDE DEF shot, rows, p, left, missing
    <3> QED  BY <3>1, <3>2, <3>3, <3>4, <3>5, <3>6
  <2>7. Reasons(p) = StructureReasons(p) \cup VoiceReasons(p)
                       \cup (UNION {ShotReasons(p, i) : i \in DOMAIN p.shots})
                       \cup missing
    BY <2>3 DEF Reasons
  <2> HIDE DEF p, left, missing
  <2>8. Reasons(p) \subseteq allowed  BY <2>4, <2>5, <2>6, <2>7
  <2> QED  BY <2>8 DEF p, left, missing
<1>2. PlanInv => AppliedIsReady  BY <1>1
<1> QED  BY PlansAreChecked, <1>2, PTL

-----------------------------------------------------------------------------
(* Every assembled plan keeps the rules *)

(* A name that is taken gets a free suffix: of one more than there are names *)
(* one is free.                                                              *)
LEMMA FreshName ==
  ASSUME NEW E, NEW used, IsFiniteSet(used), NEW prefix \in E, NEW n \in E, Int \subseteq E,
         NEW candidate \in Seq(E)
  PROVE  LET id == ClientId(prefix, n, candidate, used)
         IN id \in Seq(E) /\ id # NoId /\ id \notin used
<1> DEFINE base == IF candidate = NoId THEN <<prefix, n>> ELSE candidate
           c == Cardinality(used)
           K == 2..c + 2
           free == {k \in K : Append(base, k) \notin used}
<1>1. base \in Seq(E) /\ base # <<>>  BY DEF NoId
<1>2. c \in Nat  BY FS_CardinalityType
<1>0. ClientId(prefix, n, candidate, used) =
        IF base \notin used THEN base ELSE Append(base, Min(free))
  BY DEF ClientId, Cardinality
<1> HIDE DEF base, c
<1>3. \A k \in K : k \in Int /\ Append(base, k) \in Seq(E) /\ Append(base, k) # <<>>
  BY <1>1, <1>2, AppendProperties
<1>4. IsFiniteSet(K) /\ Cardinality(K) = c + 1
  <2>1. 2 \in Int /\ c + 2 \in Int /\ 2 <= c + 2 /\ (c + 2) - 2 + 1 = c + 1  BY <1>2
  <2>2. /\ IsFiniteSet(K)
        /\ Cardinality(K) = IF 2 > c + 2 THEN 0 ELSE (c + 2) - 2 + 1
    BY <2>1, FS_Interval
  <2>3. ~(2 > c + 2)  BY <1>2
  <2> QED  BY <2>1, <2>2, <2>3
<1>5. free # {}
  <2> SUFFICES ASSUME \A k \in K : Append(base, k) \in used  PROVE FALSE
    OBVIOUS
  <2> DEFINE f == [k \in K |-> Append(base, k)]
  <2>1. f \in [K -> used]  OBVIOUS
  <2>2. PICK k \in K, l \in K : k # l /\ f[k] = f[l]
    <3>1. Cardinality(used) < Cardinality(K)  BY <1>2, <1>4 DEF c
    <3> HIDE DEF f, K
    <3> QED  BY <1>4, <2>1, <3>1, FS_PigeonHole
  <2>3. Append(base, k) = Append(base, l)  BY <2>2
  <2>4. Append(base, k)[Len(base) + 1] = k /\ Append(base, l)[Len(base) + 1] = l
    BY <1>1, <1>3, AppendProperties
  <2> QED  BY <2>2, <2>3, <2>4
<1>6. Min(free) \in free
  <2>1. free \in SUBSET Int /\ IsFiniteSet(free)  BY <1>3, <1>4, FS_Subset
  <2> HIDE DEF free
  <2> QED  BY <1>5, <2>1, SmallestOf DEF Min, Smallest
<1>8. Min(free) \in K /\ Append(base, Min(free)) \notin used
  <2> DEFINE m == Min(free)
  <2> HIDE DEF m
  <2>1. m \in free  BY <1>6 DEF m
  <2>2. m \in K /\ Append(base, m) \notin used  BY <2>1
  <2> QED  BY <2>2 DEF m
<1> HIDE DEF free, K
<1> QED  BY <1>1, <1>3, <1>0, <1>8 DEF NoId

(* The names of items are different and none is empty. *)
LEMMA NamesOf ==
  ASSUME NEW prefix, NEW items, Named(items)
  PROVE  LET ids == ClientIds(prefix, items)
         IN /\ Unrepeated(ids) /\ Len(ids) = Len(items) /\ DOMAIN ids = DOMAIN items
            /\ \A i \in DOMAIN ids : ids[i] # NoId
<1> DEFINE D == DOMAIN items
           E == {prefix} \cup Int \cup UNION {Range(items[k].client) : k \in D}
           N == {s \in Seq(E) : s # NoId}
           V == {s \in Seq(N) : Unrepeated(s)}
           Top(s) == Max(s)
           Grown(v, x) ==
             Append(v, ClientId(prefix, Len(v) + 1, items[x].client, Range(v)))
           Body(g) == [s \in SUBSET D |-> IF s = {} THEN <<>>
                                          ELSE Grown(g[s \ {Top(s)}], Top(s))]
           ids == CHOOSE g : g = Body(g)
<1>0. /\ IsFiniteSet(D) /\ D \in SUBSET Int /\ D = 1..Len(items) /\ Len(items) \in Nat
      /\ \A k \in D : IsList(items[k].client)
  BY ListOf DEF Named
<1>1. ClientIds(prefix, items) = ids[D]
  BY DEF ClientIds, FoldLeft, MapThenFoldSet
<1>2. \A s \in SUBSET D : s # {} => Top(s) \in s
  BY <1>0, LastOf
<1>3. ASSUME NEW v \in V, NEW x \in D
      PROVE  Grown(v, x) \in V /\ Len(Grown(v, x)) = Len(v) + 1
  <2> DEFINE used == Range(v)
             id == ClientId(prefix, Len(v) + 1, items[x].client, used)
  <2>1. v \in Seq(N) /\ Unrepeated(v) /\ Len(v) \in Nat /\ DOMAIN v = 1..Len(v)
    OBVIOUS
  <2>2. IsFiniteSet(used)
    <3>1. used = {v[k] : k \in 1..Len(v)}  BY <2>1 DEF Range
    <3>2. v \in Surjection(1..Len(v), used)
      <4>1. v \in [1..Len(v) -> used]  BY <2>1, <3>1
      <4> HIDE DEF used
      <4> QED  BY <3>1, <4>1 DEF Surjection
    <3>3. IsFiniteSet(1..Len(v))  BY <2>1, FS_Interval
    <3> HIDE DEF used
    <3> QED  BY <3>2, <3>3, FS_Surjection
  <2>3. items[x].client \in Seq(E)
    <3>1. items[x].client \in Seq(Range(items[x].client))  BY <1>0, ListOf
    <3>2. Range(items[x].client) \subseteq E  OBVIOUS
    <3> HIDE DEF E
    <3> QED  BY <3>1, <3>2
  <2>4. prefix \in E /\ Len(v) + 1 \in E /\ Int \subseteq E  BY <2>1
  <2>5. id \in Seq(E) /\ id # NoId /\ id \notin used
    <3> HIDE DEF E, used, V
    <3> QED  BY <2>2, <2>3, <2>4, FreshName
  <2>6. id \in N /\ \A k \in 1..Len(v) : v[k] # id
    <3>1. \A k \in 1..Len(v) : v[k] \in used  BY <2>1 DEF Range
    <3> HIDE DEF id, used, E
    <3> QED  BY <2>5, <3>1
  <2>7. Grown(v, x) = Append(v, id)  OBVIOUS
  <2> HIDE DEF Grown, id, N, used
  <2>8. /\ Append(v, id) \in Seq(N) /\ Unrepeated(Append(v, id))
        /\ Len(Append(v, id)) = Len(v) + 1
    BY <2>1, <2>6, AppendUnrepeated
  <2> QED  BY <2>7, <2>8
<1>4. <<>> \in V  BY DEF Unrepeated
<1>5. ids = Body(ids)
  <2> DEFINE pick == [s \in SUBSET D |-> Top(s)]
             step == [x \in D |-> [v \in V |-> Grown(v, x)]]
  <2>1. \A s \in SUBSET D : s # {} => pick[s] = Top(s) /\ pick[s] \in s
    BY <1>2
  <2>2. \A x \in D, v \in V : step[x][v] = Grown(v, x) /\ step[x][v] \in V
    <3> HIDE DEF V, Grown, D
    <3> QED  BY <1>3
  <2>3. \E g : Computes(D, V, <<>>, pick, step, g)
    <3>1. \A s \in SUBSET D : s # {} => pick[s] \in s  BY <2>1
    <3>2. \A x \in D, v \in V : step[x][v] \in V  BY <2>2
    <3> HIDE DEF D, V, pick, step
    <3>4. Stepwise(D, V, <<>>, pick, step)
      BY <1>0, <1>4, <3>1, <3>2 DEF Stepwise
    <3> QED  BY <3>4, SetRecursion
  <2>4. PICK g \in [SUBSET D -> V] : \A s \in SUBSET D :
          /\ s = {} => g[s] = <<>>
          /\ s # {} => g[s] = step[pick[s]][g[s \ {pick[s]}]]
    <3> HIDE DEF D, V, pick, step
    <3> QED  BY <2>3 DEF Computes
  <2>5. ASSUME NEW s \in SUBSET D, s # {}
        PROVE  g[s] = Grown(g[s \ {Top(s)}], Top(s))
    <3>1. Top(s) \in D /\ s \ {Top(s)} \in SUBSET D  BY <1>2, <2>5
    <3>2. g[s \ {Top(s)}] \in V
      <4> HIDE DEF D, V, Top
      <4> QED  BY <3>1
    <3>3. step[Top(s)][g[s \ {Top(s)}]] = Grown(g[s \ {Top(s)}], Top(s))
      <4> HIDE DEF D, V, step, Top, Grown
      <4> QED  BY <2>2, <3>1, <3>2
    <3>4. pick[s] = Top(s) /\ g[s] = step[pick[s]][g[s \ {pick[s]}]]
      <4> HIDE DEF D, V, step, Top, pick
      <4> QED  BY <2>1, <2>4, <2>5
    <3> HIDE DEF D, V, pick, step, Top, Grown
    <3> QED  BY <3>3, <3>4
  <2>6. g = Body(g)
    <3>1. \A s \in SUBSET D : g[s] = Body(g)[s]
      <4> HIDE DEF D, V, Top, Grown
      <4> QED  BY <2>4, <2>5
    <3> HIDE DEF D, V, Top, Grown
    <3> QED  BY <3>1
  <2> HIDE DEF Body
  <2> QED  BY <2>6
<1> DEFINE Good == {s \in SUBSET D : ids[s] \in V /\ Len(ids[s]) = Cardinality(s)}
<1>6. ASSUME NEW s \in SUBSET D, \A x \in s : s \ {x} \in Good
      PROVE  ids[s] \in V /\ Len(ids[s]) = Cardinality(s)
  <2>1. ids[s] = IF s = {} THEN <<>> ELSE Grown(ids[s \ {Top(s)}], Top(s))
    <3> HIDE DEF ids, D, Top, Grown
    <3> QED  BY <1>5
  <2>2. CASE s = {}
    <3>1. Cardinality(s) = 0 /\ Len(<<>>) = 0  BY <2>2, FS_EmptySet
    <3> HIDE DEF ids, V
    <3> QED  BY <1>4, <2>1, <2>2, <3>1
  <2>3. CASE s # {}
    <3>1. Top(s) \in s /\ Top(s) \in D  BY <1>2, <2>3
    <3>2. ids[s \ {Top(s)}] \in V /\ Len(ids[s \ {Top(s)}]) = Cardinality(s \ {Top(s)})
      <4> HIDE DEF ids, V, Top
      <4> QED  BY <1>6, <3>1
    <3>3. Cardinality(s \ {Top(s)}) = Cardinality(s) - 1 /\ Cardinality(s) \in Nat
      <4>1. IsFiniteSet(s)  BY <1>0, FS_Subset
      <4> HIDE DEF Top
      <4> QED  BY <3>1, <4>1, FS_RemoveElement, FS_CardinalityType
    <3> HIDE DEF ids, V, Top, Grown, D
    <3> QED  BY <1>3, <2>1, <2>3, <3>1, <3>2, <3>3
  <2> QED  BY <2>2, <2>3
<1>7. D \in Good
  <2>1. \A s \in SUBSET D : (\A x \in s : s \ {x} \in Good) => s \in Good
    <3> HIDE DEF ids, V, D
    <3> QED  BY <1>6
  <2>2. Good \in SUBSET SUBSET D  OBVIOUS
  <2>3. IsFiniteSet(D)  BY <1>0
  <2> HIDE DEF Good, D
  <2> QED  BY <2>1, <2>2, <2>3, SubsetInduction
<1>8. ids[D] \in V /\ Len(ids[D]) = Cardinality(D)
  <2> HIDE DEF ids, V, D
  <2> QED  BY <1>7
<1> DEFINE names == ids[D]
<1> HIDE DEF ids, D, E
<1>9. names \in Seq(N) /\ Unrepeated(names) /\ Len(names) = Cardinality(D)  BY <1>8
<1> HIDE DEF names
<1>10. Cardinality(D) = Len(items)
  <2>1. Cardinality(1..Len(items)) = IF 1 > Len(items) THEN 0 ELSE Len(items) - 1 + 1
    BY <1>0, FS_Interval
  <2> QED  BY <1>0, <2>1
<1>11. DOMAIN names = D /\ \A i \in DOMAIN names : names[i] # NoId
  <2>1. DOMAIN names = 1..Len(names) /\ \A i \in 1..Len(names) : names[i] \in N
    BY <1>9
  <2> QED  BY <1>0, <1>9, <1>10, <2>1
<1>12. ClientIds(prefix, items) = names  BY <1>1 DEF names
<1> QED  BY <1>9, <1>10, <1>11, <1>12 DEF D

LEMMA ListedSet ==
  ASSUME NEW S, IsFiniteSet(S)
  PROVE  LET s == SetToSeq(S)
         IN IsList(s) /\ \A i \in DOMAIN s : s[i] \in S
<1> DEFINE n == Cardinality(S)
           s == SetToSeq(S)
<1>1. n \in Nat  BY FS_CardinalityType
<1>2. PICK f \in Bijection(1..n, S) : TRUE
  BY FS_CardinalityType DEF ExistsBijection
<1>3. f \in [1..n -> S] /\ \A a, b \in 1..n : f[a] = f[b] => a = b
  BY <1>2 DEF Bijection, Injection, IsInjective
<1>4. s = CHOOSE g \in [1..n -> S] : IsInjective(g)
  BY DEF SetToSeq, Cardinality
<1> HIDE DEF n, s
<1>5. IsInjective(f)
  <2>1. DOMAIN f = 1..n  BY <1>3
  <2> QED  BY <1>3, <2>1 DEF IsInjective
<1>6. s \in [1..n -> S]  BY <1>3, <1>4, <1>5
<1>7. IsList(s) /\ \A i \in DOMAIN s : s[i] \in S  BY <1>1, <1>6, MadeList
<1> QED  BY <1>7 DEF s

LEMMA PersonsOf ==
  ASSUME NEW answer, Answered(answer), NEW story, IsFiniteSet(story.characters)
  PROVE  Named(CharacterItems(answer, story)) /\ Named(VoiceItems(answer))
<1>0. Named(answer.characters) /\ Named(answer.voices)  BY DEF Answered
<1>1. Named(CharacterItems(answer, story))
  <2>1. CASE answer.characters # <<>>  BY <1>0, <2>1 DEF CharacterItems
  <2>2. CASE answer.characters = <<>>
    <3> DEFINE S == {[client |-> NoId, row |-> held.row, name |-> held.name,
                      voice |-> NoId] : held \in story.characters}
               f == [held \in story.characters |->
                       [client |-> NoId, row |-> held.row, name |-> held.name,
                        voice |-> NoId]]
               s == SetToSeq(S)
    <3>1. CharacterItems(answer, story) = s  BY <2>2 DEF CharacterItems
    <3>2. IsFiniteSet(S)
      <4>1. f \in Surjection(story.characters, S)  BY DEF Surjection
      <4>2. IsFiniteSet(story.characters)  BY DEF IsFiniteSet
      <4> HIDE DEF f, S
      <4> QED  BY <4>1, <4>2, FS_Surjection
    <3>3. \A x \in S : x.client = NoId  OBVIOUS
    <3>4. IsList(NoId)  BY DEF IsList, NoId
    <3> HIDE DEF S
    <3>5. IsList(s) /\ \A i \in DOMAIN s : s[i] \in S  BY <3>2, ListedSet
    <3> HIDE DEF s
    <3> QED  BY <3>1, <3>3, <3>4, <3>5 DEF Named
  <2> QED  BY <2>1, <2>2
<1>2. Named(VoiceItems(answer))
  <2>1. CASE VoiceItems(answer) = answer.voices  BY <1>0, <2>1
  <2>2. CASE VoiceItems(answer) # answer.voices
    <3> DEFINE x == [client |-> NoId, row |-> NoId, name |-> <<"Narrator">>,
                     character |-> NoId, source |-> "placeholder", mode |-> "",
                     provider |-> NoId, required |-> FALSE, confirmed |-> FALSE,
                     foreign |-> FALSE]
    <3>1. VoiceItems(answer) = <<x>>  BY <2>2 DEF VoiceItems
    <3>2. x.client = NoId /\ IsList(NoId)  BY DEF IsList, NoId
    <3> HIDE DEF x
    <3>3. DOMAIN <<x>> = {1}  OBVIOUS
    <3> QED  BY <3>1, <3>2, <3>3, SingleList DEF Named
  <2> QED  BY <2>1, <2>2
<1> QED  BY <1>1, <1>2

(* A reference that is understood names an item of the plan. *)
LEMMA CharacterIsNamed ==
  ASSUME NEW answer, Answered(answer), NEW story, IsFiniteSet(story.characters),
         NEW reference
  PROVE  CharacterNamed(answer, story, reference) \in
           Clients(Characters(answer, story)) \cup {NoId}
<1> DEFINE items == CharacterItems(answer, story)
           ids == ClientIds("character", items)
           meant == {i \in DOMAIN items :
                       reference \in {items[i].client, items[i].row, items[i].name} \ {NoId}}
<1>1. CharacterNamed(answer, story, reference) =
        IF meant = {} THEN NoId ELSE ids[Max(meant)]
  BY DEF CharacterNamed, Resolve
<1>2. IsFiniteSet(DOMAIN items) /\ DOMAIN items \in SUBSET Int
  BY PersonsOf, ListOf DEF Named
<1>3. meant # {} => Max(meant) \in DOMAIN items
  <2>1. meant \in SUBSET DOMAIN items  OBVIOUS
  <2> HIDE DEF meant, items
  <2> QED  BY <1>2, <2>1, LastOf
<1>4. /\ DOMAIN Characters(answer, story) = DOMAIN items
      /\ \A i \in DOMAIN items : Characters(answer, story)[i].client = ids[i]
  BY DEF Characters
<1>5. \A i \in DOMAIN items : ids[i] \in Clients(Characters(answer, story))
  <2> HIDE DEF items, ids
  <2> QED  BY <1>4 DEF Clients
<1> HIDE DEF meant, items, ids
<1> QED  BY <1>1, <1>3, <1>5

LEMMA VoiceIsNamed ==
  ASSUME NEW answer, Answered(answer), NEW story, IsFiniteSet(story.characters),
         NEW reference
  PROVE  VoiceNamed(answer, story, reference) \in
           Clients(Voices(answer, story)) \cup {NoId}
<1> DEFINE items == VoiceItems(answer)
           ids == ClientIds("voice", items)
           meant == {i \in DOMAIN items :
                       reference \in {items[i].client, items[i].row, items[i].name,
                                      KnownVoice(story, items[i]).row} \ {NoId}}
<1>1. VoiceNamed(answer, story, reference) =
        IF meant = {} THEN NoId ELSE ids[Max(meant)]
  BY DEF VoiceNamed, Resolve
<1>2. IsFiniteSet(DOMAIN items) /\ DOMAIN items \in SUBSET Int
  BY PersonsOf, ListOf DEF Named
<1>3. meant # {} => Max(meant) \in DOMAIN items
  <2>1. meant \in SUBSET DOMAIN items  OBVIOUS
  <2> HIDE DEF meant, items
  <2> QED  BY <1>2, <2>1, LastOf
<1>4. /\ DOMAIN Voices(answer, story) = DOMAIN items
      /\ \A i \in DOMAIN items : Voices(answer, story)[i].client = ids[i]
  BY DEF Voices
<1>5. \A i \in DOMAIN items : ids[i] \in Clients(Voices(answer, story))
  <2> HIDE DEF items, ids
  <2> QED  BY <1>4 DEF Clients
<1> HIDE DEF meant, items, ids
<1> QED  BY <1>1, <1>3, <1>5

(* The shots of an assembled plan, and the source each of them is given. *)
LEMMA AssembledChain ==
  ASSUME NEW answer, NEW story, NEW target, NEW at \in 1..Count(answer, target)
  PROVE  LET p == Assembled(answer, story, target)
             n == Count(answer, target)
             ids == ClientIds("shot", [i \in 1..n |-> Template(answer, i)])
             earlier(i) == {k \in 1..n : Earlier(Place(p, k), Place(p, i))}
             shot == p.shots[at]
         IN /\ shot = Continuing(Shot(answer, story, target, ids, at), shot.source)
            /\ earlier(at) = {} => shot.source = NoId
            /\ (\E k \in earlier(at) : earlier(k) = earlier(at) \ {k}) =>
                 \E k \in earlier(at) : shot.source = ids[k]
<1> DEFINE n == Count(answer, target)
           ids == ClientIds("shot", [i \in 1..n |-> Template(answer, i)])
           Planned(i) == Shot(answer, story, target, ids, i)
           plan == [target |-> target, characters |-> Characters(answer, story),
                    voices |-> Voices(answer, story), chapters |-> ChapterTree(answer),
                    scenes |-> SceneTree(answer), shots |-> [i \in 1..n |-> Planned(i)]]
           p == Assembled(answer, story, target)
           earlier(i) == {k \in 1..n : Earlier(Place(p, k), Place(p, i))}
           first(i) == {k \in DOMAIN plan.shots : Earlier(Place(plan, k), Place(plan, i))}
           source(i) ==
             IF first(i) = {} THEN NoId
             ELSE plan.shots[CHOOSE k \in first(i) : first(k) = first(i) \ {k}].client
<1>1. p = [plan EXCEPT !.shots = Chain(plan)]
  BY DEF Assembled
<1>2. p.shots = Chain(plan) /\ p.chapters = plan.chapters /\ p.scenes = plan.scenes
  BY <1>1
<1>3. DOMAIN plan.shots = 1..n /\ \A i \in 1..n : plan.shots[i] = Planned(i)
  OBVIOUS
<1>4. \A i \in 1..n : p.shots[i] = Continuing(Planned(i), source(i))
  <2>1. Chain(plan) = [i \in DOMAIN plan.shots |-> Continuing(plan.shots[i], source(i))]
    BY DEF Chain
  <2> HIDE DEF plan, source, Planned
  <2> QED BY <1>2, <1>3, <2>1
<1>5. ASSUME NEW i \in 1..n  PROVE Planned(i).client = ids[i]
  BY DEF Shot
<1>6. ASSUME NEW i \in 1..n  PROVE Place(p, i) = Place(plan, i)
  <2>1. \A s : /\ Continuing(Planned(i), s).scene = Planned(i).scene
               /\ Continuing(Planned(i), s).order = Planned(i).order
    BY DEF Continuing, Shot
  <2>2. p.shots[i].scene = plan.shots[i].scene /\ p.shots[i].order = plan.shots[i].order
    <3> HIDE DEF p, plan, Planned, source
    <3> QED  BY <1>3, <1>4, <2>1
  <2> HIDE DEF p, plan
  <2> QED  BY <1>2, <2>2 DEF Place
<1>7. ASSUME NEW i \in 1..n  PROVE first(i) = earlier(i)
  <2> HIDE DEF p, plan
  <2> QED  BY <1>3, <1>6, <1>7
<1>8. p.shots[at].source = source(at) /\ p.shots[at] = Continuing(Planned(at), source(at))
  <2>1. \A s : Continuing(Planned(at), s).source = s
    BY DEF Continuing, Shot
  <2> HIDE DEF p, Planned, source
  <2> QED  BY <1>4, <2>1
<1>9. earlier(at) = {} => source(at) = NoId
  <2> HIDE DEF earlier, first
  <2> QED  BY <1>7
<1>10. ASSUME \E k \in earlier(at) : earlier(k) = earlier(at) \ {k}
       PROVE  \E k \in earlier(at) : source(at) = ids[k]
  <2> DEFINE last == CHOOSE k \in first(at) : first(k) = first(at) \ {k}
  <2>1. \E k \in first(at) : first(k) = first(at) \ {k}
    <3>1. \A k \in earlier(at) : k \in 1..n  OBVIOUS
    <3> HIDE DEF earlier, first
    <3> QED  BY <1>7, <1>10, <3>1
  <2>2. last \in first(at)
    <3> HIDE DEF first
    <3> QED  BY <2>1
  <2>3. last \in earlier(at) /\ last \in 1..n
    <3> HIDE DEF last
    <3> QED  BY <1>7, <2>2
  <2>4. source(at) = plan.shots[last].client
    <3> HIDE DEF first, plan
    <3> QED  BY <2>1
  <2>5. source(at) = ids[last]
    <3> HIDE DEF first, plan, last, source, ids, Planned
    <3> QED  BY <1>3, <1>5, <2>3, <2>4
  <2> HIDE DEF first, last, source, ids, earlier
  <2> QED  BY <2>3, <2>5
<1> DEFINE origin == p.shots[at].source
<1>11. /\ p.shots[at] = Continuing(Planned(at), origin)
       /\ earlier(at) = {} => origin = NoId
       /\ (\E k \in earlier(at) : earlier(k) = earlier(at) \ {k}) =>
            \E k \in earlier(at) : origin = ids[k]
  <2> HIDE DEF p, Planned, source, earlier, ids
  <2> QED  BY <1>8, <1>9, <1>10
<1> QED  BY <1>11

LEMMA ItemsNamed ==
  ASSUME NEW answer, Answered(answer), NEW n \in Nat
  PROVE  /\ Named(ChapterItems(answer)) /\ Named(SceneItems(answer))
         /\ Named([i \in 1..n |-> Template(answer, i)])
<1>0. Named(answer.chapters) /\ Named(answer.scenes) /\ Named(answer.shots)  BY DEF Answered
<1>1. ASSUME NEW x, x.client = NoId  PROVE Named(<<x>>)
  <2>1. IsList(NoId)  BY DEF IsList, NoId
  <2>2. DOMAIN <<x>> = {1}  OBVIOUS
  <2> QED  BY <1>1, <2>1, <2>2, SingleList DEF Named
<1>2. Named(ChapterItems(answer))
  <2>1. CASE answer.chapters # <<>>  BY <1>0, <2>1 DEF ChapterItems
  <2>2. CASE answer.chapters = <<>>
    <3> DEFINE x == [client |-> NoId, row |-> NoId]
    <3>1. ChapterItems(answer) = <<x>> /\ x.client = NoId  BY <2>2 DEF ChapterItems
    <3> HIDE DEF x
    <3> QED  BY <1>1, <3>1
  <2> QED  BY <2>1, <2>2
<1>3. Named(SceneItems(answer))
  <2>1. CASE answer.scenes # <<>>  BY <1>0, <2>1 DEF SceneItems
  <2>2. CASE answer.scenes = <<>>
    <3> DEFINE x == [client |-> NoId, row |-> NoId, chapter |-> 0]
    <3>1. SceneItems(answer) = <<x>> /\ x.client = NoId  BY <2>2 DEF SceneItems
    <3> HIDE DEF x
    <3> QED  BY <1>1, <3>1
  <2> QED  BY <2>1, <2>2
<1>4. Named(ShotItems(answer))
  <2>1. CASE answer.shots # <<>>  BY <1>0, <2>1 DEF ShotItems
  <2>2. CASE answer.shots = <<>>
    <3> DEFINE x == OpeningShot
    <3>1. ShotItems(answer) = <<x>> /\ x.client = NoId
      BY <2>2 DEF ShotItems, OpeningShot
    <3> HIDE DEF x
    <3> QED  BY <1>1, <3>1
  <2> QED  BY <2>1, <2>2
<1>5. Named([i \in 1..n |-> Template(answer, i)])
  <2> DEFINE items == [i \in 1..n |-> Template(answer, i)]
             shots == ShotItems(answer)
  <2>1. IsList(items)
    <3>1. items \in [1..n -> {Template(answer, i) : i \in 1..n}]  OBVIOUS
    <3> HIDE DEF items
    <3> QED  BY <3>1, MadeList
  <2>2. ASSUME NEW i \in 1..n  PROVE IsList(items[i].client)
    <3>1. Len(shots) \in Nat \ {0} /\ DOMAIN shots = 1..Len(shots)  BY ItemsOf
    <3> DEFINE k == 1 + ((i - 1) % Len(shots))
    <3>2. items[i] = shots[k]  BY DEF Template
    <3>3. k \in DOMAIN shots
      <4> HIDE DEF shots
      <4> QED  BY <3>1
    <3> HIDE DEF k, shots, items
    <3> QED  BY <1>4, <3>2, <3>3 DEF Named, shots
  <2> QED  BY <2>1, <2>2 DEF Named
<1> QED  BY <1>2, <1>3, <1>5

(* Items that are called by these names differ in them. *)
LEMMA NamesAreDistinct ==
  ASSUME NEW prefix, NEW items, Named(items), NEW rows, DOMAIN rows = DOMAIN items,
         \A i \in DOMAIN items : rows[i].client = ClientIds(prefix, items)[i]
  PROVE  /\ Distinct(rows, DOMAIN rows) /\ \A S \in SUBSET DOMAIN rows : Distinct(rows, S)
         /\ NoId \notin Clients(rows)
<1> DEFINE ids == ClientIds(prefix, items)
<1>1. /\ Unrepeated(ids) /\ Len(ids) = Len(items) /\ DOMAIN ids = DOMAIN items
      /\ \A i \in DOMAIN ids : ids[i] # NoId
  BY NamesOf
<1>2. DOMAIN items = 1..Len(items)  BY ListOf DEF Named
<1> HIDE DEF ids
<1>3. \A i, j \in DOMAIN rows : rows[i].client = rows[j].client => i = j
  BY <1>1, <1>2 DEF Unrepeated, ids
<1> QED  BY <1>1, <1>3 DEF Distinct, Clients, ids

LEMMA AssembledNames ==
  ASSUME NEW answer, Answered(answer), NEW story, IsFiniteSet(story.characters),
         NEW target \in Nat
  PROVE  LET p == Assembled(answer, story, target)
         IN /\ NamesUnique(p)
            /\ NoId \notin Clients(p.shots)
<1> DEFINE p == Assembled(answer, story, target)
           n == Count(answer, target)
           templates == [i \in 1..n |-> Template(answer, i)]
<1>1. /\ p.characters = Characters(answer, story) /\ p.voices = Voices(answer, story)
      /\ p.chapters = ChapterTree(answer) /\ p.scenes = SceneTree(answer)
      /\ DOMAIN p.shots = 1..n
  BY AssembledShots
<1>2. n \in Nat
  <2>1. Len(ShotItems(answer)) \in Nat  BY ItemsOf
  <2> QED  BY <2>1, AssembledLength
<1>3. \A i \in 1..n : p.shots[i].client = ClientIds("shot", templates)[i]
  <2>1. ASSUME NEW i, NEW s
        PROVE  Continuing(Shot(answer, story, target, ClientIds("shot", templates), i), s).client
                 = ClientIds("shot", templates)[i]
    BY DEF Continuing, Shot
  <2>2. ASSUME NEW i \in 1..n
        PROVE  p.shots[i] =
                 Continuing(Shot(answer, story, target, ClientIds("shot", templates), i),
                            p.shots[i].source)
    BY AssembledChain
  <2> HIDE DEF p, n, templates
  <2> QED  BY <2>1, <2>2
<1> HIDE DEF p, n
<1>4. Named(templates) /\ DOMAIN templates = 1..n  BY <1>2, ItemsNamed
<1> HIDE DEF templates
<1>5. Distinct(p.shots, DOMAIN p.shots) /\ NoId \notin Clients(p.shots)
  <2>1. /\ DOMAIN p.shots = DOMAIN templates
        /\ \A i \in DOMAIN templates : p.shots[i].client = ClientIds("shot", templates)[i]
    BY <1>1, <1>3, <1>4
  <2> QED  BY <1>4, <2>1, NamesAreDistinct
<1>6. Distinct(p.characters, DOMAIN p.characters)
  <2>1. /\ DOMAIN p.characters = DOMAIN CharacterItems(answer, story)
        /\ \A i \in DOMAIN CharacterItems(answer, story) :
             p.characters[i].client = ClientIds("character", CharacterItems(answer, story))[i]
    <3>1. /\ DOMAIN Characters(answer, story) = DOMAIN CharacterItems(answer, story)
          /\ \A i \in DOMAIN CharacterItems(answer, story) :
               Characters(answer, story)[i].client =
                 ClientIds("character", CharacterItems(answer, story))[i]
      BY DEF Characters
    <3> QED  BY <1>1, <3>1
  <2> QED  BY <2>1, PersonsOf, NamesAreDistinct
<1>7. Distinct(p.voices, DOMAIN p.voices)
  <2>1. /\ DOMAIN p.voices = DOMAIN VoiceItems(answer)
        /\ \A i \in DOMAIN VoiceItems(answer) :
             p.voices[i].client = ClientIds("voice", VoiceItems(answer))[i]
    <3>1. /\ DOMAIN Voices(answer, story) = DOMAIN VoiceItems(answer)
          /\ \A i \in DOMAIN VoiceItems(answer) :
               Voices(answer, story)[i].client = ClientIds("voice", VoiceItems(answer))[i]
      BY DEF Voices
    <3> QED  BY <1>1, <3>1
  <2> QED  BY <2>1, PersonsOf, NamesAreDistinct
<1>8. Distinct(p.chapters, DOMAIN p.chapters)
  <2>1. /\ DOMAIN p.chapters = DOMAIN ChapterItems(answer)
        /\ \A i \in DOMAIN ChapterItems(answer) :
             p.chapters[i].client = ClientIds("chapter", ChapterItems(answer))[i]
    BY <1>1 DEF ChapterTree
  <2> QED  BY <1>2, <2>1, ItemsNamed, NamesAreDistinct
<1>9. \A c : Distinct(p.scenes, ScenesOf(p, c))
  <2>1. /\ DOMAIN p.scenes = DOMAIN SceneItems(answer)
        /\ \A i \in DOMAIN SceneItems(answer) :
             p.scenes[i].client = ClientIds("scene", SceneItems(answer))[i]
    <3>1. /\ DOMAIN SceneTree(answer) = DOMAIN SceneItems(answer)
          /\ \A i \in DOMAIN SceneItems(answer) :
               SceneTree(answer)[i].client = ClientIds("scene", SceneItems(answer))[i]
      BY DEF SceneTree
    <3> QED  BY <1>1, <3>1
  <2>2. Distinct(p.scenes, DOMAIN p.scenes)  BY <1>2, <2>1, ItemsNamed, NamesAreDistinct
  <2> QED  BY <2>2 DEF Distinct, ScenesOf
<1>10. \A s : Distinct(p.shots, ShotsOf(p, s))
  BY <1>5 DEF Distinct, ShotsOf
<1> QED  BY <1>5, <1>6, <1>7, <1>8, <1>9, <1>10 DEF NamesUnique, NamesUniqueWithin, p

LEMMA PersonsListed ==
  ASSUME NEW answer, Answered(answer), NEW story, IsFiniteSet(story.characters)
  PROVE  /\ IsList(Characters(answer, story)) /\ IsList(Voices(answer, story))
         /\ Characters(answer, story) # <<>> =>
              Characters(answer, story)[1].client \in Clients(Characters(answer, story))
         /\ Voices(answer, story) # <<>> =>
              Voices(answer, story)[1].client \in Clients(Voices(answer, story))
<1>1. ASSUME NEW items, IsList(items), NEW rows,
             rows = [i \in DOMAIN items |-> rows[i]]
      PROVE  IsList(rows) /\ (rows # <<>> => rows[1].client \in Clients(rows))
  <2>1. Len(items) \in Nat /\ DOMAIN items = 1..Len(items)  BY <1>1, ListOf
  <2>2. rows \in [1..Len(items) -> {rows[i] : i \in 1..Len(items)}]  BY <1>1, <2>1
  <2>3. IsList(rows)  BY <2>1, <2>2, MadeList
  <2>4. rows # <<>> => 1 \in DOMAIN rows  BY <2>3, ListOf
  <2> QED  BY <2>3, <2>4 DEF Clients
<1>2. Characters(answer, story) =
        [i \in DOMAIN CharacterItems(answer, story) |-> Characters(answer, story)[i]]
  BY DEF Characters
<1>3. Voices(answer, story) = [i \in DOMAIN VoiceItems(answer) |-> Voices(answer, story)[i]]
  BY DEF Voices
<1>4. IsList(CharacterItems(answer, story)) /\ IsList(VoiceItems(answer))
  BY PersonsOf DEF Named
<1> QED  BY <1>1, <1>2, <1>3, <1>4

LEMMA CastIsKnown ==
  ASSUME NEW answer, Answered(answer), NEW story, IsFiniteSet(story.characters),
         NEW i \in Nat \ {0}
  PROVE  Range(CastOf(answer, story, i)) \subseteq Clients(Characters(answer, story))
<1> DEFINE given == Template(answer, i).cast
           named == [k \in DOMAIN given |-> CharacterNamed(answer, story, given[k])]
           C == {CharacterNamed(answer, story, given[k]) : k \in DOMAIN given}
           once == FoldLeft(Also, <<>>, named)
           characters == Characters(answer, story)
<1>1. once \in {s \in Seq(C \ {NoId}) : Unrepeated(s)}
  BY NamedOnce
<1>2. C \subseteq Clients(characters) \cup {NoId}
  BY CharacterIsNamed
<1>3. CastOf(answer, story, i) = IF once = <<>> /\ characters # <<>>
                                 THEN <<characters[1].client>> ELSE once
  BY DEF CastOf
<1>4. characters # <<>> => characters[1].client \in Clients(characters)
  BY PersonsListed
<1> HIDE DEF once, C, characters
<1>5. Range(once) \subseteq Clients(characters)
  <2>0. once \in Seq(C \ {NoId})  BY <1>1
  <2>1. Range(once) \subseteq C \ {NoId}  BY <2>0 DEF Range
  <2> QED  BY <1>2, <2>1
<1>6. \A x : Range(<<x>>) = {x}  BY DEF Range
<1> QED  BY <1>3, <1>4, <1>5, <1>6 DEF characters

LEMMA VoiceIsKnown ==
  ASSUME NEW answer, Answered(answer), NEW story, IsFiniteSet(story.characters), NEW i
  PROVE  Narration(answer, story, i).voice \in Clients(Voices(answer, story)) \cup {NoId}
<1> DEFINE given == NarrationOf(answer, i)
           voice == VoiceNamed(answer, story, given.voice)
           voices == Voices(answer, story)
<1>1. Narration(answer, story, i).voice =
        IF given.text /\ voice = NoId /\ voices # <<>> THEN voices[1].client ELSE voice
  BY DEF Narration
<1>2. voice \in Clients(voices) \cup {NoId}
  BY VoiceIsNamed
<1>3. voices # <<>> => voices[1].client \in Clients(voices)
  BY PersonsListed
<1> HIDE DEF voice, voices
<1> QED  BY <1>1, <1>2, <1>3 DEF voices

LEMMA VoiceIsAssigned ==
  ASSUME NEW answer, Answered(answer), NEW story, IsFiniteSet(story.characters),
         NEW i \in DOMAIN CharacterItems(answer, story)
  PROVE  Characters(answer, story)[i].voice \in Clients(Voices(answer, story)) \cup {NoId}
<1> DEFINE items == CharacterItems(answer, story)
           ids == ClientIds("character", items)
           voices == Voices(answer, story)
           mine == {k \in 1..Len(voices) : voices[k].character = ids[i]}
           own == IF mine # {} THEN Min(mine) ELSE 0
           known == KnownCharacter(story, items[i])
           given == VoiceNamed(answer, story,
                      IF items[i].voice # NoId THEN items[i].voice ELSE known.voice)
<1>1. Characters(answer, story)[i].voice =
        IF given # NoId THEN given ELSE IF own # 0 THEN voices[own].client ELSE NoId
  BY DEF Characters, SelectInSeq
<1>2. given \in Clients(voices) \cup {NoId}
  BY VoiceIsNamed
<1>3. own # 0 => voices[own].client \in Clients(voices)
  <2>1. Len(voices) \in Nat /\ DOMAIN voices = 1..Len(voices)
    BY PersonsListed, ListOf
  <2>2. mine # {} => Min(mine) \in mine
    <3>1. mine \in SUBSET Int /\ IsFiniteSet(mine)
      <4> DEFINE all == 1..Len(voices)
      <4>1. mine \in SUBSET all  OBVIOUS
      <4>2. IsFiniteSet(all) /\ all \in SUBSET Int
        <5> HIDE DEF voices
        <5> QED  BY <2>1, FS_Interval
      <4> HIDE DEF mine, all
      <4> QED  BY <4>1, <4>2, FS_Subset
    <3> HIDE DEF mine
    <3> QED  BY <3>1, SmallestOf DEF Min, Smallest
  <2>3. own # 0 => own \in DOMAIN voices
    <3>1. \A k \in mine : k \in DOMAIN voices  BY <2>1
    <3> HIDE DEF mine, voices
    <3> QED  BY <2>2, <3>1
  <2> HIDE DEF own, voices
  <2> QED  BY <2>3 DEF Clients
<1> HIDE DEF given, own, voices
<1> QED  BY <1>1, <1>2, <1>3 DEF voices

Prior(f, i) == {k \in 1..i - 1 : f[k] = f[i]}
Having(n, f, v) == {i \in 1..n : f[i] = v}

(* Ranks among the items before with the same parent are 0, 1, 2 ...        *)
LEMMA RanksAreContiguous ==
  ASSUME NEW n \in Nat, NEW f, NEW v, NEW items,
         \A i \in 1..n : items[i].order = Cardinality(Prior(f, i))
  PROVE  Contiguous(items, Having(n, f, v))
<1> DEFINE S == Having(n, f, v)
           m == Cardinality(S)
           prior(i) == {k \in S : k < i}
           r == [i \in S |-> Cardinality(prior(i))]
<1>1. IsFiniteSet(S) /\ m \in Nat /\ S \in SUBSET Int
  <2> DEFINE all == 1..n
  <2>1. IsFiniteSet(all)  BY FS_Interval
  <2>2. S \in SUBSET all /\ S \in SUBSET Int  BY DEF Having
  <2> HIDE DEF S, all
  <2> QED  BY <2>1, <2>2, FS_Subset, FS_CardinalityType
<1>2. ASSUME NEW i \in S  PROVE items[i].order = Cardinality(prior(i))
  <2>1. Prior(f, i) = prior(i)  BY DEF Prior, Having
  <2>2. i \in 1..n  BY DEF Having
  <2> HIDE DEF prior, S
  <2> QED  BY <2>1, <2>2
<1> HIDE DEF S
<1>3. ASSUME NEW i \in S  PROVE Cardinality(prior(i)) \in 0..m - 1
  <2>1. prior(i) \in SUBSET S /\ i \in S \ prior(i)  BY <1>1
  <2> HIDE DEF prior
  <2>2. Cardinality(prior(i)) \in Nat /\ Cardinality(prior(i)) < m  BY <1>1, <2>1, LessMembers
  <2> QED  BY <1>1, <2>2
<1>4. ASSUME NEW i \in S, NEW j \in S, i < j
      PROVE  Cardinality(prior(i)) # Cardinality(prior(j))
  <2>0. i \in Int /\ j \in Int /\ \A k \in S : k \in Int  BY <1>1
  <2>1. /\ prior(j) \in SUBSET S /\ prior(i) \in SUBSET prior(j)
        /\ i \in prior(j) \ prior(i)
    <3>1. prior(j) \in SUBSET S /\ i \in prior(j) \ prior(i)  BY <1>4, <2>0
    <3>2. \A k \in S : k < i => k < j  BY <1>4, <2>0
    <3> QED  BY <3>1, <3>2
  <2> HIDE DEF prior
  <2>2. IsFiniteSet(prior(j))  BY <1>1, <2>1, FS_Subset
  <2>3. /\ Cardinality(prior(i)) \in Nat /\ Cardinality(prior(j)) \in Nat
        /\ Cardinality(prior(i)) < Cardinality(prior(j))
    BY <2>1, <2>2, LessMembers
  <2> QED  BY <2>3
<1> HIDE DEF prior
<1>5. r \in [S -> 0..m - 1]  BY <1>3
<1>6. r \in Injection(S, 0..m - 1)
  <2>1. ASSUME NEW i \in S, NEW j \in S, r[i] = r[j]  PROVE i = j
    <3>1. i < j \/ j < i \/ i = j  BY <1>1
    <3> QED  BY <1>4, <2>1, <3>1
  <2> HIDE DEF r
  <2> QED  BY <1>5, <2>1 DEF Injection, IsInjective
<1>7. IsFiniteSet(0..m - 1) /\ Cardinality(0..m - 1) = m
  <2>1. /\ IsFiniteSet(0..m - 1)
        /\ Cardinality(0..m - 1) = IF 0 > m - 1 THEN 0 ELSE (m - 1) - 0 + 1
    BY <1>1, FS_Interval
  <2> QED  BY <1>1, <2>1
<1>8. r \in Surjection(S, 0..m - 1)
  <2> HIDE DEF r, m
  <2> DEFINE T == 0..m - 1
  <2>1. Cardinality(S) = Cardinality(T) /\ IsFiniteSet(T)  BY <1>7 DEF m
  <2>2. r \in Injection(S, T)  BY <1>6
  <2> HIDE DEF T
  <2>3. r \in Surjection(S, T)  BY <2>1, <2>2, FS_Injection
  <2> QED  BY <2>3 DEF T
<1>9. {items[i].order : i \in S} = 0..m - 1
  <2>1. {r[i] : i \in S} = 0..m - 1
    <3> HIDE DEF r, m
    <3> QED  BY <1>8, <1>5 DEF Surjection
  <2>2. \A i \in S : items[i].order = r[i]  BY <1>2
  <2> HIDE DEF r, m
  <2> QED  BY <2>1, <2>2
<1> QED  BY <1>9 DEF Contiguous, S

LEMMA AssembledIsOrdered ==
  ASSUME NEW answer, Answered(answer), NEW story, NEW target \in Nat
  PROVE  Ordered(Assembled(answer, story, target))
<1> DEFINE p == Assembled(answer, story, target)
           n == Count(answer, target)
           chapters == ChapterItems(answer)
           scenes == SceneItems(answer)
           f == [i \in 1..n |-> SceneOf(answer, target, i)]
           g == [s \in 1..Len(scenes) |-> ChapterOf(answer, s)]
<1>1. /\ p.chapters = ChapterTree(answer) /\ p.scenes = SceneTree(answer)
      /\ DOMAIN p.shots = 1..n
  BY AssembledShots
<1>2. /\ Len(chapters) \in Nat /\ DOMAIN chapters = 1..Len(chapters)
      /\ Len(scenes) \in Nat /\ DOMAIN scenes = 1..Len(scenes)
      /\ n \in Nat
  <2>1. Len(ShotItems(answer)) \in Nat  BY ItemsOf
  <2>2. n \in Nat  BY <2>1, AssembledLength
  <2> HIDE DEF n
  <2> QED  BY <2>2, ItemsOf
<1>3. Contiguous(p.chapters, DOMAIN p.chapters)
  <2> DEFINE m == Len(chapters)
  <2>1. DOMAIN ChapterTree(answer) = DOMAIN chapters
        /\ \A c \in DOMAIN chapters : ChapterTree(answer)[c].order = c - 1
    BY DEF ChapterTree
  <2>2. DOMAIN p.chapters = 1..m /\ \A c \in 1..m : p.chapters[c].order = c - 1
    <3> HIDE DEF p, chapters
    <3> QED  BY <1>1, <1>2, <2>1
  <2>3. Cardinality(1..m) = m
    <3>1. m \in Nat  BY <1>2
    <3> HIDE DEF m
    <3>2. Cardinality(1..m) = IF 1 > m THEN 0 ELSE m - 1 + 1  BY <3>1, FS_Interval
    <3> QED  BY <3>1, <3>2
  <2>4. {c - 1 : c \in 1..m} = 0..m - 1
    <3>1. \A x \in 0..m - 1 : x + 1 \in 1..m /\ (x + 1) - 1 = x  BY <1>2
    <3>2. \A c \in 1..m : c - 1 \in 0..m - 1  BY <1>2
    <3> HIDE DEF m
    <3> QED  BY <3>1, <3>2
  <2> HIDE DEF p, m
  <2>5. {p.chapters[c].order : c \in 1..m} = {c - 1 : c \in 1..m}  BY <2>2
  <2> QED  BY <2>2, <2>3, <2>4, <2>5 DEF Contiguous
<1>4. \A c \in DOMAIN p.chapters : Contiguous(p.scenes, ScenesOf(p, c))
  <2> SUFFICES ASSUME NEW c  PROVE Contiguous(p.scenes, ScenesOf(p, c))
    OBVIOUS
  <2>1. /\ DOMAIN SceneTree(answer) = DOMAIN scenes
        /\ \A s \in DOMAIN scenes :
             /\ SceneTree(answer)[s].chapter = ChapterOf(answer, s)
             /\ SceneTree(answer)[s].order =
                  Cardinality({k \in 1..s - 1 : ChapterOf(answer, k) = ChapterOf(answer, s)})
    BY DEF SceneTree, Rank
  <2> DEFINE m == Len(scenes)
  <2>2. /\ DOMAIN p.scenes = 1..m
        /\ \A s \in 1..m :
             /\ p.scenes[s].chapter = g[s]
             /\ p.scenes[s].order = Cardinality(Prior(g, s))
    <3>1. ASSUME NEW s \in 1..m
          PROVE  {k \in 1..s - 1 : ChapterOf(answer, k) = ChapterOf(answer, s)}
                   = Prior(g, s)
      <4>1. \A k \in 1..s - 1 : k \in 1..m  BY <1>2
      <4> HIDE DEF m, scenes
      <4> QED  BY <4>1 DEF m, Prior
    <3> HIDE DEF p, scenes
    <3> QED  BY <1>1, <1>2, <2>1, <3>1
  <2> HIDE DEF p, m, g
  <2>3. ScenesOf(p, c) = Having(m, g, c)  BY <2>2 DEF ScenesOf, Having
  <2>4. m \in Nat  BY <1>2 DEF m
  <2>5. Contiguous(p.scenes, Having(m, g, c))  BY <2>2, <2>4, RanksAreContiguous
  <2> QED  BY <2>3, <2>5
<1>5. \A s \in DOMAIN p.scenes : Contiguous(p.shots, ShotsOf(p, s))
  <2> SUFFICES ASSUME NEW s  PROVE Contiguous(p.shots, ShotsOf(p, s))
    OBVIOUS
  <2> DEFINE ids == ClientIds("shot", [i \in 1..n |-> Template(answer, i)])
             Planned(i) == Shot(answer, story, target, ids, i)
  <2>1. ASSUME NEW i \in 1..n
        PROVE  /\ p.shots[i].scene = SceneOf(answer, target, i)
               /\ p.shots[i].order =
                    Cardinality({k \in 1..i - 1 :
                                   SceneOf(answer, target, k) = SceneOf(answer, target, i)})
    <3>1. p.shots[i] = Continuing(Planned(i), p.shots[i].source)
      BY AssembledChain
    <3>2. \A x : /\ Continuing(Planned(i), x).scene = SceneOf(answer, target, i)
                 /\ Continuing(Planned(i), x).order =
                      Cardinality({k \in 1..i - 1 :
                                     SceneOf(answer, target, k) = SceneOf(answer, target, i)})
      BY DEF Continuing, Shot, Rank
    <3> HIDE DEF p, Planned
    <3> QED  BY <3>1, <3>2
  <2>2. ASSUME NEW i \in 1..n
        PROVE  /\ p.shots[i].scene = f[i]
               /\ p.shots[i].order = Cardinality(Prior(f, i))
    <3>1. {k \in 1..i - 1 : SceneOf(answer, target, k) = SceneOf(answer, target, i)}
            = Prior(f, i)
      <4>1. \A k \in 1..i - 1 : k \in 1..n  BY <1>2
      <4> HIDE DEF n
      <4> QED  BY <4>1 DEF Prior
    <3> HIDE DEF p, n
    <3> QED  BY <2>1, <3>1
  <2> HIDE DEF p, n, f
  <2>3. ShotsOf(p, s) = Having(n, f, s)  BY <1>1, <2>2 DEF ShotsOf, Having
  <2>4. Contiguous(p.shots, Having(n, f, s))  BY <1>2, <2>2, RanksAreContiguous
  <2> QED  BY <2>3, <2>4
<1> QED  BY <1>3, <1>4, <1>5 DEF Ordered

(* The canonical order *)

LEMMA EarlierByParts ==
  ASSUME NEW a, DOMAIN a = 1..3, \A k \in 1..3 : a[k] \in Int,
         NEW b, DOMAIN b = 1..3, \A k \in 1..3 : b[k] \in Int
  PROVE  Earlier(a, b) <=> \/ a[1] < b[1]
                           \/ a[1] = b[1] /\ a[2] < b[2]
                           \/ a[1] = b[1] /\ a[2] = b[2] /\ a[3] < b[3]
<1>1. Earlier(a, b) <=> \E k \in {1, 2, 3} : a[k] < b[k] /\ \A l \in 1..k - 1 : a[l] = b[l]
  BY 1..3 = {1, 2, 3} DEF Earlier
<1>2. 1..1 - 1 = {} /\ 1..2 - 1 = {1} /\ 1..3 - 1 = {1, 2}
  OBVIOUS
<1> QED  BY <1>1, <1>2

LEMMA PlacesDiffer ==
  ASSUME NEW p, Shaped(p), Ordered(p), NEW i \in DOMAIN p.shots, NEW j \in DOMAIN p.shots,
         \A k \in 1..3 : Place(p, i)[k] = Place(p, j)[k]
  PROVE  i = j
<1> DEFINE s == p.shots[i].scene
           t == p.shots[j].scene
           c == p.scenes[s].chapter
           d == p.scenes[t].chapter
<1>1. /\ s \in DOMAIN p.scenes /\ t \in DOMAIN p.scenes
      /\ c \in DOMAIN p.chapters /\ d \in DOMAIN p.chapters
  BY DEF Shaped
<1>2. /\ Place(p, i) = <<p.chapters[c].order, p.scenes[s].order, p.shots[i].order>>
      /\ Place(p, j) = <<p.chapters[d].order, p.scenes[t].order, p.shots[j].order>>
  BY DEF Place
<1>3. /\ s \in ScenesOf(p, c) /\ t \in ScenesOf(p, d)
      /\ i \in ShotsOf(p, s) /\ j \in ShotsOf(p, t)
  BY <1>1 DEF ScenesOf, ShotsOf
<1> HIDE DEF s, t, c, d
<1>4. /\ p.chapters[c].order = p.chapters[d].order /\ p.scenes[s].order = p.scenes[t].order
      /\ p.shots[i].order = p.shots[j].order
  <2>1. 1 \in 1..3 /\ 2 \in 1..3 /\ 3 \in 1..3  OBVIOUS
  <2> QED  BY <1>2, <2>1
<1>5. /\ IsFiniteSet(DOMAIN p.chapters) /\ IsFiniteSet(ScenesOf(p, c))
      /\ IsFiniteSet(ShotsOf(p, s))
  <2>1. /\ IsFiniteSet(DOMAIN p.chapters) /\ IsFiniteSet(DOMAIN p.scenes)
        /\ IsFiniteSet(DOMAIN p.shots)
    BY ListOf DEF Shaped
  <2>2. ScenesOf(p, c) \in SUBSET DOMAIN p.scenes /\ ShotsOf(p, s) \in SUBSET DOMAIN p.shots
    BY DEF ScenesOf, ShotsOf
  <2> QED  BY <2>1, <2>2, FS_Subset
<1>6. c = d
  <2>1. Contiguous(p.chapters, DOMAIN p.chapters)  BY DEF Ordered
  <2> QED  BY <1>1, <1>4, <1>5, <2>1, OrdersDiffer
<1>7. s = t
  <2>1. Contiguous(p.scenes, ScenesOf(p, c))  BY <1>1 DEF Ordered
  <2> QED  BY <1>3, <1>4, <1>5, <1>6, <2>1, OrdersDiffer
<1>8. Contiguous(p.shots, ShotsOf(p, s))  BY <1>1 DEF Ordered
<1> QED  BY <1>3, <1>4, <1>5, <1>7, <1>8, OrdersDiffer

LEMMA PlacesAreOrdered ==
  ASSUME NEW p, Shaped(p), Ordered(p),
         NEW i \in DOMAIN p.shots, NEW j \in DOMAIN p.shots, NEW k \in DOMAIN p.shots
  PROVE  /\ ~Earlier(Place(p, i), Place(p, i))
         /\ i # j => Earlier(Place(p, i), Place(p, j)) \/ Earlier(Place(p, j), Place(p, i))
         /\ Earlier(Place(p, i), Place(p, j)) /\ Earlier(Place(p, j), Place(p, k)) =>
              Earlier(Place(p, i), Place(p, k))
<1>1. ASSUME NEW x \in DOMAIN p.shots
      PROVE  DOMAIN Place(p, x) = 1..3 /\ \A l \in 1..3 : Place(p, x)[l] \in Int
  <2>1. DOMAIN Place(p, x) = 1..3  BY DEF Place
  <2>2. \A l \in 1..3 : Place(p, x)[l] \in Int  BY OrdersAreNumbers
  <2> QED  BY <2>1, <2>2
<1>2. ASSUME NEW x \in DOMAIN p.shots
      PROVE  Place(p, x)[1] \in Int /\ Place(p, x)[2] \in Int /\ Place(p, x)[3] \in Int
  BY <1>1
<1>3. ASSUME NEW x \in DOMAIN p.shots, NEW y \in DOMAIN p.shots
      PROVE  Earlier(Place(p, x), Place(p, y)) <=>
               \/ Place(p, x)[1] < Place(p, y)[1]
               \/ Place(p, x)[1] = Place(p, y)[1] /\ Place(p, x)[2] < Place(p, y)[2]
               \/ /\ Place(p, x)[1] = Place(p, y)[1] /\ Place(p, x)[2] = Place(p, y)[2]
                  /\ Place(p, x)[3] < Place(p, y)[3]
  BY <1>1, EarlierByParts
<1>4. ASSUME /\ Place(p, i)[1] = Place(p, j)[1] /\ Place(p, i)[2] = Place(p, j)[2]
             /\ Place(p, i)[3] = Place(p, j)[3]
      PROVE  i = j
  <2>1. \A l \in 1..3 : l = 1 \/ l = 2 \/ l = 3  OBVIOUS
  <2>2. \A l \in 1..3 : Place(p, i)[l] = Place(p, j)[l]  BY <1>4, <2>1
  <2> QED  BY <2>2, PlacesDiffer
<1> QED  BY <1>2, <1>3, <1>4

Preceding(p, i) == {k \in DOMAIN p.shots : Earlier(Place(p, k), Place(p, i))}

(* A shot that has others before it has one right before it. *)
LEMMA OneIsRightBefore ==
  ASSUME NEW p, Shaped(p), Ordered(p), NEW i \in DOMAIN p.shots, Preceding(p, i) # {}
  PROVE  \E k \in Preceding(p, i) : Preceding(p, k) = Preceding(p, i) \ {k}
<1> DEFINE D == DOMAIN p.shots
           Lt(a, b) == Earlier(Place(p, a), Place(p, b))
           earlier(j) == {k \in D : Lt(k, j)}
           rest(j) == {k \in earlier(i) : ~Lt(k, j)}
           T == {rest(j) : j \in earlier(i)}
<1>0. \A j : Preceding(p, j) = earlier(j)  BY DEF Preceding
<1>1. ASSUME NEW a \in D, NEW b \in D, NEW c \in D
      PROVE  /\ ~Lt(a, a) /\ (a # b => Lt(a, b) \/ Lt(b, a))
             /\ Lt(a, b) /\ Lt(b, c) => Lt(a, c)
  BY PlacesAreOrdered
<1>2. IsFiniteSet(D)  BY ListOf DEF Shaped
<1>3. PICK k \in earlier(i) : \A j \in earlier(i) : rest(j) \subseteq rest(k) => rest(j) = rest(k)
  <2>0. earlier(i) # {}  BY <1>0
  <2>1. T # {} /\ \A A \in T : A \subseteq D  BY <2>0
  <2>2. \E A \in T : \A B \in T : B \subseteq A => B = A
    <3> HIDE DEF T, D
    <3> QED  BY <1>2, <2>1, MinimalExists
  <2> HIDE DEF earlier, rest
  <2> QED  BY <2>2
<1> HIDE DEF Lt, D
<1>4. k \in D /\ i \in D /\ Lt(k, i)  BY DEF D
<1>5. ASSUME NEW j \in D, Lt(j, i), j # k  PROVE Lt(j, k)
  <2> SUFFICES ASSUME Lt(k, j)  PROVE FALSE
    BY <1>1, <1>4, <1>5
  <2>1. rest(j) \subseteq rest(k)  BY <1>1, <1>4, <1>5
  <2>2. k \in rest(k) /\ k \notin rest(j)  BY <1>1, <1>4, <1>5
  <2>3. j \in earlier(i)  BY <1>5
  <2> HIDE DEF rest, earlier
  <2> QED  BY <1>3, <2>1, <2>2, <2>3
<1>6. earlier(k) = earlier(i) \ {k}
  <2>1. \A j \in D : Lt(j, k) => Lt(j, i) /\ j # k  BY <1>1, <1>4
  <2> QED  BY <1>5, <2>1
<1> HIDE DEF earlier
<1>7. k \in earlier(i)  BY <1>3
<1> QED  BY <1>0, <1>6, <1>7

(* What each shot of an assembled plan holds. *)
LEMMA AssembledShot ==
  ASSUME NEW answer, NEW story, NEW target, NEW i \in 1..Count(answer, target)
  PROVE  LET shot == Assembled(answer, story, target).shots[i]
             template == Template(answer, i)
         IN /\ shot.link = IF shot.source = NoId THEN "none" ELSE "shot"
            /\ shot.override = (template.override \/ ~InPolicy([duration |-> shot.duration]))
            /\ shot.cast = CastOf(answer, story, i)
            /\ shot.voice = Narration(answer, story, i).voice
            /\ shot.text = NarrationOf(answer, i).text
            /\ shot.exception = (NarrationOf(answer, i).exception \/ ~NarrationOf(answer, i).text)
            /\ shot.prompt = Prompt(answer, i)
<1> DEFINE n == Count(answer, target)
           ids == ClientIds("shot", [k \in 1..n |-> Template(answer, k)])
           planned == Shot(answer, story, target, ids, i)
           shot == Assembled(answer, story, target).shots[i]
           origin == shot.source
<1>1. shot = Continuing(planned, origin)  BY AssembledChain
<1>2. ASSUME NEW s
      PROVE  LET x == Continuing(planned, s)
             IN /\ x.source = s /\ x.link = IF s = NoId THEN "none" ELSE "shot"
                /\ x.override = (Template(answer, i).override
                                   \/ ~InPolicy([duration |-> x.duration]))
                /\ x.cast = CastOf(answer, story, i)
                /\ x.voice = Narration(answer, story, i).voice
                /\ x.text = Narration(answer, story, i).text
                /\ x.exception = Narration(answer, story, i).exception
                /\ x.prompt = Prompt(answer, i)
  BY DEF Continuing, Shot
<1>3. /\ Narration(answer, story, i).text = NarrationOf(answer, i).text
      /\ Narration(answer, story, i).exception =
           (NarrationOf(answer, i).exception \/ ~NarrationOf(answer, i).text)
  BY DEF Narration
<1> HIDE DEF shot, planned
<1> QED  BY <1>1, <1>2, <1>3 DEF shot

(* Each shot but the first continues one that comes before it. *)
LEMMA AssembledSources ==
  ASSUME NEW answer, Answered(answer), NEW story, NEW target \in Nat,
         NEW i \in 1..Count(answer, target)
  PROVE  LET p == Assembled(answer, story, target)
         IN p.shots[i].source # NoId =>
              \E k \in DOMAIN p.shots : /\ Earlier(Place(p, k), Place(p, i))
                                        /\ p.shots[k].client = p.shots[i].source
<1> DEFINE p == Assembled(answer, story, target)
           n == Count(answer, target)
           ids == ClientIds("shot", [k \in 1..n |-> Template(answer, k)])
           earlier(j) == {k \in 1..n : Earlier(Place(p, k), Place(p, j))}
<1>1. Shaped(p) /\ Ordered(p)  BY AssembledIsShaped, AssembledIsOrdered
<1>2. DOMAIN p.shots = 1..n /\ i \in 1..n  BY AssembledShots
<1>3. ASSUME earlier(i) # {}  PROVE \E k \in earlier(i) : earlier(k) = earlier(i) \ {k}
  <2>1. ASSUME NEW j  PROVE Preceding(p, j) = earlier(j)
    <3> HIDE DEF p, n
    <3> QED  BY <1>2 DEF Preceding
  <2> HIDE DEF p, n, earlier
  <2>2. Preceding(p, i) # {} /\ i \in DOMAIN p.shots  BY <1>2, <1>3, <2>1
  <2>3. PICK k \in Preceding(p, i) : Preceding(p, k) = Preceding(p, i) \ {k}
    BY <1>1, <2>2, OneIsRightBefore
  <2> QED  BY <2>1, <2>3
<1>4. /\ earlier(i) = {} => p.shots[i].source = NoId
      /\ (\E k \in earlier(i) : earlier(k) = earlier(i) \ {k}) =>
           \E k \in earlier(i) : p.shots[i].source = ids[k]
  BY AssembledChain
<1>5. \A k \in 1..n : p.shots[k].client = ids[k]
  <2>1. ASSUME NEW k, NEW s
        PROVE  Continuing(Shot(answer, story, target, ids, k), s).client = ids[k]
    BY DEF Continuing, Shot
  <2>2. ASSUME NEW k \in 1..n
        PROVE  p.shots[k] = Continuing(Shot(answer, story, target, ids, k), p.shots[k].source)
    BY AssembledChain
  <2> HIDE DEF p, n, ids
  <2> QED  BY <2>1, <2>2
<1> HIDE DEF p, n, ids
<1>6. ASSUME p.shots[i].source # NoId
      PROVE  \E k \in DOMAIN p.shots : /\ Earlier(Place(p, k), Place(p, i))
                                       /\ p.shots[k].client = p.shots[i].source
  <2>1. PICK k \in earlier(i) : p.shots[i].source = ids[k]  BY <1>3, <1>4, <1>6
  <2> QED  BY <1>2, <1>5, <2>1
<1> QED  BY <1>6 DEF p

(* No shot of a story shorter than 200 hours is rounded away. *)
LEMMA AssembledShotsLast ==
  ASSUME NEW answer, Answered(answer), NEW story, NEW target \in Nat \ {0},
         target < 2 * MinShot * MinShot, NEW i \in 1..Count(answer, target)
  PROVE  Assembled(answer, story, target).shots[i].duration > 0
<1> DEFINE p == Assembled(answer, story, target)
           preferred == Len(ShotItems(answer))
           n == ShotCount(target, preferred)
           duration == Duration(target, n, i)
<1>1. preferred \in Nat  BY ItemsOf
<1>2. Count(answer, target) = n /\ n \in Nat \ {0} /\ i \in 1..n
  <2>1. Count(answer, target) = n /\ n \in Nat \ {0}  BY <1>1, AssembledLength
  <2> QED  BY <2>1
<1>3. p.shots[i].duration = duration  BY <1>2, AssembledShots
<1>4. MinShot = 60000 /\ MaxShot \in Int  BY DEF MinShot, MaxShot, Second
<1>5. CASE target < MinShot
  <2>1. n = 1  BY <1>5 DEF ShotCount
  <2>2. Share(target, 1) \in Int  BY ShareIsInt
  <2>3. duration = Remainder(target, 1)  BY <1>2, <2>1 DEF Duration
  <2>4. Remainder(target, 1) = target - (1 - 1) * Share(target, 1)  BY DEF Remainder
  <2> QED  BY <1>3, <2>2, <2>3, <2>4
<1>6. CASE ~(target < MinShot)
  <2>1. target \in Nat /\ target >= MinShot  BY <1>4, <1>6
  <2>2. MinShot * n <= target  BY <1>1, <2>1, CountFitsTarget
  <2>3. \/ duration \in MinShot..MaxShot
        \/ i = n /\ 2 * duration \in 2 * MinShot - n..2 * MaxShot + n
    BY <1>1, <1>2, <2>1, EveryShotFits
  <2>4. duration \in Int
    <3>1. Share(target, n) \in Int  BY <1>2, ShareIsInt
    <3> HIDE DEF n
    <3> QED  BY <1>2, <3>1 DEF Duration, Remainder
  <2> HIDE DEF duration, n
  <2>5. n < 2 * MinShot
    <3>1. 60000 * n <= target /\ target < 7200000000  BY <1>4, <2>2
    <3> QED  BY <1>2, <1>4, <3>1
  <2>6. duration > 0  BY <1>2, <1>4, <2>3, <2>4, <2>5
  <2> QED  BY <1>3, <2>6
<1> QED  BY <1>5, <1>6

LEMMA AssembledKeepsRules ==
  ASSUME NEW answer, Answered(answer), NEW story, IsFiniteSet(story.characters),
         NEW target \in Nat \ {0}, target < 2 * MinShot * MinShot,
         NEW i \in 1..Count(answer, target)
  PROVE  LET p == Assembled(answer, story, target)
             shot == p.shots[i]
         IN /\ Justified(shot) /\ Told(shot) /\ Linked(shot) /\ Prompted(shot)
            /\ Cast(p, shot) /\ Voiced(p, shot)
<1> DEFINE p == Assembled(answer, story, target)
           shot == p.shots[i]
           given == NarrationOf(answer, i)
<1>0. Count(answer, target) \in Nat \ {0}
  <2>1. Len(ShotItems(answer)) \in Nat  BY ItemsOf
  <2> QED  BY <2>1, AssembledLength
<1>1. /\ shot.link = IF shot.source = NoId THEN "none" ELSE "shot"
      /\ shot.override = (Template(answer, i).override
                            \/ ~InPolicy([duration |-> shot.duration]))
      /\ shot.cast = CastOf(answer, story, i)
      /\ shot.voice = Narration(answer, story, i).voice
      /\ shot.text = given.text /\ shot.exception = (given.exception \/ ~given.text)
      /\ shot.prompt = Prompt(answer, i)
  BY AssembledShot
<1>2. p.characters = Characters(answer, story) /\ p.voices = Voices(answer, story)
  BY AssembledShots
<1>3. shot.duration > 0  BY AssembledShotsLast
<1>4. Range(CastOf(answer, story, i)) \subseteq Clients(Characters(answer, story))
  <2>1. i \in Nat \ {0}  BY <1>0
  <2> QED  BY <2>1, CastIsKnown
<1>5. Narration(answer, story, i).voice \in Clients(Voices(answer, story)) \cup {NoId}
  BY VoiceIsKnown
<1> HIDE DEF shot, p
<1>6. Justified(shot)
  <2>1. InPolicy(shot) <=> InPolicy([duration |-> shot.duration])  BY DEF InPolicy
  <2> QED  BY <1>1, <1>3, <2>1 DEF Justified
<1>7. Told(shot)  BY <1>1 DEF Told
<1>8. Linked(shot)  BY <1>1 DEF Linked
<1>9. Prompted(shot)  BY <1>1 DEF Prompted, Prompt
<1>10. Cast(p, shot)  BY <1>1, <1>2, <1>4 DEF Cast
<1>11. Voiced(p, shot)  BY <1>1, <1>2, <1>5 DEF Voiced
<1> QED  BY <1>6, <1>7, <1>8, <1>9, <1>10, <1>11 DEF shot, p

(* The links of an assembled plan go from earlier to later shots of it. *)
LEMMA AssembledGoesForward ==
  ASSUME NEW answer, Answered(answer), NEW story, IsFiniteSet(story.characters),
         NEW target \in Nat
  PROVE  LET p == Assembled(answer, story, target)
         IN Forward(p) /\ \A i \in DOMAIN p.shots : SourceInPlan(p, p.shots[i])
<1> DEFINE p == Assembled(answer, story, target)
<1>1. Shaped(p) /\ Ordered(p)  BY AssembledIsShaped, AssembledIsOrdered
<1>2. DOMAIN p.shots = 1..Count(answer, target)  BY AssembledShots
<1>3. Distinct(p.shots, DOMAIN p.shots) /\ NoId \notin Clients(p.shots)
  BY AssembledNames DEF NamesUnique
<1>4. ASSUME NEW i \in DOMAIN p.shots, p.shots[i].source # NoId
      PROVE  \E k \in DOMAIN p.shots : /\ Earlier(Place(p, k), Place(p, i))
                                       /\ p.shots[k].client = p.shots[i].source
  <2>1. i \in 1..Count(answer, target)
    <3> HIDE DEF p
    <3> QED  BY <1>2
  <2>2. p.shots[i].source # NoId =>
          \E k \in DOMAIN p.shots : /\ Earlier(Place(p, k), Place(p, i))
                                    /\ p.shots[k].client = p.shots[i].source
    BY <2>1, AssembledSources
  <2> HIDE DEF p
  <2> QED  BY <1>4, <2>2
<1>5. ASSUME NEW i \in DOMAIN p.shots
      PROVE  p.shots[i].link = IF p.shots[i].source = NoId THEN "none" ELSE "shot"
  <2>1. i \in 1..Count(answer, target)
    <3> HIDE DEF p
    <3> QED  BY <1>2
  <2> DEFINE shot == p.shots[i]
             given == NarrationOf(answer, i)
  <2>2. /\ shot.link = IF shot.source = NoId THEN "none" ELSE "shot"
        /\ shot.override = (Template(answer, i).override
                              \/ ~InPolicy([duration |-> shot.duration]))
        /\ shot.cast = CastOf(answer, story, i)
        /\ shot.voice = Narration(answer, story, i).voice
        /\ shot.text = given.text /\ shot.exception = (given.exception \/ ~given.text)
        /\ shot.prompt = Prompt(answer, i)
    BY <2>1, AssembledShot
  <2> HIDE DEF p, given
  <2> QED  BY <2>2
<1> HIDE DEF p
<1>6. ASSUME NEW i \in DOMAIN p.shots, NEW j \in DOMAIN p.shots,
             p.shots[i].client = p.shots[j].source
      PROVE  Earlier(Place(p, i), Place(p, j))
  <2>1. p.shots[j].source # NoId  BY <1>3, <1>6 DEF Clients
  <2>2. PICK k \in DOMAIN p.shots : /\ Earlier(Place(p, k), Place(p, j))
                                    /\ p.shots[k].client = p.shots[j].source
    BY <1>4, <2>1
  <2>3. k = i  BY <1>3, <1>6, <2>2 DEF Distinct
  <2> QED  BY <2>2, <2>3
<1>7. ASSUME NEW i \in DOMAIN p.shots  PROVE SourceInPlan(p, p.shots[i])
  <2>1. CASE p.shots[i].source = NoId  BY <1>5, <2>1 DEF SourceInPlan
  <2>2. CASE p.shots[i].source # NoId
    <3>1. p.shots[i].link = "shot"  BY <1>5, <2>2
    <3>2. p.shots[i].source \in Clients(p.shots)  BY <1>4, <2>2 DEF Clients
    <3>3. p.shots[i].client # p.shots[i].source
      <4>1. ~Earlier(Place(p, i), Place(p, i))  BY <1>1, PlacesAreOrdered
      <4> QED  BY <1>6, <4>1
    <3> QED  BY <3>1, <3>2, <3>3 DEF SourceInPlan, ShotClients
  <2> QED  BY <2>1, <2>2
<1>8. Forward(p)  BY <1>6 DEF Forward
<1> QED  BY <1>7, <1>8 DEF p

LEMMA OnlyBroken ==
  ASSUME NEW holds, NEW rules, \A rule \in DOMAIN holds : rule \in rules \/ holds[rule]
  PROVE  Broken(holds) \subseteq rules
BY DEF Broken

LEMMA AssembledPasses ==
  ASSUME NEW answer, Answered(answer), NEW story, IsFiniteSet(story.characters),
         NEW target \in Nat \ {0}, target < 2 * MinShot * MinShot
  PROVE  LET p == Assembled(answer, story, target)
         IN /\ Ordered(p) /\ Exact(p) /\ NamesUnique(p) /\ Forward(p) /\ AllAssigned(p)
            /\ p.chapters # <<>> /\ p.shots # <<>>
            /\ AllShots(p, Justified) /\ AllShots(p, Told)
            /\ AllShots(p, Linked) /\ AllShots(p, Prompted)
            /\ \A i \in DOMAIN p.shots : /\ SourceInPlan(p, p.shots[i])
                                         /\ Cast(p, p.shots[i]) /\ Voiced(p, p.shots[i])
<1> DEFINE p == Assembled(answer, story, target)
<1>1. Ordered(p) /\ Shaped(p)  BY AssembledIsOrdered, AssembledIsShaped
<1>2. Exact(p)
  <2>1. Len(ShotItems(answer)) \in Nat  BY ItemsOf
  <2> QED  BY <2>1, AssembledIsExact
<1>3. NamesUnique(p)  BY AssembledNames
<1>4. Forward(p)  BY AssembledGoesForward
<1>5. AllAssigned(p)
  <2>1. p.characters = Characters(answer, story) /\ p.voices = Voices(answer, story)
    BY AssembledShots
  <2>2. DOMAIN Characters(answer, story) = DOMAIN CharacterItems(answer, story)
    BY DEF Characters
  <2>3. \A i \in DOMAIN CharacterItems(answer, story) :
          Characters(answer, story)[i].voice \in Clients(Voices(answer, story)) \cup {NoId}
    BY VoiceIsAssigned
  <2> HIDE DEF p
  <2> QED  BY <2>1, <2>2, <2>3 DEF AllAssigned, Assigned
<1>6. DOMAIN p.shots = 1..Count(answer, target) /\ Count(answer, target) \in Nat \ {0}
  <2>1. Len(ShotItems(answer)) \in Nat  BY ItemsOf
  <2>2. Count(answer, target) \in Nat \ {0}  BY <2>1, AssembledLength
  <2>3. DOMAIN p.shots = 1..Count(answer, target)  BY AssembledShots
  <2> QED  BY <2>2, <2>3
<1>7. p.chapters # <<>> /\ p.shots # <<>>
  <2> HIDE DEF p
  <2>1. 1 \in DOMAIN p.shots  BY <1>6
  <2>2. p.scenes[p.shots[1].scene].chapter \in DOMAIN p.chapters
    BY <1>1, <2>1 DEF Shaped
  <2>3. DOMAIN <<>> = {}  OBVIOUS
  <2> QED  BY <2>1, <2>2, <2>3
<1>8. ASSUME NEW i \in DOMAIN p.shots
      PROVE  /\ Justified(p.shots[i]) /\ Told(p.shots[i]) /\ Linked(p.shots[i])
             /\ Prompted(p.shots[i]) /\ Cast(p, p.shots[i]) /\ Voiced(p, p.shots[i])
  <2>1. i \in 1..Count(answer, target)
    <3> HIDE DEF p
    <3> QED  BY <1>6
  <2> DEFINE shot == p.shots[i]
  <2>2. /\ Justified(shot) /\ Told(shot) /\ Linked(shot) /\ Prompted(shot)
        /\ Cast(p, shot) /\ Voiced(p, shot)
    BY <2>1, AssembledKeepsRules
  <2> HIDE DEF p
  <2> QED  BY <2>2
<1>9. \A i \in DOMAIN p.shots : SourceInPlan(p, p.shots[i])
  BY AssembledGoesForward
<1> HIDE DEF p
<1>10. /\ AllShots(p, Justified) /\ AllShots(p, Told)
       /\ AllShots(p, Linked) /\ AllShots(p, Prompted)
  BY <1>8 DEF AllShots
<1>11. \A i \in DOMAIN p.shots : /\ SourceInPlan(p, p.shots[i])
                                 /\ Cast(p, p.shots[i]) /\ Voiced(p, p.shots[i])
  BY <1>8, <1>9
<1> QED  BY <1>1, <1>2, <1>3, <1>4, <1>5, <1>7, <1>10, <1>11 DEF p

LEMMA SharedBroken ==
  ASSUME NEW p, Ordered(p), Exact(p), AllAssigned(p),
         AllShots(p, Justified), AllShots(p, Told), AllShots(p, Linked), AllShots(p, Prompted)
  PROVE  Broken(SharedRules(p)) \subseteq {"consent"}
<1> DEFINE holds == SharedRules(p)
<1>1. \A rule \in DOMAIN holds : rule \in {"consent"} \/ holds[rule]
  BY DEF SharedRules
<1> HIDE DEF holds
<1>2. Broken(holds) \subseteq {"consent"}  BY <1>1, OnlyBroken
<1> QED  BY <1>2 DEF holds

LEMMA SchemaBroken ==
  ASSUME NEW p, Broken(SharedRules(p)) \subseteq {"consent"}, NamesUnique(p)
  PROVE  SchemaErrors(p) \subseteq {"consent", "mode"}
<1> DEFINE holds == [names |-> NamesUnique(p),
                     mode |-> AllVoices(p, LAMBDA voice : voice.mode \in Modes)]
<1>1. SchemaErrors(p) = Broken(SharedRules(p)) \cup Broken(holds)
  BY DEF SchemaErrors
<1>2. \A rule \in DOMAIN holds : rule \in {"mode"} \/ holds[rule]
  OBVIOUS
<1> HIDE DEF holds
<1>3. Broken(holds) \subseteq {"mode"}  BY <1>2, OnlyBroken
<1> QED  BY <1>1, <1>3

LEMMA ValidatorBroken ==
  ASSUME NEW p, Broken(SharedRules(p)) \subseteq {"consent"}, NamesUnique(p), Forward(p),
         p.chapters # <<>>, p.shots # <<>>,
         \A i \in DOMAIN p.shots : /\ SourceInPlan(p, p.shots[i])
                                   /\ Cast(p, p.shots[i]) /\ Voiced(p, p.shots[i])
  PROVE  ValidatorErrors(p, {}) \subseteq {"consent", "qwen", "factual"}
<1> DEFINE holds ==
    [names |-> NamesUniqueWithin(p),
     source |-> AllShots(p, LAMBDA shot : SourceInPlan(p, shot)),
     cast |-> AllShots(p, LAMBDA shot : Cast(p, shot)),
     voice |-> AllShots(p, LAMBDA shot : Voiced(p, shot)),
     qwen |-> AllShots(p, QwenAllowed),
     factual |-> AllShots(p, Factual),
     empty |-> p.chapters # <<>> /\ p.shots # <<>>,
     forward |-> Forward(p),
     preserved |-> VoicesPreserved(p, {})]
<1>1. ValidatorErrors(p, {}) = Broken(SharedRules(p)) \cup Broken(holds)
  BY DEF ValidatorErrors
<1>2. /\ NamesUniqueWithin(p) /\ VoicesPreserved(p, {})
      /\ AllShots(p, LAMBDA shot : SourceInPlan(p, shot))
      /\ AllShots(p, LAMBDA shot : Cast(p, shot))
      /\ AllShots(p, LAMBDA shot : Voiced(p, shot))
  BY DEF NamesUnique, VoicesPreserved, AllShots
<1>3. /\ holds["names"] /\ holds["source"] /\ holds["cast"] /\ holds["voice"]
      /\ holds["empty"] /\ holds["forward"] /\ holds["preserved"]
  BY <1>2
<1>4. DOMAIN holds = {"names", "source", "cast", "voice", "qwen", "factual",
                      "empty", "forward", "preserved"}
  OBVIOUS
<1> HIDE DEF holds
<1>5. \A rule \in DOMAIN holds : rule \in {"qwen", "factual"} \/ holds[rule]
  BY <1>3, <1>4
<1>6. Broken(holds) \subseteq {"qwen", "factual"}  BY <1>5, OnlyBroken
<1> QED  BY <1>1, <1>6

(* AssembledIsSound: build_proposal_payload repairs whatever the providers  *)
(* answer, so that the plan breaks none of the rules that are not up to a   *)
(* provider, as long as the story is shorter than 200 hours: in a longer    *)
(* one the rounding of so many shots could use up the last one.             *)
THEOREM AssembledPlansAreSound ==
  ASSUME \A r \in PlanRequests :
           r.by = "engine" => r.target < 2 * MinShot * MinShot
  PROVE  PlanSpec => []AssembledIsSound
<1>1. ASSUME PlanInv  PROVE AssembledIsSound
  <2> SUFFICES ASSUME asked.by = "engine", proposal # NoPlan
               PROVE  SchemaErrors(proposal) \cup ValidatorErrors(proposal, BaseVoices)
                        \subseteq {"consent", "mode", "qwen", "factual"}
    BY DEF AssembledIsSound
  <2>1. /\ asked.target \in Nat \ {0} /\ Answered(asked.answer)
        /\ asked.target < 2 * MinShot * MinShot
    BY <1>1, InputsAssumption DEF PlanInv
  <2>2. proposal = Assembled(asked.answer, Context, asked.target)  BY <1>1 DEF PlanInv
  <2>3. IsFiniteSet(Context.characters)
    <3>1. IsFiniteSet(before.characters)  BY <1>1, InputsAssumption DEF PlanInv
    <3>2. Context.characters \in SUBSET before.characters  BY DEF Context, IdentitySnapshot
    <3> QED  BY <3>1, <3>2, FS_Subset
  <2>4. BaseVoices = {}  BY DEF BaseVoices, IdentitySnapshot
  <2> DEFINE p == Assembled(asked.answer, Context, asked.target)
  <2>5. /\ Ordered(p) /\ Exact(p) /\ NamesUnique(p) /\ Forward(p) /\ AllAssigned(p)
        /\ p.chapters # <<>> /\ p.shots # <<>>
        /\ AllShots(p, Justified) /\ AllShots(p, Told)
        /\ AllShots(p, Linked) /\ AllShots(p, Prompted)
        /\ \A i \in DOMAIN p.shots : /\ SourceInPlan(p, p.shots[i])
                                     /\ Cast(p, p.shots[i]) /\ Voiced(p, p.shots[i])
    BY <2>1, <2>3, AssembledPasses
  <2>6. p = proposal  BY <2>2
  <2> HIDE DEF p
  <2>7. Broken(SharedRules(p)) \subseteq {"consent"}  BY <2>5, SharedBroken
  <2>8. SchemaErrors(p) \subseteq {"consent", "mode"}  BY <2>5, <2>7, SchemaBroken
  <2>9. ValidatorErrors(p, {}) \subseteq {"consent", "qwen", "factual"}
    BY <2>5, <2>7, ValidatorBroken
  <2> QED  BY <2>4, <2>6, <2>8, <2>9
<1>2. PlanInv => AssembledIsSound  BY <1>1
<1> QED  BY PlansAreChecked, <1>2, PTL
=============================================================================
