----------------------------- MODULE Proposals -----------------------------
(***************************************************************************)
(* The way of a full plan into a story: planned by the engine              *)
(* (services/planning/engine.py: _finalize_proposal) or written by an      *)
(* author (services/proposal_service.py: create_proposal), checked,        *)
(* recorded, applied (services/proposal_apply.py with                      *)
(* storyboard_mutations.py) and judged for approval (services/             *)
(* storyboard.py: readiness).                                              *)
(*                                                                         *)
(* Whether the base of a proposal is still in force is left to module      *)
(* StoryVersions, how rows come to be archived or reassigned to Cast, and  *)
(* how positions change to Hierarchy.  Here the question is whether the    *)
(* parts agree: what one lets pass the next can use.                       *)
(*                                                                         *)
(* A story is [characters, voices, chapters, scenes, shots]: two sets of   *)
(* rows, and for the tree the rows of each table by id.  lacks is what     *)
(* readiness has to say of a shot.                                         *)
(***************************************************************************)
EXTENDS PlanAssembly

CONSTANTS Stories,      \* what the story may hold before
          PlanRequests  \* what may be asked for

(* Rows have ids, and a scene is in a chapter. *)
ASSUME InputsAssumption ==
  /\ \A held \in Stories :
       /\ IsFiniteSet(held.characters)
       /\ \A x \in held.characters : x.row # NoId
       /\ \A v, w \in held.voices : v.row # NoId /\ (v.row = w.row => v = w)
       /\ \A s \in DOMAIN held.scenes : held.scenes[s].chapter \in DOMAIN held.chapters
  /\ \A request \in PlanRequests :
       \/ request.by = "engine" /\ request.target \in Nat \ {0} /\ Answered(request.answer)
       \/ request.by = "author" /\ Shaped(request.plan)

VARIABLES before, asked, proposal, stage

planVars == <<before, asked, proposal, stage>>

NoPlan == <<>>

PlanInit ==
  /\ before \in Stories
  /\ asked \in PlanRequests
  /\ proposal = NoPlan
  /\ stage = "asked"

-----------------------------------------------------------------------------
(* The rows a plan writes *)

(* A row is found among the children of the row its parent is; an item     *)
(* that names none of them is a new one.                                   *)
ChapterRow(p, c) ==
  IF p.chapters[c].row \in DOMAIN before.chapters THEN p.chapters[c].row ELSE <<"new chapter", c>>
SceneRow(p, s) ==
  LET row == p.scenes[s].row
  IN IF /\ row \in DOMAIN before.scenes
        /\ before.scenes[row].chapter = ChapterRow(p, p.scenes[s].chapter)
     THEN row ELSE <<"new scene", s>>
ShotRow(p, i) ==
  LET row == p.shots[i].row
  IN IF row \in DOMAIN before.shots /\ before.shots[row].scene = SceneRow(p, p.shots[i].scene)
     THEN row ELSE <<"new shot", i>>
CharacterRow(p, c) ==
  IF \E x \in before.characters : x.row = p.characters[c].row
  THEN p.characters[c].row ELSE <<"new character", c>>
VoiceRow(p, v) ==
  IF \E w \in before.voices : w.row = p.voices[v].row
  THEN p.voices[v].row ELSE <<"new voice", v>>

(* Two items of a plan are one row. *)
Repeats(p) ==
  \/ \E c, d \in DOMAIN p.chapters : c # d /\ ChapterRow(p, c) = ChapterRow(p, d)
  \/ \E s, t \in DOMAIN p.scenes : s # t /\ SceneRow(p, s) = SceneRow(p, t)
  \/ \E i, j \in DOMAIN p.shots : i # j /\ ShotRow(p, i) = ShotRow(p, j)
  \/ \E c, d \in DOMAIN p.characters : c # d /\ CharacterRow(p, c) = CharacterRow(p, d)

(* The rows below a chapter that the plan names without scenes are not     *)
(* looked at: those not archived themselves stay, or come back with it.    *)
LeftScenes(p) ==
  {s \in DOMAIN before.scenes :
     /\ ~before.scenes[s].archived
     /\ before.scenes[s].chapter \in
          {ChapterRow(p, c) : c \in DOMAIN p.chapters}
            \ {ChapterRow(p, p.scenes[t].chapter) : t \in DOMAIN p.scenes}}
LeftShots(p) ==
  {m \in DOMAIN before.shots :
     ~before.shots[m].archived /\ before.shots[m].scene \in LeftScenes(p)}

-----------------------------------------------------------------------------
(* What keeps a plan from being written *)

(* The rows a shot is linked to. *)
LinkRows(p, i) ==
  [k \in DOMAIN p.shots[i].cast |->
     {CharacterRow(p, c) : c \in {d \in DOMAIN p.characters :
                                    p.characters[d].client = p.shots[i].cast[k]}}]

VoicesCalled(p, client) ==
  {VoiceRow(p, v) : v \in {u \in DOMAIN p.voices : p.voices[u].client = client}}

(* A character gives up an approved voice for another one. *)
Reassigned(p, c) ==
  LET earlier == {d \in DOMAIN p.characters :
                    /\ d \in 1..c - 1 /\ CharacterRow(p, d) = CharacterRow(p, c)
                    /\ p.characters[d].voice # NoId}
      current == IF earlier = {}
                 THEN {x.voice : x \in {y \in before.characters : y.row = CharacterRow(p, c)}}
                 ELSE VoicesCalled(p, p.characters[Max(earlier)].voice)
  IN /\ p.characters[c].voice # NoId
     /\ \E w \in before.voices :
          w.approved /\ w.row \in current \ VoicesCalled(p, p.characters[c].voice)

(* Chapters, and the scenes of a chapter, get their positions one at a     *)
(* time: those not written yet, or not at all, still have their own, and   *)
(* the archived ones too.                                                  *)
ChapterCollides(p, c) ==
  \E m \in DOMAIN before.chapters \ {ChapterRow(p, d) : d \in 1..c} :
    before.chapters[m].order = p.chapters[c].order

SceneCollides(p, s) ==
  LET chapter(t) == ChapterRow(p, p.scenes[t].chapter)
      Sooner(t, u) == Earlier(<<p.scenes[t].chapter, t>>, <<p.scenes[u].chapter, u>>)
      written == {t \in DOMAIN p.scenes : chapter(t) = chapter(s) /\ Sooner(t, s)}
      newest == {t \in written : ~ \E u \in written :
                                     SceneRow(p, u) = SceneRow(p, t) /\ Sooner(t, u)}
  IN \/ \E t \in newest :
          SceneRow(p, t) # SceneRow(p, s) /\ p.scenes[t].order = p.scenes[s].order
     \/ \E m \in DOMAIN before.scenes \ {SceneRow(p, t) : t \in written \cup {s}} :
          /\ before.scenes[m].chapter = chapter(s)
          /\ before.scenes[m].order = p.scenes[s].order

Collides(p) ==
  \/ \E c \in DOMAIN p.chapters : ChapterCollides(p, c)
  \/ \E s \in DOMAIN p.scenes : SceneCollides(p, s)

(* A voice is kept by the characters that get no other one and by the      *)
(* shots left over, a character by its voices and those shots.             *)
VoicesInUse(p) ==
  {x.voice : x \in {y \in before.characters :
                      /\ \E c \in DOMAIN p.characters : CharacterRow(p, c) = y.row
                      /\ \A c \in DOMAIN p.characters :
                           CharacterRow(p, c) = y.row => p.characters[c].voice = NoId}}
  \cup {before.shots[m].voice : m \in LeftShots(p)}
CharactersInUse(p) ==
  {w.character : w \in {u \in before.voices : \E v \in DOMAIN p.voices : VoiceRow(p, v) = u.row}}
  \cup UNION {before.shots[m].cast : m \in LeftShots(p)}

(* What the plan leaves out would be archived, and is protected. *)
OmitsProtected(p) ==
  \/ \E w \in before.voices :
       /\ ~w.archived /\ \A v \in DOMAIN p.voices : VoiceRow(p, v) # w.row
       /\ w.approved \/ w.row \in VoicesInUse(p)
  \/ \E x \in before.characters :
       /\ ~x.archived /\ \A c \in DOMAIN p.characters : CharacterRow(p, c) # x.row
       /\ x.approved \/ x.row \in CharactersInUse(p)

(* An approved voice keeps its own source asset. *)
NewSource(p, v) ==
  p.voices[v].foreign /\ ~ \E w \in before.voices : w.row = p.voices[v].row /\ w.approved
Foreign(p) ==
  \/ \E v \in DOMAIN p.voices : NewSource(p, v)
  \/ \E i \in DOMAIN p.shots : p.shots[i].foreign

(* Without what upsert_voices, upsert_characters and upsert_hierarchy       *)
(* raise, or the database refuses what they write.                         *)
WriteRules(p) ==
  [preserved |-> VoicesPreserved(p, before.voices),
   assigned |-> AllAssigned(p),
   reassigned |-> \A c \in DOMAIN p.characters : ~Reassigned(p, c),
   cast |-> AllShots(p, LAMBDA shot : Cast(p, shot)),
   twice |-> \A i \in DOMAIN p.shots : IsInjective(LinkRows(p, i)),
   voice |-> AllShots(p, LAMBDA shot : Voiced(p, shot)),
   source |-> AllShots(p, LAMBDA shot : shot.source \in Clients(p.shots) \cup {NoId}),
   itself |-> \A i, j \in DOMAIN p.shots :
                p.shots[i].source = p.shots[j].client => ShotRow(p, i) # ShotRow(p, j),
   positions |-> ~Collides(p),
   omitted |-> ~OmitsProtected(p),
   foreign |-> ~Foreign(p)]

WriteErrors(p) == Broken(WriteRules(p))

-----------------------------------------------------------------------------
(* What the plan leaves *)

(* What the shot of an item has below it afterwards: its narration is       *)
(* written over, a prompt package is added as the next version, and         *)
(* recommendations are replaced.                                            *)
RowsBelow(p, i) ==
  LET shot == p.shots[i]
      prompted == {m \in DOMAIN before.shots : "prompt" \notin before.shots[m].lacks}
  IN [text |-> shot.text, exception |-> shot.exception,
      packages |-> 1 + IF ShotRow(p, i) \in prompted THEN 1 ELSE 0,
      recommendations |-> shot.recommendations]

(* Of the items that are one row the last one stays, with its children:    *)
(* each time the others are archived as omitted, though the scenes of a    *)
(* chapter only by an item that has scenes.                                *)
Remaining(p) ==
  LET last(items, Row(_), i) == \A j \in items : Row(j) = Row(i) => j <= i
      filled == {d \in DOMAIN p.chapters : ScenesOf(p, d) # {}}
  IN {i \in DOMAIN p.shots :
        LET s == p.shots[i].scene
            c == p.scenes[s].chapter
        IN /\ last(filled, LAMBDA d : ChapterRow(p, d), c)
           /\ last(ScenesOf(p, c), LAMBDA t : SceneRow(p, t), s)
           /\ last(ShotsOf(p, s), LAMBDA j : ShotRow(p, j), i)}

-----------------------------------------------------------------------------
(* Snapshots: build_canonical_snapshot *)

(* What the snapshot of the story before lists by name. *)
IdentitySnapshot ==
  [characters |-> {x \in before.characters : ~x.archived},
   voice_profiles |-> {w \in before.voices : ~w.archived}]

(* What the engine shows to the providers. *)
Context ==
  [characters |-> IdentitySnapshot.characters, voices |-> IdentitySnapshot.voice_profiles]

(* What the validator takes for the voices of the base version. *)
BaseVoices == IF "voices" \in DOMAIN IdentitySnapshot THEN IdentitySnapshot.voices ELSE {}

(* The tree of the story an applied plan leaves, what is not archived: the *)
(* items of the plan, and the rows left over.                              *)
TreeSnapshot(p) ==
  LET live == Remaining(p)
      left == LeftShots(p)
  IN [chapters |-> DOMAIN p.chapters, scenes |-> DOMAIN p.scenes, leftScenes |-> LeftScenes(p),
      shots |-> live, leftShots |-> left,
      planned |-> SumFunction([i \in live |-> p.shots[i].duration])
                  + SumFunction([m \in left |-> before.shots[m].duration])]

-----------------------------------------------------------------------------
(* Readiness, under the default policies of a project *)

StructureReasons(p) ==
  LET tree == TreeSnapshot(p)
  IN Broken([chapters |-> tree.chapters # {},
             scenes |-> tree.scenes # {} \/ tree.leftScenes # {},
             shots |-> tree.shots # {} \/ tree.leftShots # {},
             duration |-> tree.planned = p.target])

ShotReasons(p, i) ==
  LET shot == p.shots[i]
      rows == RowsBelow(p, i)
      blocked == {m \in DOMAIN before.shots : "blocked" \in before.shots[m].lacks}
  IN Broken([override |-> InPolicy(shot) \/ shot.override, narration |-> Told(rows),
             blocked |-> ShotRow(p, i) \notin blocked,
             image |-> shot.imageRequired => shot.image = "approved",
             prompt |-> rows.packages > 0,
             recommendation |-> rows.recommendations # {}])

VoiceReasons(p) ==
  Broken([consent |-> AllVoices(p, LAMBDA voice : voice.required => voice.confirmed)])

Reasons(p) ==
  StructureReasons(p) \cup VoiceReasons(p)
  \cup (UNION {ShotReasons(p, i) : i \in TreeSnapshot(p).shots})
  \cup UNION {before.shots[m].lacks : m \in TreeSnapshot(p).leftShots}

-----------------------------------------------------------------------------
(* Steps *)

(* A plan that does not fit the schema fails the run. *)
Assemble ==
  /\ stage = "asked" /\ asked.by = "engine"
  /\ proposal' = Assembled(asked.answer, Context, asked.target)
  /\ stage' = IF SchemaErrors(proposal') = {} THEN "proposed" ELSE "failed"
  /\ UNCHANGED <<before, asked>>

(* A plan of an author that does not fit is recorded as invalid. *)
Submit ==
  /\ stage = "asked" /\ asked.by = "author"
  /\ proposal' = asked.plan
  /\ stage' = IF SchemaErrors(proposal') = {} THEN "proposed" ELSE "invalid"
  /\ UNCHANGED <<before, asked>>

Validate ==
  /\ stage = "proposed"
  /\ stage' = IF ValidatorErrors(proposal, BaseVoices) = {} THEN "recorded"
              ELSE IF asked.by = "engine" THEN "failed" ELSE "invalid"
  /\ UNCHANGED <<before, asked, proposal>>

(* The story is written, or everything is rolled back. *)
ApplyPlan ==
  /\ stage = "recorded"
  /\ ValidatorErrors(proposal, BaseVoices) = {}
  /\ stage' = IF WriteErrors(proposal) = {} THEN "applied" ELSE "refused"
  /\ UNCHANGED <<before, asked, proposal>>

PlanNext == Assemble \/ Submit \/ Validate \/ ApplyPlan

PlanSpec == PlanInit /\ [][PlanNext]_planVars

-----------------------------------------------------------------------------
(* Properties *)

(* Whatever the providers leave out, misnumber or refer to, the plan made   *)
(* of it obeys every rule of the schema and the validator but those about   *)
(* what only a provider can say: consent, modes, the need for Qwen and rows *)
(* of the catalogs.                                                         *)
AssembledIsSound ==
  asked.by = "engine" /\ proposal # NoPlan =>
    SchemaErrors(proposal) \cup ValidatorErrors(proposal, BaseVoices)
      \subseteq {"consent", "mode", "qwen", "factual"}

(* An assembled plan divides the target exactly, and needs a shot outside   *)
(* the policy range only for a shorter target or by the rounding of the     *)
(* last one.                                                                *)
ShotsFitPolicy ==
  asked.by = "engine" /\ proposal # NoPlan =>
    /\ Exact(proposal)
    /\ asked.target >= MinShot =>
         \A i \in DOMAIN proposal.shots :
           \/ InPolicy(proposal.shots[i])
           \/ /\ i = Len(proposal.shots)
              /\ 2 * proposal.shots[i].duration \in
                   2 * MinShot - Len(proposal.shots)..2 * MaxShot + Len(proposal.shots)

(* The voices a request names by their ids. *)
VoicesNamed ==
  LET items == IF asked.by = "engine" THEN asked.answer.voices ELSE asked.plan.voices
  IN {items[v].row : v \in DOMAIN items}

(* What was recorded can be written, as long as no row is named twice, but  *)
(* for what neither schema nor validator looks at:                          *)
(* - a plan names an approved voice and changes it, one of the engine only  *)
(*   when the answer itself has given the id of that voice;                 *)
(* - a character has an approved voice and is given another one;            *)
(* - an approved character or voice, or one that another row refers to, is  *)
(*   left out;                                                              *)
(* - the story has chapters, whose positions and whose scenes' are taken;   *)
(* - a source asset of a voice, or the provider profile of a prompt, does   *)
(*   not exist;                                                             *)
(* - an author links a character twice to a shot;                           *)
(* - an author starts a shot from an image and names a source all the same. *)
(* So a story that holds nothing takes every plan the engine has recorded   *)
(* unless a provider has invented one of those two ids.                     *)
RecordedCanBeWritten ==
  stage \in {"recorded", "applied", "refused"} /\ ~Repeats(proposal) =>
    \A error \in WriteErrors(proposal) :
      \/ error = "preserved" /\ \E w \in before.voices : w.approved /\ w.row \in VoicesNamed
      \/ /\ error = "reassigned"
         /\ \E x \in before.characters, w \in before.voices : w.approved /\ x.voice = w.row
      \/ /\ error = "omitted"
         /\ \/ \E x \in before.characters : x.approved \/ x.voice # NoId
            \/ \E w \in before.voices : w.approved \/ w.character # NoId
            \/ LeftShots(proposal) # {}
      \/ error = "positions" /\ DOMAIN before.chapters # {}
      \/ /\ error = "foreign"
         /\ \/ \E v \in DOMAIN proposal.voices : proposal.voices[v].foreign
            \/ \E i \in DOMAIN proposal.shots : proposal.shots[i].foreign
      \/ error = "twice" /\ asked.by = "author"
      \/ /\ error = "source" /\ asked.by = "author"
         /\ \E i \in DOMAIN proposal.shots : proposal.shots[i].link = "image"

(* In the story an applied plan leaves, every shot continues one that is    *)
(* there and comes before it.                                               *)
AppliedKeepsOrder ==
  stage = "applied" /\ ~Repeats(proposal) =>
    \A i \in Remaining(proposal) :
      proposal.shots[i].source # NoId =>
        \E k \in Remaining(proposal) :
          /\ proposal.shots[k].client = proposal.shots[i].source
          /\ Earlier(Place(proposal, k), Place(proposal, i))

(* An applied plan of the engine lacks nothing for approval but what a      *)
(* person has to see to: images, consent, blocked shots.  The plan of an    *)
(* author may lack recommendations, too.  Only where it has left shots      *)
(* below a chapter it names without scenes may the story be too long, and   *)
(* lack what those shots do.                                                *)
AppliedIsReady ==
  stage = "applied" /\ ~Repeats(proposal) =>
    Reasons(proposal) \subseteq
      {"image", "consent", "blocked"}
      \cup (IF asked.by = "engine" THEN {} ELSE {"recommendation"})
      \cup (IF LeftShots(proposal) = {} THEN {} ELSE {"duration"})
      \cup UNION {before.shots[m].lacks : m \in LeftShots(proposal)}
=============================================================================
