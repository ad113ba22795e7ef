--------------------------- MODULE ProposalRules ---------------------------
(***************************************************************************)
(* What makes a storyboard plan acceptable: the schema of a proposal       *)
(* (backend/app/schemas/proposals.py) and the semantic validator           *)
(* (backend/app/services/ai_orchestration/validator.py).                   *)
(*                                                                         *)
(* A plan is [target, characters, voices, chapters, scenes, shots], all    *)
(* but the target sequences; a scene tells the position of its chapter, a  *)
(* shot that of its scene.  client is the name an item has in the plan,    *)
(* row the existing row it claims to be.  Identifiers are sequences, so    *)
(* that a suffix makes a new one: <<"a", 2>> is a-2.  A voice or shot is   *)
(* foreign if it refers to a source asset, or its prompt to a provider     *)
(* profile, that does not exist.                                           *)
(*                                                                         *)
(* Left out: of texts all but whether they are blank, the types of JSON    *)
(* values, forbidden keys, and the reference assets of characters.         *)
(***************************************************************************)
EXTENDS Durations, SequencesExt, FiniteSetsExt

NoId == <<>>

IsList(items) == Len(items) \in Nat /\ items = [k \in 1..Len(items) |-> items[k]]

(* What the types of StoryboardProposalPayload give every plan. *)
Shaped(plan) ==
  /\ IsList(plan.chapters) /\ IsList(plan.scenes) /\ IsList(plan.shots)
  /\ plan.target \in Int
  /\ \A s \in DOMAIN plan.scenes : plan.scenes[s].chapter \in DOMAIN plan.chapters
  /\ \A i \in DOMAIN plan.shots : /\ plan.shots[i].scene \in DOMAIN plan.scenes
                                  /\ plan.shots[i].link \in {"none", "shot", "image"}

-----------------------------------------------------------------------------
(* The tree of a plan *)

ScenesOf(plan, c) == {s \in DOMAIN plan.scenes : plan.scenes[s].chapter = c}
ShotsOf(plan, s) == {i \in DOMAIN plan.shots : plan.shots[i].scene = s}

(* Where a shot is in the canonical order. *)
Place(plan, i) ==
  LET scene == plan.scenes[plan.shots[i].scene]
  IN <<plan.chapters[scene.chapter].order, scene.order, plan.shots[i].order>>

Earlier(p, q) ==
  \E k \in DOMAIN p : p[k] < q[k] /\ \A l \in 1..k - 1 : p[l] = q[l]

Clients(items) == {items[i].client : i \in DOMAIN items}
PlannedDuration(plan) == SumFunction([i \in DOMAIN plan.shots |-> plan.shots[i].duration])

Distinct(items, group) ==
  \A i, j \in group : items[i].client = items[j].client => i = j
Contiguous(items, group) ==
  {items[i].order : i \in group} = 0..Cardinality(group) - 1

Ordered(plan) ==
  /\ Contiguous(plan.chapters, DOMAIN plan.chapters)
  /\ \A c \in DOMAIN plan.chapters : Contiguous(plan.scenes, ScenesOf(plan, c))
  /\ \A s \in DOMAIN plan.scenes : Contiguous(plan.shots, ShotsOf(plan, s))

(* The names of the rules that do not hold. *)
Broken(holds) == {rule \in DOMAIN holds : ~holds[rule]}

-----------------------------------------------------------------------------
(* Rules both the schema and the validator have *)

InPolicy(shot) == MinShot <= shot.duration /\ shot.duration <= MaxShot
Justified(shot) == shot.duration > 0 /\ (InPolicy(shot) \/ shot.override)
Told(shot) == shot.text \/ shot.exception
Consented(voice) == voice.source = "user_provided_consented" => voice.confirmed
Assigned(plan, character) == character.voice \in Clients(plan.voices) \cup {NoId}
Linked(shot) ==
  CASE shot.link = "none" -> shot.source = NoId
    [] shot.link = "shot" -> shot.source # NoId
    [] OTHER -> TRUE

Prompted(shot) == shot.prompt # "none"

AllShots(plan, Rule(_)) == \A i \in DOMAIN plan.shots : Rule(plan.shots[i])
AllVoices(plan, Rule(_)) == \A v \in DOMAIN plan.voices : Rule(plan.voices[v])
AllAssigned(plan) == \A c \in DOMAIN plan.characters : Assigned(plan, plan.characters[c])

Exact(plan) == PlannedDuration(plan) = plan.target

SharedRules(plan) ==
  [order |-> Ordered(plan), override |-> AllShots(plan, Justified),
   narration |-> AllShots(plan, Told), link |-> AllShots(plan, Linked),
   prompt |-> AllShots(plan, Prompted),
   consent |-> AllVoices(plan, Consented), assigned |-> AllAssigned(plan),
   exact |-> Exact(plan)]

-----------------------------------------------------------------------------
(* Rules one of them has *)

Modes == {"placeholder", "manual", "qwen_voice_design", "user_provided_consented"}

(* The validator compares the shots of one scene only. *)
NamesUniqueWithin(plan) ==
  /\ Distinct(plan.characters, DOMAIN plan.characters)
  /\ Distinct(plan.voices, DOMAIN plan.voices)
  /\ Distinct(plan.chapters, DOMAIN plan.chapters)
  /\ \A c \in DOMAIN plan.chapters : Distinct(plan.scenes, ScenesOf(plan, c))
  /\ \A s \in DOMAIN plan.scenes : Distinct(plan.shots, ShotsOf(plan, s))

(* StoryboardProposalPayload *)
NamesUnique(plan) == NamesUniqueWithin(plan) /\ Distinct(plan.shots, DOMAIN plan.shots)

SchemaErrors(plan) ==
  Broken(SharedRules(plan))
  \cup Broken([names |-> NamesUnique(plan),
               mode |-> AllVoices(plan, LAMBDA voice : voice.mode \in Modes)])

NeedsVoice(shot) == shot.text /\ ~shot.exception

(* _validate_qwen_rules *)
QwenAllowed(shot) ==
  \A r \in shot.recommendations :
    r.qwen => NeedsVoice(shot) /\ r.capability = "unsupported"

(* Mutant: a source need not be in the plan. *)
SourcedAnywhere(plan, shot) == shot.link = "shot" => shot.source # shot.client

ShotClients(plan) == Clients(plan.shots)

(* The source of a shot that starts from an image is not looked at. *)
SourceInPlan(plan, shot) ==
  /\ shot.link = "shot" => shot.source \in ShotClients(plan) \ {shot.client}
  /\ shot.link = "image" => shot.imageRequired \/ shot.image # "none"

Cast(plan, shot) == Range(shot.cast) \subseteq Clients(plan.characters)
Voiced(plan, shot) == shot.voice \in Clients(plan.voices) \cup {NoId}

(* Mutant: a source may come after its target. *)
ForwardAnyway(plan) == TRUE

(* _validate_continuity_order; a cycle would have a link that does not go  *)
(* forward.                                                                *)
Forward(plan) ==
  \A i, j \in DOMAIN plan.shots :
    plan.shots[i].client = plan.shots[j].source => Earlier(Place(plan, i), Place(plan, j))

(* What no plan may change of an approved voice. *)
Identity(voice) ==
  [source |-> voice.source, mode |-> voice.mode, provider |-> voice.provider,
   required |-> voice.required, confirmed |-> voice.confirmed]

(* _validate_approved_voice_preservation; voices is what the snapshot of   *)
(* the base version lists under that name.                                 *)
VoicesPreserved(plan, voices) ==
  \A v \in DOMAIN plan.voices, w \in voices :
    plan.voices[v].row = w.row /\ w.approved => Identity(plan.voices[v]) = Identity(w)

(* The catalogs of rows a plan may refer to. *)
Factual(shot) ==
  /\ shot.image # "of another project"
  /\ \A r \in shot.recommendations : r.known

ValidatorErrors(plan, voices) ==
  Broken(SharedRules(plan))
  \cup Broken(
    [names |-> NamesUniqueWithin(plan),
     source |-> AllShots(plan, LAMBDA shot : SourceInPlan(plan, shot)),
     cast |-> AllShots(plan, LAMBDA shot : Cast(plan, shot)),
     voice |-> AllShots(plan, LAMBDA shot : Voiced(plan, shot)),
     qwen |-> AllShots(plan, QwenAllowed),
     factual |-> AllShots(plan, Factual),
     empty |-> plan.chapters # <<>> /\ plan.shots # <<>>,
     forward |-> Forward(plan),
     preserved |-> VoicesPreserved(plan, voices)])
=============================================================================
