---------------------------- MODULE PlanAssembly ----------------------------
(***************************************************************************)
(* build_proposal_payload (backend/app/services/planning/contracts.py):    *)
(* what the planning providers have answered task by task, with what is    *)
(* missing, misnumbered or dangling in it, becomes one plan.               *)
(*                                                                         *)
(* answer is [characters, voices, narrations, chapters, scenes, shots,     *)
(* prompts, recommendations], sequences of the rows merge_task_outputs has *)
(* collected; what a provider nests in another row is listed like the      *)
(* rest, with the position it is nested at.  Positions count from 0, and   *)
(* Unset stands for one that is missing or no number.  story is what the   *)
(* providers have been shown: [characters, voices], sets of rows.          *)
(***************************************************************************)
EXTENDS ProposalRules

Unset == -9

(* Rows with names of their own, or none. *)
Named(items) == IsList(items) /\ \A i \in DOMAIN items : IsList(items[i].client)

(* What is made of any answer: rows that are no objects are left out, and   *)
(* positions are numbers.                                                   *)
Answered(answer) ==
  /\ Named(answer.characters) /\ Named(answer.voices)
  /\ Named(answer.chapters) /\ Named(answer.scenes) /\ Named(answer.shots)
  /\ \A s \in DOMAIN answer.scenes : answer.scenes[s].chapter \in Int
  /\ \A i \in DOMAIN answer.shots : /\ answer.shots[i].scene \in Int
                                    /\ IsList(answer.shots[i].cast)

-----------------------------------------------------------------------------
(* Names *)

(* unique_client_id: a name that is taken gets the first free suffix. *)
ClientId(prefix, n, candidate, used) ==
  LET base == IF candidate = NoId THEN <<prefix, n>> ELSE candidate
      free == {k \in 2..Cardinality(used) + 2 : Append(base, k) \notin used}
  IN IF base \notin used THEN base ELSE Append(base, Min(free))

(* The names of items that propose names of their own, one after the other. *)
ClientIds(prefix, items) ==
  FoldLeft(LAMBDA ids, item :
             Append(ids, ClientId(prefix, Len(ids) + 1, item.client, Range(ids))),
           <<>>, items)

(* What a reference means: the last item that can be called so. *)
Resolve(items, ids, Aliases(_), reference) ==
  LET meant == {i \in DOMAIN items : reference \in Aliases(items[i]) \ {NoId}}
  IN IF meant = {} THEN NoId ELSE ids[Max(meant)]

(* The row of the story with the same name. *)
Match(rows, item, none) ==
  IF \E row \in rows : row.name = item.name
  THEN CHOOSE row \in rows : row.name = item.name ELSE none

RowOf(item, match) == IF item.row # NoId THEN item.row ELSE match.row

-----------------------------------------------------------------------------
(* Characters and voices *)

NoCharacter == [row |-> NoId, voice |-> NoId]
NoVoice == [row |-> NoId, approved |-> FALSE, character |-> NoId, source |-> "", mode |-> ""]

KnownCharacter(story, item) == Match(story.characters, item, NoCharacter)
KnownVoice(story, item) == Match(story.voices, item, NoVoice)

(* Without an answer the characters are those of the story. *)
CharacterItems(answer, story) ==
  IF answer.characters # <<>> THEN answer.characters
  ELSE SetToSeq({[client |-> NoId, row |-> row.row, name |-> row.name, voice |-> NoId] :
                   row \in story.characters})

(* Narration without any voice gets a placeholder. *)
VoiceItems(answer) ==
  IF answer.voices = <<>> /\ \E n \in DOMAIN answer.narrations : answer.narrations[n].text
  THEN <<[client |-> NoId, row |-> NoId, name |-> <<"Narrator">>, character |-> NoId,
          source |-> "placeholder", mode |-> "", provider |-> NoId,
          required |-> FALSE, confirmed |-> FALSE, foreign |-> FALSE]>>
  ELSE answer.voices

First(a, b) == IF a # "" THEN a ELSE b
Usual(mode) == IF mode \in Modes THEN mode ELSE "manual"

(* An approved voice stays what it is.  Of others what the provider says is *)
(* taken, even where the code has just found a usual word for it.           *)
ProposedIdentity(item, known) ==
  LET source == Usual(First(item.source, First(known.source, "placeholder")))
      mode == Usual(First(item.mode, First(known.mode, source)))
  IN IF known.approved THEN Identity(known)
     ELSE [source |-> First(item.source, source), mode |-> First(item.mode, mode),
           provider |-> item.provider, required |-> item.required,
           confirmed |-> item.confirmed]

CharacterNamed(answer, story, reference) ==
  LET items == CharacterItems(answer, story)
  IN Resolve(items, ClientIds("character", items),
             LAMBDA item : {item.client, item.row, item.name}, reference)

VoiceNamed(answer, story, reference) ==
  LET items == VoiceItems(answer)
  IN Resolve(items, ClientIds("voice", items),
             LAMBDA item : {item.client, item.row, item.name, KnownVoice(story, item).row},
             reference)

Voices(answer, story) ==
  LET items == VoiceItems(answer)
      ids == ClientIds("voice", items)
      Voice(i, known) ==
        LET identity == ProposedIdentity(items[i], known)
        IN [client |-> ids[i], row |-> RowOf(items[i], known),
            character |-> CharacterNamed(answer, story,
              IF items[i].character # NoId THEN items[i].character ELSE known.character),
            source |-> identity.source, mode |-> identity.mode, provider |-> identity.provider,
            required |-> identity.required, confirmed |-> identity.confirmed,
            foreign |-> items[i].foreign]
  IN [i \in DOMAIN items |-> Voice(i, KnownVoice(story, items[i]))]

(* A character without a voice gets the first one that is meant for it. *)
Characters(answer, story) ==
  LET items == CharacterItems(answer, story)
      ids == ClientIds("character", items)
      voices == Voices(answer, story)
      own(i) == SelectInSeq(voices, LAMBDA voice : voice.character = ids[i])
      given(i, known) == VoiceNamed(answer, story,
        IF items[i].voice # NoId THEN items[i].voice ELSE known.voice)
      voice(i) ==
        IF given(i, KnownCharacter(story, items[i])) # NoId
        THEN given(i, KnownCharacter(story, items[i]))
        ELSE IF own(i) # 0 THEN voices[own(i)].client ELSE NoId
  IN [i \in DOMAIN items |->
        [client |-> ids[i], row |-> RowOf(items[i], KnownCharacter(story, items[i])),
         voice |-> voice(i)]]

-----------------------------------------------------------------------------
(* Chapters and scenes *)

ChapterItems(answer) ==
  IF answer.chapters # <<>> THEN answer.chapters ELSE <<[client |-> NoId, row |-> NoId]>>
SceneItems(answer) ==
  IF answer.scenes # <<>> THEN answer.scenes
  ELSE <<[client |-> NoId, row |-> NoId, chapter |-> 0]>>

(* A position outside the list means the end it lies beyond. *)
ChapterOf(answer, s) ==
  LET raw == SceneItems(answer)[s].chapter
      last == Len(ChapterItems(answer))
  IN IF raw = Unset \/ raw < 0 THEN 1 ELSE IF raw >= last THEN last ELSE raw + 1

(* Items before i that have the same parent. *)
Rank(i, Parent(_)) == Cardinality({k \in 1..i - 1 : Parent(k) = Parent(i)})

ChapterTree(answer) ==
  LET items == ChapterItems(answer)
      ids == ClientIds("chapter", items)
  IN [c \in DOMAIN items |-> [client |-> ids[c], row |-> items[c].row, order |-> c - 1]]

SceneTree(answer) ==
  LET items == SceneItems(answer)
      ids == ClientIds("scene", items)
  IN [s \in DOMAIN items |->
        [client |-> ids[s], row |-> items[s].row, chapter |-> ChapterOf(answer, s),
         order |-> Rank(s, LAMBDA k : ChapterOf(answer, k))]]

-----------------------------------------------------------------------------
(* Shots *)

Silent == [shot |-> Unset, text |-> FALSE, exception |-> FALSE, voice |-> NoId]
Unprompted == [shot |-> Unset, given |-> FALSE, foreign |-> FALSE]
OpeningShot ==
  [client |-> NoId, row |-> NoId, scene |-> Unset, override |-> FALSE,
   imageRequired |-> FALSE, image |-> "none", cast |-> <<>>, narration |-> Silent,
   prompt |-> Unprompted, recommendations |-> {}]
ManualReview == [shot |-> Unset, qwen |-> FALSE, capability |-> "unknown", known |-> TRUE]

ShotItems(answer) == IF answer.shots # <<>> THEN answer.shots ELSE <<OpeningShot>>
Count(answer, target) == ShotCount(target, Len(ShotItems(answer)))

(* The listed shots are used again when more are needed. *)
Template(answer, i) == ShotItems(answer)[1 + ((i - 1) % Len(ShotItems(answer)))]

(* Rows of another task that belong to a shot: they number it, or else are  *)
(* at its position.                                                         *)
Keyed(rows, i) ==
  LET at(k) == IF rows[k].shot = Unset THEN k - 1 ELSE rows[k].shot
  IN {k \in DOMAIN rows : at(k) = i - 1}

(* Shots without a number are spread over the scenes. *)
SceneOf(answer, target, i) ==
  LET scenes == Len(SceneItems(answer))
      raw == Template(answer, i).scene
  IN 1 + (IF raw = Unset THEN ((i - 1) * scenes) \div Count(answer, target)
          ELSE raw % scenes)

NarrationOf(answer, i) ==
  LET rows == Keyed(answer.narrations, i)
  IN IF rows # {} THEN answer.narrations[Min(rows)] ELSE Template(answer, i).narration

(* Narration that names no voice is spoken by the first one. *)
Narration(answer, story, i) ==
  LET given == NarrationOf(answer, i)
      voice == VoiceNamed(answer, story, given.voice)
      voices == Voices(answer, story)
  IN [text |-> given.text,
      exception |-> given.exception \/ ~given.text,
      voice |-> IF given.text /\ voice = NoId /\ voices # <<>> THEN voices[1].client
                ELSE voice]

(* The prompt answered for the shot, or else its own; "none" is blank. *)
PromptOf(answer, i) ==
  LET rows == Keyed(answer.prompts, i)
  IN IF rows # {} THEN answer.prompts[Min(rows)] ELSE Template(answer, i).prompt
Prompt(answer, i) == IF PromptOf(answer, i).given THEN "planned" ELSE "manual review"

(* Mutant: a shot may have none. *)
RecommendationsAsGiven(answer, i) ==
  LET rows == Keyed(answer.recommendations, i)
  IN IF rows # {} THEN {answer.recommendations[k] : k \in rows}
     ELSE Template(answer, i).recommendations

Recommendations(answer, i) ==
  LET rows == Keyed(answer.recommendations, i)
      given == IF rows # {} THEN {answer.recommendations[k] : k \in rows}
               ELSE Template(answer, i).recommendations
  IN IF given # {} THEN given ELSE {ManualReview}

Also(cast, client) ==
  IF client = NoId \/ Contains(cast, client) THEN cast ELSE Append(cast, client)

(* Each character once, and the first one of the story if there is none. *)
CastOf(answer, story, i) ==
  LET given == Template(answer, i).cast
      named == [k \in DOMAIN given |-> CharacterNamed(answer, story, given[k])]
      once == FoldLeft(Also, <<>>, named)
      characters == Characters(answer, story)
  IN IF once = <<>> /\ characters # <<>> THEN <<characters[1].client>> ELSE once

Shot(answer, story, target, ids, i) ==
  LET template == Template(answer, i)
      duration == Duration(target, Count(answer, target), i)
      narration == Narration(answer, story, i)
  IN [client |-> ids[i], row |-> template.row,
      scene |-> SceneOf(answer, target, i),
      order |-> Rank(i, LAMBDA k : SceneOf(answer, target, k)),
      duration |-> duration,
      override |-> template.override \/ ~InPolicy([duration |-> duration]),
      link |-> "none", source |-> NoId,
      imageRequired |-> template.imageRequired, image |-> template.image,
      cast |-> CastOf(answer, story, i),
      text |-> narration.text, exception |-> narration.exception, voice |-> narration.voice,
      prompt |-> Prompt(answer, i), foreign |-> PromptOf(answer, i).foreign,
      recommendations |-> Recommendations(answer, i)]

(* A shot that continues the one named source. *)
Continuing(shot, source) ==
  [shot EXCEPT !.link = IF source = NoId THEN "none" ELSE "shot", !.source = source]

(* Mutant: each shot continues the one listed before it. *)
ChainListed(plan) ==
  [i \in DOMAIN plan.shots |->
     Continuing(plan.shots[i], IF i = 1 THEN NoId ELSE plan.shots[i - 1].client)]

(* Each shot continues the one before it in canonical order. *)
Chain(plan) ==
  LET earlier(i) == {k \in DOMAIN plan.shots : Earlier(Place(plan, k), Place(plan, i))}
      \* the one with the same shots before it
      source(i) ==
        IF earlier(i) = {} THEN NoId
        ELSE plan.shots[CHOOSE k \in earlier(i) : earlier(k) = earlier(i) \ {k}].client
  IN [i \in DOMAIN plan.shots |-> Continuing(plan.shots[i], source(i))]

Assembled(answer, story, target) ==
  LET count == Count(answer, target)
      ids == ClientIds("shot", [i \in 1..count |-> Template(answer, i)])
      plan == [target |-> target, characters |-> Characters(answer, story),
               voices |-> Voices(answer, story), chapters |-> ChapterTree(answer),
               scenes |-> SceneTree(answer),
               shots |-> [i \in 1..count |-> Shot(answer, story, target, ids, i)]]
  IN [plan EXCEPT !.shots = Chain(plan)]
=============================================================================
