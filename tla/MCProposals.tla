---------------------------- MODULE MCProposals ----------------------------
(***************************************************************************)
(* Small instances of Proposals for TLC.  The requests are families that   *)
(* vary one aspect of an answer or of an author's plan and leave the rest  *)
(* plain.                                                                  *)
(***************************************************************************)
EXTENDS Proposals

CONSTANTS Aspects \* of the requests to be looked at

Hero == <<"hero">>
Guide == <<"guide">>
Nobody == <<"nobody">>
A == <<"a">>
B == <<"b">>
HeroRow == <<"row of hero">>
GuideRow == <<"row of guide">>
ShotRows == <<<<"row of shot", 1>>, <<"row of shot", 2>>>>

Empty == [characters |-> {}, voices |-> {}, chapters |-> <<>>, scenes |-> <<>>, shots |-> <<>>]

Held(duration, cast, voice, lacks) ==
  [scene |-> <<"row of scene">>, archived |-> FALSE, duration |-> duration, cast |-> cast,
   voice |-> voice, lacks |-> lacks]

(* A tree and nobody in it.  An earlier plan may have left its chapter out, *)
(* and a scene of it before that one.                                      *)
Sketched(archived) ==
  [Empty EXCEPT
     !.chapters = (<<"row of chapter">> :> [order |-> 0]),
     !.scenes = (<<"row of scene">> :>
                   [chapter |-> <<"row of chapter">>, order |-> 0, archived |-> FALSE])
                @@ (<<"omitted scene">> :>
                      [chapter |-> <<"row of chapter">>, order |-> 2, archived |-> TRUE]),
     !.shots = (ShotRows[1] :> Held(8 * Second, {}, NoId, {}))
               @@ (ShotRows[2] :> [Held(9 * Second, {}, NoId, {"blocked", "prompt"})
                                     EXCEPT !.archived = archived])]

(* A hero speaks with the guide's voice.  person and voice tell what is     *)
(* approved, archived.                                                     *)
Drawn(person, voice) ==
  [Sketched(FALSE) EXCEPT
     !.characters = {[row |-> HeroRow, name |-> Hero, voice |-> GuideRow,
                      approved |-> "approved" \in person, archived |-> "archived" \in person]},
     !.voices = {[row |-> GuideRow, name |-> Guide, character |-> HeroRow,
                  approved |-> "approved" \in voice, archived |-> "archived" \in voice,
                  source |-> "qwen_voice_design", mode |-> "qwen_voice_design",
                  provider |-> <<"qwen">>, required |-> FALSE, confirmed |-> FALSE]},
     !.shots = (ShotRows[1] :> Held(8 * Second, {HeroRow}, GuideRow, {}))
               @@ (ShotRows[2] :> Held(9 * Second, {}, NoId, {"blocked", "recommendation"}))]

SomeStories ==
  {Empty, Sketched(FALSE), Sketched(TRUE), Drawn({}, {}), Drawn({}, {"approved"}),
   Drawn({"approved"}, {"approved", "archived"})}

UpTo(n, S) == UNION {[1..k -> S] : k \in 0..n}

-----------------------------------------------------------------------------
(* Answers of the providers *)

Nothing ==
  [characters |-> <<>>, voices |-> <<>>, narrations |-> <<>>, chapters |-> <<>>,
   scenes |-> <<>>, shots |-> <<>>, prompts |-> <<>>, recommendations |-> <<>>]

Item(row) == [client |-> NoId, row |-> row]

ByEngine(answers, targets) ==
  [by : {"engine"}, answer : answers, target : targets]

(* Where chapters, scenes and shots go, and how the target is divided. *)
Trees ==
  ByEngine(
    {[Nothing EXCEPT !.chapters = c, !.scenes = s, !.shots = i] :
       c \in {<<>>, <<Item(NoId)>>, <<Item(<<"row of chapter">>), Item(NoId)>>},
       s \in UpTo(2, [client : {NoId}, row : {NoId, <<"row of scene">>},
                      chapter : {Unset, 1, 7}]),
       i \in {[k \in 1..n |-> [OpeningShot EXCEPT !.scene = scene[k]]] :
                n \in 0..3, scene \in [1..3 -> {Unset, 0, 5}]}},
    {20 * Second, 36 * Second + 1})

(* How many shots there are, and how long they become. *)
Lengths ==
  ByEngine({[Nothing EXCEPT !.shots = [k \in 1..n |-> OpeningShot]] : n \in 0..7},
           {k * 10001 : k \in 1..80} \cup {6 * Second, 12 * Second, 599997})

(* What things are called. *)
Names ==
  ByEngine(
    {[Nothing EXCEPT !.chapters = [k \in 1..2 |-> [client |-> name[k], row |-> NoId]],
                     !.scenes = [k \in 1..2 |-> [client |-> name[k], row |-> NoId, chapter |-> 0]],
                     !.shots = [k \in 1..n |-> [OpeningShot EXCEPT !.client = name[k],
                                                                   !.row = row[k],
                                                                   !.scene = 0]]] :
       n \in 1..3, name \in [1..3 -> {NoId, A, <<"a", 2>>, <<"shot", 2>>}],
       row \in [1..3 -> {NoId, ShotRows[1], ShotRows[2]}]},
    {20 * Second, 36 * Second})

(* Who plays, speaks and is referred to how. *)
VoiceAnswers ==
  [client : {NoId}, row : {NoId, GuideRow}, name : {Guide, <<"other">>}, character : {NoId, Hero},
   source : {"", "whisper", "user_provided_consented"}, mode : {"", "manual"},
   provider : {NoId}, required : {TRUE}, confirmed : {FALSE}, foreign : BOOLEAN]

Casts ==
  ByEngine(
    {[Nothing EXCEPT !.characters = c, !.voices = v,
                     !.shots = <<[OpeningShot EXCEPT !.cast = cast]>>] :
       c \in UpTo(2, [client : {NoId, A}, row : {NoId}, name : {Hero, <<"guest">>},
                      voice : {NoId, Guide}]),
       v \in UpTo(1, VoiceAnswers),
       cast \in {<<>>, <<Nobody, Hero, A, A>>}},
    {8 * Second})

(* What belongs to which shot. *)
Children ==
  ByEngine(
    {[Nothing EXCEPT !.narrations = n, !.prompts = p, !.recommendations = r,
                     !.shots = <<[OpeningShot EXCEPT !.imageRequired = (image # "none"),
                                                     !.image = image], OpeningShot>>] :
       n \in UpTo(1, [shot : {Unset, 1, 9}, text : BOOLEAN, exception : BOOLEAN,
                      voice : {NoId, Nobody}]),
       p \in UpTo(1, [shot : {1}, given : BOOLEAN, foreign : BOOLEAN]),
       r \in UpTo(1, [shot : {Unset, 1}, qwen : BOOLEAN,
                      capability : {"supported", "unsupported", "unknown"}, known : BOOLEAN]),
       image \in {"none", "draft", "approved"}},
    {16 * Second})

-----------------------------------------------------------------------------
(* Plans of authors *)

PlainShot ==
  [client |-> A, row |-> NoId, scene |-> 1, order |-> 0, duration |-> 8 * Second,
   override |-> FALSE, link |-> "none", source |-> NoId, imageRequired |-> FALSE,
   image |-> "none", cast |-> <<>>, text |-> TRUE, exception |-> FALSE, voice |-> NoId,
   prompt |-> "planned", foreign |-> FALSE, recommendations |-> {}]

PlainPlan ==
  [target |-> 16 * Second,
   characters |-> <<[client |-> Hero, row |-> HeroRow, voice |-> NoId]>>,
   voices |-> <<>>,
   chapters |-> <<[client |-> A, row |-> <<"row of chapter">>, order |-> 0]>>,
   scenes |-> <<[client |-> A, row |-> <<"row of scene">>, chapter |-> 1, order |-> 0]>>,
   shots |-> <<>>]

ByAuthor(plans) == [by : {"author"}, plan : plans]

TwoScenes(chapters, orders) ==
  [k \in 1..2 |-> [client |-> <<"scene", k>>, row |-> IF k = 1 THEN <<"row of scene">> ELSE NoId,
                   chapter |-> chapters[k], order |-> orders[k]]]
TwoChapters(orders) ==
  [k \in 1..2 |-> [client |-> <<"chapter", k>>, row |-> IF k = 1 THEN <<"row of chapter">> ELSE NoId,
                   order |-> orders[k]]]

AuthorTrees ==
  {PlainPlan,
   [PlainPlan EXCEPT !.scenes = TwoScenes(<<1, 1>>, <<0, 1>>)],
   [PlainPlan EXCEPT !.scenes = TwoScenes(<<1, 1>>, <<1, 0>>)],
   [PlainPlan EXCEPT !.scenes = TwoScenes(<<1, 2>>, <<0, 0>>), !.chapters = TwoChapters(<<1, 0>>)]}

Links(other) ==
  {<<"none", NoId>>, <<"shot", other>>, <<"shot", Nobody>>, <<"image", other>>,
   <<"image", Nobody>>}

AuthorShots(me, other, scenes) ==
  {[PlainShot EXCEPT !.client = me, !.row = row, !.scene = scene, !.order = order,
                     !.link = link[1], !.source = link[2], !.imageRequired = TRUE,
                     !.image = "approved"] :
     row \in {NoId, ShotRows[1]}, scene \in scenes, order \in {0, 1}, link \in Links(other)}

(* Orders, names, rows and sources of two shots. *)
Orders ==
  UNION {ByAuthor({[tree EXCEPT !.shots = <<a, b>>] :
                     a \in AuthorShots(A, B, DOMAIN tree.scenes),
                     b \in AuthorShots(B, A, DOMAIN tree.scenes)
                           \cup AuthorShots(A, A, DOMAIN tree.scenes)}) :
           tree \in AuthorTrees}

(* What a single shot holds. *)
Contents ==
  ByAuthor(
    {[PlainPlan EXCEPT !.target = 8 * Second + more, !.voices = v,
        !.shots = <<[PlainShot EXCEPT !.duration = 8 * Second, !.override = override,
                       !.cast = cast, !.text = text, !.voice = voice, !.prompt = prompt,
                       !.recommendations = r]>>] :
       more \in {0, 1}, override \in BOOLEAN,
       v \in UpTo(1, [client : {Guide}, row : {GuideRow}, character : {NoId},
                      source : {"qwen_voice_design"}, mode : {"qwen_voice_design", "manual"},
                      provider : {<<"qwen">>}, required : BOOLEAN, confirmed : {FALSE},
                      foreign : {FALSE}]),
       cast \in {<<>>, <<Hero>>, <<Hero, Hero>>, <<Nobody>>}, text \in BOOLEAN,
       voice \in {NoId, Guide, Nobody}, prompt \in {"none", "planned"},
       r \in {{}, {[shot |-> Unset, qwen |-> TRUE, capability |-> "unsupported",
                     known |-> TRUE]}}})

SomeRequests ==
  UNION {IF aspect = "trees" THEN Trees
         ELSE IF aspect = "lengths" THEN Lengths
         ELSE IF aspect = "names" THEN Names
         ELSE IF aspect = "casts" THEN Casts
         ELSE IF aspect = "children" THEN Children
         ELSE IF aspect = "orders" THEN Orders ELSE Contents : aspect \in Aspects}
=============================================================================
