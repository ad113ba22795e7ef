-------------------------------- MODULE Cast --------------------------------
(***************************************************************************)
(* The cast of a story: its characters, its voice profiles, and the shots  *)
(* that refer to them, as requests (backend/app/services/storyboard.py,    *)
(* storyboard_crud.py, voice_design/service.py) and applied full plans     *)
(* (storyboard_mutations.py) change them side by side.                     *)
(*                                                                         *)
(* A request first looks rows up, then locks the row of the story          *)
(* (PostgreSQL), reads what it has not read yet, writes and commits.  Rows *)
(* looked up before the lock are not read again, so a request may decide   *)
(* on a row another one has changed meanwhile.                             *)
(*                                                                         *)
(* Left out: the texts of the rows, the reopening of the story             *)
(* (StoryVersions), the order of the shots (Hierarchy), reference images   *)
(* (ReferenceAssets; they only make an archive of their character fail)    *)
(* and what the setup of a voice must contain.                             *)
(***************************************************************************)
EXTENDS Naturals

CONSTANTS Characters, Voices, Shots, \* ids the rows may get
          NoCharacter, NoVoice,      \* NULL
          Requests                   \* requests under way at a time

ASSUME NullAssumption == NoCharacter \notin Characters /\ NoVoice \notin Voices

Life == {"absent", "active", "archived"}

(* voice: assigned_voice_profile_id *)
Character == [state : Life, voice : Voices \cup {NoVoice}]

(* character: the character_id of the profile *)
Voice == [state : Life, approved : BOOLEAN, character : Characters \cup {NoCharacter}]

(* state: whether the shot, its scene and its chapter are all active; a    *)
(* hidden shot is not archived, and neither is its scene, but its chapter  *)
(* is: a plan has left it out.                                             *)
(* cast: shot_characters; narrator: the voice its narration names, if any. *)
Shot == [state : Life \cup {"hidden"}, cast : SUBSET Characters,
         narrator : Voices \cup {NoVoice}]

(* What a request is to do, and what it keeps of the row it has looked up. *)
Requested ==
  [op : {"archive character"}, id : Characters]
  \cup [op : {"edit voice"}, id : Voices, seen : Characters \cup {NoCharacter}]
  \cup [op : {"approve"}, id : Voices]
  \cup [op : {"archive voice"}, id : Voices, seen : BOOLEAN]
  \cup [op : {"link", "narrate"}, id : Shots]
Idle == [op |-> "idle"]

VARIABLES character, voice, shot, \* the tables
          request,                \* what each request under way has read
          gone                    \* history: of a shot that the last plan has left to its chapter,
                                  \* the characters archived before, which the plan does not have

vars == <<character, voice, shot, request, gone>>

TypeOK ==
  /\ character \in [Characters -> Character]
  /\ voice \in [Voices -> Voice]
  /\ shot \in [Shots -> Shot]
  /\ request \in [Requests -> Requested \cup {Idle}]
  /\ gone \in [Shots -> SUBSET Characters]

Init ==
  /\ character = [c \in Characters |-> [state |-> "absent", voice |-> NoVoice]]
  /\ voice = [v \in Voices |->
               [state |-> "absent", approved |-> FALSE, character |-> NoCharacter]]
  /\ shot = [s \in Shots |-> [state |-> "absent", cast |-> {}, narrator |-> NoVoice]]
  /\ request = [r \in Requests |-> Idle]
  /\ gone = [s \in Shots |-> {}]

Active(table, id) == table[id].state = "active"
Exists(table, id) == table[id].state # "absent"
Known(table) == {id \in DOMAIN table : Exists(table, id)}
Live == {s \in Shots : Active(shot, s)}
Unarchived == {s \in Shots : shot[s].state \in {"active", "hidden"}}

-----------------------------------------------------------------------------
(* What is in use *)

(* Mutant: the shots of the active graph are not looked at. *)
LinkedNowhere(c) == FALSE
Linked(c) == \E s \in Live : c \in shot[s].cast

Owns(c) == \E v \in Voices : Active(voice, v) /\ voice[v].character = c
Assigned(v) == \E c \in Characters : Active(character, c) /\ character[c].voice = v

(* Mutant: a narration does not count as a use of the voice. *)
NarratesNowhere(v) == FALSE
Narrates(v) == \E s \in Live : shot[s].narrator = v

-----------------------------------------------------------------------------
(* Requests that look nothing up before they lock *)

CreateCharacter(c) ==
  /\ ~Exists(character, c)
  /\ character' = [character EXCEPT ![c].state = "active"]
  /\ UNCHANGED <<voice, shot, request, gone>>

(* create_voice_profile, create_voice_profile_setup; an archived character *)
(* will do.                                                                *)
CreateVoice(v, c) ==
  /\ ~Exists(voice, v)
  /\ voice' = [voice EXCEPT ![v] = [state |-> "active", approved |-> FALSE, character |-> c]]
  /\ UNCHANGED <<character, shot, request, gone>>

(* The hierarchy comes and goes (module Hierarchy): the scene of a new     *)
(* shot, or the chapter of one that is archived, may just have been left   *)
(* out of a plan.                                                          *)
CreateShot(s) ==
  /\ ~Exists(shot, s)
  /\ \E life \in {"active", "hidden", "archived"} : shot' = [shot EXCEPT ![s].state = life]
  /\ UNCHANGED <<character, voice, request, gone>>

ArchiveShot(s) ==
  /\ s \in Unarchived
  /\ shot' = [shot EXCEPT ![s].state = "archived"]
  /\ UNCHANGED <<character, voice, request, gone>>

-----------------------------------------------------------------------------
(* What a request q does under the lock of the story *)

ArchiveCharacter(q) ==
  /\ q.op = "archive character"
  /\ ~Linked(q.id) /\ ~Owns(q.id)
  /\ character' = [character EXCEPT ![q.id].state = "archived"]
  /\ UNCHANGED <<voice, shot>>

(* update_voice_profile_setup.  A column is written only when it differs   *)
(* from what was read.                                                     *)
EditVoice(q) ==
  /\ q.op = "edit voice"
  /\ \E c \in Known(character) \cup {NoCharacter} :
       voice' = IF c = q.seen THEN voice
                ELSE [voice EXCEPT ![q.id].character = c]
  /\ UNCHANGED <<character, shot>>

Approve(q) ==
  /\ q.op = "approve"
  /\ voice' = [voice EXCEPT ![q.id].approved = TRUE]
  /\ UNCHANGED <<character, shot>>

(* archive_voice_profile knows the approval it has read before the lock. *)
ArchiveVoice(q) ==
  /\ q.op = "archive voice"
  /\ ~q.seen /\ ~Assigned(q.id) /\ ~Narrates(q.id)
  /\ voice' = [voice EXCEPT ![q.id].state = "archived"]
  /\ UNCHANGED <<character, shot>>

(* Mutant: links are made to whatever character the story ever had. *)
CastableEver(c) == Exists(character, c)

(* _character_for_shot_story, read under the lock. *)
Castable(c) == Active(character, c)

(* replace_shot_characters; create_shot_character_link and                 *)
(* delete_shot_character_link change one of the links.                     *)
ReplaceLinks(s) ==
  \E cast \in SUBSET {c \in Characters : Castable(c)} :
    shot' = [shot EXCEPT ![s].cast = cast]
AddLink(s) ==
  \E c \in Characters \ shot[s].cast :
    Castable(c) /\ shot' = [shot EXCEPT ![s].cast = @ \cup {c}]
DeleteLink(s) ==
  \E c \in shot[s].cast :
    Castable(c) /\ shot' = [shot EXCEPT ![s].cast = @ \ {c}]

ChangeLinks(q) ==
  /\ q.op = "link"
  /\ ReplaceLinks(q.id) \/ AddLink(q.id) \/ DeleteLink(q.id)
  /\ UNCHANGED <<character, voice>>

(* upsert_narration and delete_narration; the voice only has to exist. *)
Narrate(q) ==
  /\ q.op = "narrate"
  /\ \E v \in Known(voice) \cup {NoVoice} : shot' = [shot EXCEPT ![q.id].narrator = v]
  /\ UNCHANGED <<character, voice>>

-----------------------------------------------------------------------------
(* apply_proposal of a full plan *)

(* The characters with the voice each is given, the voices, and the shots  *)
(* with their cast and narrator.  What the plan does not know as existing   *)
(* is new.  Every reference resolves within the plan                       *)
(* (validate_storyboard_payload).  Bound: a shot has everybody or nobody.  *)
(* A plan may name shots beside those that are followed here, which refer  *)
(* to nobody.  A shot that the plan does not name belongs to a chapter     *)
(* that the plan leaves out, refills with other scenes, or names without   *)
(* any scene.                                                              *)
Plans ==
  UNION {UNION {UNION {
    [voices : {V}, voice : [C -> V \cup {NoVoice}],
     shots : [S -> [cast : {{}, C}, narrator : V \cup {NoVoice}]],
     chapter : [Unarchived \ S -> {"bare", "refilled", "left"}]] :
    S \in SUBSET Shots} : C \in SUBSET Characters} : V \in SUBSET Voices}

Kept(plan) == DOMAIN plan.voice

(* Mutant: whether the voice assigned so far is approved is not looked at. *)
ReassignsFreely(plan, c) == TRUE

(* upsert_characters: a character keeps an approved voice, and one the plan *)
(* gives no voice keeps what it has.                                        *)
Reassigns(plan, c) ==
  character[c].voice \notin {NoVoice, plan.voice[c]} => ~voice[character[c].voice].approved

VoiceOf(plan, c) == IF plan.voice[c] = NoVoice THEN character[c].voice ELSE plan.voice[c]

(* upsert_hierarchy looks at the scenes of a chapter only when the plan    *)
(* has a scene for it, and _archive_missing_chapters at the chapter alone. *)
(* The shots of a chapter named without scenes stay as they are, or come   *)
(* back with it when an earlier plan has left the chapter out.             *)
LeftOver(plan) == {s \in DOMAIN plan.chapter : plan.chapter[s] = "bare"}

Settled(plan, s) ==
  IF s \notin DOMAIN plan.chapter THEN shot[s].state
  ELSE [bare |-> "active", refilled |-> "archived", left |-> "hidden"][plan.chapter[s]]

(* _archive_omitted_identities: what the plan leaves out is archived, and  *)
(* none of it may be approved or in use by what is live afterwards.  An    *)
(* identity that is archived already is not looked at.                     *)
OmittedVoices(plan) == {v \in Voices \ plan.voices : Active(voice, v)}
OmittedCharacters(plan) == {c \in Characters \ Kept(plan) : Active(character, c)}

(* Mutant: only the assignments the plan makes are looked at. *)
VoicesInUseByPlan(plan) ==
  {plan.voice[c] : c \in Kept(plan)} \cup {plan.shots[s].narrator : s \in DOMAIN plan.shots}

VoicesInUse(plan) ==
  {VoiceOf(plan, c) : c \in Kept(plan)}
  \cup {plan.shots[s].narrator : s \in DOMAIN plan.shots}
  \cup {shot[s].narrator : s \in LeftOver(plan)}

(* Mutant: only the shots of the plan are looked at. *)
CharactersInUseByPlan(plan) ==
  (UNION {plan.shots[s].cast : s \in DOMAIN plan.shots})
  \cup {voice[v].character : v \in plan.voices}

CharactersInUse(plan) ==
  (UNION {plan.shots[s].cast : s \in DOMAIN plan.shots})
  \cup (UNION {shot[s].cast : s \in LeftOver(plan)})
  \cup {voice[v].character : v \in plan.voices}

Apply(plan) ==
  /\ \A c \in Kept(plan) : plan.voice[c] # NoVoice => Reassigns(plan, c)
  /\ \A v \in OmittedVoices(plan) : ~voice[v].approved /\ v \notin VoicesInUse(plan)
  /\ OmittedCharacters(plan) \cap CharactersInUse(plan) = {}
  /\ voice' = [v \in Voices |->
       [voice[v] EXCEPT !.state = IF v \in plan.voices THEN "active"
                                  ELSE IF @ = "active" THEN "archived" ELSE @]]
  /\ character' = [c \in Characters |->
       IF c \in Kept(plan) THEN [state |-> "active", voice |-> VoiceOf(plan, c)]
       ELSE [character[c] EXCEPT !.state = IF @ = "active" THEN "archived" ELSE @]]
  /\ shot' = [s \in Shots |->
       IF s \in DOMAIN plan.shots
       THEN [state |-> "active", cast |-> plan.shots[s].cast, narrator |-> plan.shots[s].narrator]
       ELSE [shot[s] EXCEPT !.state = Settled(plan, s)]]
  /\ gone' = [s \in Shots |->
       IF s \in LeftOver(plan)
       THEN {c \in shot[s].cast \ Kept(plan) : ~Active(character, c)} ELSE {}]
  /\ UNCHANGED request

-----------------------------------------------------------------------------
(* Requests *)

(* What the look-ups of a request find: the rows it speaks of are active,  *)
(* and a voice it edits or approves is not approved yet.                   *)
LookedUp ==
  LET active == {v \in Voices : Active(voice, v)}
      draft == {v \in active : ~voice[v].approved}
  IN [op : {"archive character"}, id : {c \in Characters : Active(character, c)}]
     \cup {[op |-> "edit voice", id |-> v, seen |-> voice[v].character] : v \in draft}
     \cup [op : {"approve"}, id : draft]
     \cup {[op |-> "archive voice", id |-> v, seen |-> voice[v].approved] : v \in active}
     \cup [op : {"link", "narrate"}, id : Live]

Run(q) ==
  \/ ArchiveCharacter(q) \/ EditVoice(q) \/ Approve(q) \/ ArchiveVoice(q)
  \/ ChangeLinks(q) \/ Narrate(q)

(* A request that meets nobody, and one that others come between. *)
PromptRequest == (\E q \in LookedUp : Run(q)) /\ UNCHANGED <<request, gone>>

LookUp(r) ==
  /\ request[r] = Idle
  /\ \E q \in LookedUp : request' = [request EXCEPT ![r] = q]
  /\ UNCHANGED <<character, voice, shot, gone>>

SlowRequest(r) ==
  /\ Run(request[r])
  /\ request' = [request EXCEPT ![r] = Idle]
  /\ UNCHANGED gone

(* The request fails, and whatever it did is rolled back. *)
Fail(r) ==
  /\ request[r] # Idle
  /\ request' = [request EXCEPT ![r] = Idle]
  /\ UNCHANGED <<character, voice, shot, gone>>

Next ==
  \/ \E c \in Characters : CreateCharacter(c)
  \/ \E v \in Voices, c \in Known(character) \cup {NoCharacter} : CreateVoice(v, c)
  \/ \E s \in Shots : CreateShot(s) \/ ArchiveShot(s)
  \/ PromptRequest
  \/ \E r \in Requests : LookUp(r) \/ SlowRequest(r) \/ Fail(r)
  \/ \E plan \in Plans : Apply(plan)

Spec == Init /\ [][Next]_vars

-----------------------------------------------------------------------------
(* Safety *)

(* The characters of a live shot are active: no character is archived      *)
(* while a request is linking it, and no plan archives one in use, by the  *)
(* shots it names or by those it leaves to their chapter.  What does       *)
(* happen: a character is archived while a plan has left the chapter of    *)
(* its shot out, and a later plan brings the shot back by naming that      *)
(* chapter without scenes.  Those links, and no others, are gone.          *)
CastIsActive ==
  \A s \in Live : \A c \in shot[s].cast : Active(character, c) \/ c \in gone[s]

(* Whoever archives a voice, a request or a plan, leaves no live narration *)
(* and no active character that uses it.                                   *)
VoiceInUseStays ==
  [][\A v \in Voices :
       voice[v].state = "active" /\ voice'[v].state = "archived" =>
         /\ \A s \in Shots : shot'[s].state = "active" => shot'[s].narrator # v
         /\ \A c \in Characters : character'[c].state = "active" => character'[c].voice # v]_vars

(* "Cannot replace approved voice assignment": a character never loses an   *)
(* approved voice, whoever approves, edits or archives meanwhile.           *)
ApprovedAssignmentStays ==
  [][\A c \in Characters :
       /\ character[c].voice # NoVoice
       /\ voice[character[c].voice].approved
       => character'[c].voice = character[c].voice]_vars
=============================================================================
