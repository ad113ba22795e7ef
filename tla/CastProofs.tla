----------------------------- MODULE CastProofs -----------------------------
(***************************************************************************)
(* Proofs about the cast of a story, for any number of characters, voices, *)
(* shots and requests: requests and plans that lock the story before they  *)
(* write never archive a character or a voice in use and never take an     *)
(* approved voice from its character.  A live shot has an archived         *)
(* character only when a plan has brought it back with its chapter.        *)
(***************************************************************************)
EXTENDS Cast, TLAPS

TablesOK ==
  /\ character \in [Characters -> Character]
  /\ voice \in [Voices -> Voice]
  /\ shot \in [Shots -> Shot]
  /\ gone \in [Shots -> SUBSET Characters]

(* A shot gets its first links after it was created. *)
NewShotsEmpty == \A s \in Shots : ~Exists(shot, s) => shot[s].cast = {}

(* A request changes the links and the narration of a shot it has found;   *)
(* archived rows stay.                                                     *)
ShotFound(q) == q.op \in {"link", "narrate"} => Exists(shot, q.id)

IInv ==
  /\ TypeOK
  /\ CastIsActive
  /\ NewShotsEmpty
  /\ \A r \in Requests : ShotFound(request[r])

Rows == <<character, voice, shot, gone>>

-----------------------------------------------------------------------------
(* Requests *)

LEMMA RequestedIds ==
  ASSUME NEW q \in Requested \cup {Idle}
  PROVE  /\ q.op = "archive character" => q.id \in Characters
         /\ q.op \in {"edit voice", "approve", "archive voice"} => q.id \in Voices
         /\ q.op \in {"link", "narrate"} => q.id \in Shots
<1>1. CASE q \in [op : {"archive character"}, id : Characters]
  BY <1>1
<1>2. CASE q \in [op : {"edit voice"}, id : Voices, seen : Characters \cup {NoCharacter}]
  BY <1>2
<1>3. CASE q \in [op : {"approve"}, id : Voices]
  BY <1>3
<1>4. CASE q \in [op : {"archive voice"}, id : Voices, seen : BOOLEAN]
  BY <1>4
<1>5. CASE q \in [op : {"link", "narrate"}, id : Shots]
  BY <1>5
<1>6. CASE q = Idle
  BY <1>6 DEF Idle
<1>7. QED BY <1>1, <1>2, <1>3, <1>4, <1>5, <1>6 DEF Requested

LEMMA LookUpsAreRequests ==
  ASSUME TypeOK, NEW q \in LookedUp
  PROVE  q \in Requested /\ ShotFound(q)
<1> DEFINE active == {v \in Voices : Active(voice, v)}
           draft == {v \in active : ~voice[v].approved}
<1>1. CASE q \in [op : {"archive character"}, id : {c \in Characters : Active(character, c)}]
  BY <1>1 DEF Requested, ShotFound
<1>2. CASE q \in {[op |-> "edit voice", id |-> v, seen |-> voice[v].character] : v \in draft}
  <2>1. PICK v \in Voices : q = [op |-> "edit voice", id |-> v, seen |-> voice[v].character]
    BY <1>2
  <2>2. voice[v].character \in Characters \cup {NoCharacter}
    BY DEF TypeOK, Voice
  <2>3. q \in [op : {"edit voice"}, id : Voices, seen : Characters \cup {NoCharacter}]
    BY <2>1, <2>2
  <2>4. QED BY <2>1, <2>3 DEF Requested, ShotFound
<1>3. CASE q \in [op : {"approve"}, id : draft]
  BY <1>3 DEF Requested, ShotFound
<1>4. CASE q \in {[op |-> "archive voice", id |-> v, seen |-> voice[v].approved] : v \in active}
  <2>1. PICK v \in Voices : q = [op |-> "archive voice", id |-> v, seen |-> voice[v].approved]
    BY <1>4
  <2>2. voice[v].approved \in BOOLEAN
    BY DEF TypeOK, Voice
  <2>3. q \in [op : {"archive voice"}, id : Voices, seen : BOOLEAN]
    BY <2>1, <2>2
  <2>4. QED BY <2>1, <2>3 DEF Requested, ShotFound
<1>5. CASE q \in [op : {"link", "narrate"}, id : Live]
  BY <1>5 DEF Requested, ShotFound, Live, Active, Exists
<1>6. QED BY <1>1, <1>2, <1>3, <1>4, <1>5 DEF LookedUp

(* What a request does to the tables. *)
LEMMA RunKeeps ==
  ASSUME TablesOK, CastIsActive, NewShotsEmpty,
         NEW q \in Requested \cup {Idle}, ShotFound(q), Run(q), UNCHANGED gone
  PROVE  /\ TablesOK' /\ CastIsActive' /\ NewShotsEmpty'
         /\ \A s \in Shots : Exists(shot, s) => Exists(shot, s)'
<1> USE DEF TablesOK, NewShotsEmpty, CastIsActive, Exists, Active, Live
<1>1. CASE ArchiveCharacter(q)
  <2>1. q.id \in Characters
    BY <1>1, RequestedIds DEF ArchiveCharacter
  <2>2. /\ character' \in [Characters -> Character]
        /\ \A c \in Characters \ {q.id} : character'[c] = character[c]
    BY <1>1, <2>1 DEF ArchiveCharacter, Character, Life
  <2>3. \A s \in Live : q.id \notin shot[s].cast
    BY <1>1 DEF ArchiveCharacter, Linked
  <2>4. voice' = voice /\ shot' = shot
    BY <1>1 DEF ArchiveCharacter
  <2>5. CastIsActive'
    <3> SUFFICES ASSUME NEW s \in Live, NEW c \in shot[s].cast
                 PROVE  character'[c].state = "active" \/ c \in gone[s]
      BY <2>4
    <3>1. c \in Characters \ {q.id} /\ (character[c].state = "active" \/ c \in gone[s])
      BY <2>3 DEF Shot
    <3>2. QED BY <2>2, <3>1
  <2>6. QED BY <2>2, <2>4, <2>5
<1>2. CASE EditVoice(q)
  <2>1. q.id \in Voices
    BY <1>2, RequestedIds DEF EditVoice
  <2>2. PICK c \in Characters \cup {NoCharacter} :
          voice' = voice \/ voice' = [voice EXCEPT ![q.id].character = c]
    BY <1>2 DEF EditVoice, Known
  <2>3. voice' \in [Voices -> Voice]
    BY <2>1, <2>2 DEF Voice
  <2>4. QED BY <1>2, <2>3 DEF EditVoice
<1>3. CASE Approve(q)
  <2>1. q.id \in Voices
    BY <1>3, RequestedIds DEF Approve
  <2>2. QED BY <1>3, <2>1 DEF Approve, Voice
<1>4. CASE ArchiveVoice(q)
  <2>1. q.id \in Voices
    BY <1>4, RequestedIds DEF ArchiveVoice
  <2>2. QED BY <1>4, <2>1 DEF ArchiveVoice, Voice, Life
<1>5. CASE ChangeLinks(q)
  <2>1. q.id \in Shots /\ Exists(shot, q.id)
    BY <1>5, RequestedIds DEF ChangeLinks, ShotFound
  <2>2. PICK cast \in SUBSET Characters :
          /\ shot' = [shot EXCEPT ![q.id].cast = cast]
          /\ \A c \in cast : Active(character, c) \/ c \in shot[q.id].cast
    <3>1. CASE ReplaceLinks(q.id)
      BY <3>1 DEF ReplaceLinks, Castable
    <3>2. CASE AddLink(q.id)
      <4>1. PICK c \in Characters : Castable(c) /\ shot' = [shot EXCEPT ![q.id].cast = @ \cup {c}]
        BY <3>2 DEF AddLink
      <4>2. shot[q.id].cast \cup {c} \in SUBSET Characters
        BY <2>1 DEF Shot
      <4>3. QED BY <4>1, <4>2, <2>1 DEF Castable
    <3>3. CASE DeleteLink(q.id)
      <4>1. PICK c \in shot[q.id].cast : shot' = [shot EXCEPT ![q.id].cast = @ \ {c}]
        BY <3>3 DEF DeleteLink
      <4>2. shot[q.id].cast \ {c} \in SUBSET Characters
        BY <2>1 DEF Shot
      <4>3. QED BY <4>1, <4>2, <2>1
    <3>4. QED BY <1>5, <3>1, <3>2, <3>3 DEF ChangeLinks
  <2>3. /\ shot' \in [Shots -> Shot]
        /\ \A s \in Shots : shot'[s].state = shot[s].state
        /\ \A s \in Shots \ {q.id} : shot'[s] = shot[s]
        /\ shot'[q.id].cast = cast
    BY <2>1, <2>2 DEF Shot
  <2>4. character' = character /\ voice' = voice
    BY <1>5 DEF ChangeLinks
  <2>5. QED BY <2>1, <2>2, <2>3, <2>4
<1>6. CASE Narrate(q)
  <2>1. q.id \in Shots
    BY <1>6, RequestedIds DEF Narrate
  <2>2. PICK v \in Voices \cup {NoVoice} : shot' = [shot EXCEPT ![q.id].narrator = v]
    BY <1>6 DEF Narrate, Known
  <2>3. /\ shot' \in [Shots -> Shot]
        /\ \A s \in Shots : shot'[s].state = shot[s].state /\ shot'[s].cast = shot[s].cast
    BY <2>1, <2>2 DEF Shot
  <2>4. QED BY <1>6, <2>3 DEF Narrate
<1>7. QED BY <1>1, <1>2, <1>3, <1>4, <1>5, <1>6 DEF Run

-----------------------------------------------------------------------------
(* Plans *)

LEMMA PlanParts ==
  ASSUME NEW plan \in Plans
  PROVE  /\ Kept(plan) \subseteq Characters
         /\ plan.voices \subseteq Voices
         /\ \A c \in Kept(plan) : plan.voice[c] \in Voices \cup {NoVoice}
         /\ DOMAIN plan.shots \subseteq Shots
         /\ \A s \in DOMAIN plan.shots :
              /\ plan.shots[s].cast \subseteq Kept(plan)
              /\ plan.shots[s].narrator \in Voices \cup {NoVoice}
         /\ DOMAIN plan.chapter = Unarchived \ DOMAIN plan.shots
         /\ \A s \in DOMAIN plan.chapter : plan.chapter[s] \in {"bare", "refilled", "left"}
<1> DEFINE Of(V, C, S) ==
      [voices : {V}, voice : [C -> V \cup {NoVoice}],
       shots : [S -> [cast : {{}, C}, narrator : V \cup {NoVoice}]],
       chapter : [Unarchived \ S -> {"bare", "refilled", "left"}]]
<1>a. Plans = UNION {UNION {UNION {Of(V, C, S) : S \in SUBSET Shots} :
                       C \in SUBSET Characters} : V \in SUBSET Voices}
  BY Zenon DEF Plans
<1>1. PICK V \in SUBSET Voices, C \in SUBSET Characters, S \in SUBSET Shots : plan \in Of(V, C, S)
  <2> HIDE DEF Of
  <2>1. PICK V \in SUBSET Voices :
          plan \in UNION {UNION {Of(V, C, S) : S \in SUBSET Shots} : C \in SUBSET Characters}
    BY <1>a
  <2>2. PICK C \in SUBSET Characters : plan \in UNION {Of(V, C, S) : S \in SUBSET Shots}
    BY <2>1
  <2>3. QED BY <2>2
<1>2. plan.shots \in [S -> [cast : {{}, C}, narrator : V \cup {NoVoice}]]
  BY <1>1
<1>3. Kept(plan) = C /\ plan.voices = V
  BY <1>1 DEF Kept
<1>4. \A c \in C : plan.voice[c] \in Voices \cup {NoVoice}
  BY <1>1
<1>5. DOMAIN plan.shots = S
  BY <1>2
<1>6. \A s \in S : plan.shots[s].cast \in {{}, C} /\ plan.shots[s].narrator \in V \cup {NoVoice}
  BY <1>2
<1>7. DOMAIN plan.chapter = Unarchived \ S
      /\ \A s \in Unarchived \ S : plan.chapter[s] \in {"bare", "refilled", "left"}
  BY <1>1
<1>8. QED BY <1>3, <1>4, <1>5, <1>6, <1>7

(* What becomes of a shot that the plan does not name. *)
LEMMA SettledStates ==
  ASSUME TablesOK, NEW plan \in Plans, NEW s \in Shots \ DOMAIN plan.shots
  PROVE  /\ LeftOver(plan) \subseteq Unarchived
         /\ Settled(plan, s) = "active" <=> s \in LeftOver(plan)
         /\ Settled(plan, s) = "absent" => shot[s].state = "absent"
         /\ Settled(plan, s) \in Life \cup {"hidden"}
<1>1. LeftOver(plan) \subseteq Unarchived
  BY PlanParts DEF LeftOver
<1>2. CASE s \in DOMAIN plan.chapter
  <2>1. plan.chapter[s] \in {"bare", "refilled", "left"}
    BY <1>2, PlanParts
  <2>2. QED BY <1>1, <1>2, <2>1 DEF Settled, LeftOver, Life
<1>3. CASE s \notin DOMAIN plan.chapter
  <2>1. s \notin Unarchived
    BY <1>3, PlanParts
  <2>2. shot[s].state \in Life \cup {"hidden"}
    BY DEF TablesOK, Shot
  <2>3. Settled(plan, s) = shot[s].state /\ s \notin LeftOver(plan)
    BY <1>3 DEF Settled, LeftOver
  <2>4. QED BY <1>1, <2>1, <2>2, <2>3 DEF Unarchived, Life
<1>4. QED BY <1>2, <1>3

LEMMA ApplyKeeps ==
  ASSUME TablesOK, CastIsActive, NewShotsEmpty, NEW plan \in Plans, Apply(plan)
  PROVE  /\ TablesOK' /\ CastIsActive' /\ NewShotsEmpty'
         /\ \A s \in Shots : Exists(shot, s) => Exists(shot, s)'
<1> USE DEF TablesOK
<1>1. voice' \in [Voices -> Voice]
  BY DEF Apply, Voice, Life
<1>2. /\ character' \in [Characters -> Character]
      /\ \A c \in Kept(plan) : character'[c].state = "active"
  <2>1. \A c \in Kept(plan) : VoiceOf(plan, c) \in Voices \cup {NoVoice}
    BY PlanParts DEF VoiceOf, Character
  <2>2. QED BY <2>1, PlanParts DEF Apply, Character, Life
<1>3. /\ shot' \in [Shots -> Shot]
      /\ \A s \in Shots :
           IF s \in DOMAIN plan.shots
           THEN shot'[s].state = "active" /\ shot'[s].cast = plan.shots[s].cast
           ELSE shot'[s].cast = shot[s].cast /\ shot'[s].state = Settled(plan, s)
  <2>1. \A s \in DOMAIN plan.shots :
          [state |-> "active", cast |-> plan.shots[s].cast, narrator |-> plan.shots[s].narrator] \in Shot
    BY PlanParts DEF Shot, Life
  <2>2. \A s \in Shots \ DOMAIN plan.shots : [shot[s] EXCEPT !.state = Settled(plan, s)] \in Shot
    BY SettledStates DEF Shot
  <2>3. shot' = [s \in Shots |->
                   IF s \in DOMAIN plan.shots
                   THEN [state |-> "active", cast |-> plan.shots[s].cast,
                         narrator |-> plan.shots[s].narrator]
                   ELSE [shot[s] EXCEPT !.state = Settled(plan, s)]]
    BY DEF Apply
  <2>4. shot' \in [Shots -> Shot]
    BY <2>1, <2>2, <2>3
  <2>5. QED BY <2>3, <2>4 DEF Shot
<1>4. CastIsActive'
  <2> SUFFICES ASSUME NEW s \in Shots, shot'[s].state = "active", NEW c \in shot'[s].cast
               PROVE  character'[c].state = "active" \/ c \in gone'[s]
    BY DEF CastIsActive, Live, Active
  <2>1. CASE s \in DOMAIN plan.shots
    <3>1. c \in plan.shots[s].cast /\ plan.shots[s].cast \subseteq Kept(plan)
      BY <2>1, <1>3, PlanParts
    <3>2. QED BY <3>1, <1>2
  <2>2. CASE s \notin DOMAIN plan.shots
    <3>1. s \in LeftOver(plan) /\ c \in shot[s].cast /\ c \in Characters
      BY <2>2, <1>3, SettledStates DEF Shot
    <3>2. CASE c \in Kept(plan)
      BY <3>2, <1>2
    <3>3. CASE c \notin Kept(plan) /\ Active(character, c)
      <4>1. c \in OmittedCharacters(plan)
        BY <3>1, <3>3 DEF OmittedCharacters
      <4>2. c \in UNION {shot[t].cast : t \in LeftOver(plan)}
        BY <3>1
      <4>3. c \in CharactersInUse(plan)
        BY <4>2 DEF CharactersInUse
      <4>4. QED BY <4>1, <4>3 DEF Apply
    <3>4. CASE c \notin Kept(plan) /\ ~Active(character, c)
      BY <3>1, <3>4 DEF Apply
    <3>5. QED BY <3>2, <3>3, <3>4
  <2>3. QED BY <2>1, <2>2
<1>5. NewShotsEmpty' /\ \A s \in Shots : Exists(shot, s) => Exists(shot, s)'
  BY <1>3, SettledStates DEF NewShotsEmpty, Exists
<1>6. gone' \in [Shots -> SUBSET Characters]
  <2>1. \A s \in Shots : {c \in shot[s].cast \ Kept(plan) : ~Active(character, c)} \in SUBSET Characters
    BY DEF Shot
  <2>2. gone' = [s \in Shots |->
                  IF s \in LeftOver(plan)
                  THEN {c \in shot[s].cast \ Kept(plan) : ~Active(character, c)} ELSE {}]
    BY DEF Apply
  <2>3. QED BY <2>1, <2>2
<1>7. QED BY <1>1, <1>2, <1>3, <1>4, <1>5, <1>6

-----------------------------------------------------------------------------
(* The invariant *)

LEMMA InitIInv == Init => IInv
<1> SUFFICES ASSUME Init PROVE IInv
  OBVIOUS
<1>1. TypeOK
  BY DEF Init, TypeOK, Character, Voice, Shot, Life
<1>2. CastIsActive /\ NewShotsEmpty
  BY DEF Init, CastIsActive, NewShotsEmpty, Live, Active
<1>3. \A r \in Requests : ShotFound(request[r])
  BY DEF Init, ShotFound, Idle
<1>4. QED BY <1>1, <1>2, <1>3 DEF IInv

LEMMA RequestStep ==
  ASSUME IInv, NEW r \in Requests, NEW q \in Requested \cup {Idle}, ShotFound(q)',
         request' = [request EXCEPT ![r] = q],
         \A s \in Shots : Exists(shot, s) => Exists(shot, s)'
  PROVE  request' \in [Requests -> Requested \cup {Idle}]
         /\ \A t \in Requests : ShotFound(request[t])'
<1>1. request' \in [Requests -> Requested \cup {Idle}]
  BY DEF IInv, TypeOK
<1>2. \A t \in Requests : ShotFound(request[t])'
  <2> SUFFICES ASSUME NEW t \in Requests PROVE ShotFound(request[t])'
    OBVIOUS
  <2>1. CASE t = r
    BY <2>1 DEF IInv, TypeOK, ShotFound
  <2>2. CASE t # r
    <3>1. request'[t] = request[t] /\ request[t] \in Requested \cup {Idle} /\ ShotFound(request[t])
      BY <2>2 DEF IInv, TypeOK
    <3>2. QED BY <3>1, RequestedIds DEF ShotFound
  <2>3. QED BY <2>1, <2>2
<1>3. QED BY <1>1, <1>2

LEMMA NextIInv == IInv /\ [Next]_vars => IInv'
<1> SUFFICES ASSUME IInv, [Next]_vars PROVE IInv'
  OBVIOUS
<1> USE DEF IInv, TablesOK
<1>0. TablesOK /\ CastIsActive /\ NewShotsEmpty
  BY DEF TypeOK
<1>a. ASSUME TablesOK', CastIsActive', NewShotsEmpty',
             \A s \in Shots : Exists(shot, s) => Exists(shot, s)',
             request' = request
      PROVE  IInv'
  <2>1. \A r \in Requests : ShotFound(request[r])'
    BY <1>a, RequestedIds DEF ShotFound, TypeOK
  <2>2. QED BY <1>a, <2>1 DEF TypeOK
<1>b. ASSUME NEW r \in Requests, NEW q \in Requested \cup {Idle}, ShotFound(q)',
             request' = [request EXCEPT ![r] = q],
             TablesOK', CastIsActive', NewShotsEmpty',
             \A s \in Shots : Exists(shot, s) => Exists(shot, s)'
      PROVE  IInv'
  <2>1. request' \in [Requests -> Requested \cup {Idle}] /\ \A t \in Requests : ShotFound(request[t])'
    BY <1>b, RequestStep
  <2>2. QED BY <1>b, <2>1 DEF TypeOK
<1>c. ShotFound(Idle)'
  BY DEF ShotFound, Idle
<1>1. ASSUME NEW c \in Characters, CreateCharacter(c) PROVE IInv'
  <2>1. TablesOK' /\ CastIsActive' /\ NewShotsEmpty'
    BY <1>0, <1>1 DEF CreateCharacter, CastIsActive, NewShotsEmpty, Live, Active, Exists, Character, Shot, Life
  <2>2. QED BY <1>1, <1>a, <2>1 DEF CreateCharacter, Exists
<1>2. ASSUME NEW v \in Voices, NEW c \in Known(character) \cup {NoCharacter}, CreateVoice(v, c)
      PROVE  IInv'
  <2>1. TablesOK'
    BY <1>0, <1>2 DEF CreateVoice, Voice, Life, Known
  <2>2. QED BY <1>0, <1>2, <1>a, <2>1 DEF CreateVoice, CastIsActive, NewShotsEmpty, Live, Active, Exists
<1>3. ASSUME NEW s \in Shots, CreateShot(s) PROVE IInv'
  <2>1. PICK life \in {"active", "hidden", "archived"} : shot' = [shot EXCEPT ![s].state = life]
    BY <1>3 DEF CreateShot
  <2>2. TablesOK'
    BY <1>0, <1>3, <2>1 DEF CreateShot, Shot, Life
  <2>3. shot[s].cast = {}
    BY <1>0, <1>3 DEF CreateShot, NewShotsEmpty
  <2>4. CastIsActive' /\ NewShotsEmpty' /\ \A t \in Shots : Exists(shot, t) => Exists(shot, t)'
    BY <1>0, <1>3, <2>1, <2>3 DEF CreateShot, CastIsActive, NewShotsEmpty, Live, Active, Exists, Shot
  <2>5. QED BY <1>3, <1>a, <2>2, <2>4 DEF CreateShot
<1>4. ASSUME NEW s \in Shots, ArchiveShot(s) PROVE IInv'
  <2>1. TablesOK'
    BY <1>0, <1>4 DEF ArchiveShot, Shot, Life
  <2>2. CastIsActive' /\ NewShotsEmpty' /\ \A t \in Shots : Exists(shot, t) => Exists(shot, t)'
    BY <1>0, <1>4 DEF ArchiveShot, Unarchived, CastIsActive, NewShotsEmpty, Live, Active, Exists, Shot
  <2>3. QED BY <1>4, <1>a, <2>1, <2>2 DEF ArchiveShot
<1>5. CASE PromptRequest
  <2>1. PICK q \in LookedUp : Run(q)
    BY <1>5 DEF PromptRequest
  <2>2. q \in Requested /\ ShotFound(q)
    BY LookUpsAreRequests
  <2>3. /\ TablesOK' /\ CastIsActive' /\ NewShotsEmpty'
        /\ \A s \in Shots : Exists(shot, s) => Exists(shot, s)'
    BY <1>0, <1>5, <2>1, <2>2, RunKeeps DEF PromptRequest
  <2>4. QED BY <1>5, <1>a, <2>3 DEF PromptRequest
<1>6. ASSUME NEW r \in Requests, LookUp(r) PROVE IInv'
  <2>1. PICK q \in LookedUp : request' = [request EXCEPT ![r] = q]
    BY <1>6 DEF LookUp
  <2>2. q \in Requested /\ ShotFound(q)
    BY LookUpsAreRequests
  <2>3. character' = character /\ voice' = voice /\ shot' = shot /\ gone' = gone
    BY <1>6 DEF LookUp
  <2>4. ShotFound(q)'
    BY <2>2, <2>3 DEF ShotFound, Exists
  <2>5. /\ TablesOK' /\ CastIsActive' /\ NewShotsEmpty'
        /\ \A s \in Shots : Exists(shot, s) => Exists(shot, s)'
    BY <1>0, <2>3 DEF CastIsActive, NewShotsEmpty, Live, Active, Exists
  <2>6. QED BY <1>b, <2>1, <2>2, <2>4, <2>5
<1>7. ASSUME NEW r \in Requests, SlowRequest(r) PROVE IInv'
  <2>1. request[r] \in Requested \cup {Idle} /\ ShotFound(request[r])
    BY DEF TypeOK
  <2>2. /\ TablesOK' /\ CastIsActive' /\ NewShotsEmpty'
        /\ \A s \in Shots : Exists(shot, s) => Exists(shot, s)'
    BY <1>0, <1>7, <2>1, RunKeeps DEF SlowRequest
  <2>3. QED BY <1>7, <1>b, <1>c, <2>2 DEF SlowRequest
<1>8. ASSUME NEW r \in Requests, Fail(r) PROVE IInv'
  <2>1. character' = character /\ voice' = voice /\ shot' = shot /\ gone' = gone
    BY <1>8 DEF Fail
  <2>2. /\ TablesOK' /\ CastIsActive' /\ NewShotsEmpty'
        /\ \A s \in Shots : Exists(shot, s) => Exists(shot, s)'
    BY <1>0, <2>1 DEF CastIsActive, NewShotsEmpty, Live, Active, Exists
  <2>3. QED BY <1>8, <1>b, <1>c, <2>2 DEF Fail
<1>9. ASSUME NEW plan \in Plans, Apply(plan) PROVE IInv'
  <2>1. /\ TablesOK' /\ CastIsActive' /\ NewShotsEmpty'
        /\ \A s \in Shots : Exists(shot, s) => Exists(shot, s)'
    BY <1>0, <1>9, ApplyKeeps
  <2>2. QED BY <1>9, <1>a, <2>1 DEF Apply
<1>10. CASE UNCHANGED vars
  BY <1>10 DEF vars, TypeOK, CastIsActive, NewShotsEmpty, ShotFound, Live, Active, Exists
<1>11. QED BY <1>1, <1>2, <1>3, <1>4, <1>5, <1>6, <1>7, <1>8, <1>9, <1>10 DEF Next

LEMMA Invariance == Spec => []IInv
BY InitIInv, NextIInv, PTL DEF Spec

(* Cast: however requests and plans interleave, the characters of a live   *)
(* shot are active, but for those archived while a plan had left its       *)
(* chapter out and another brought it back without naming the shot.        *)
THEOREM CastStaysActive == Spec => []CastIsActive
<1>1. IInv => CastIsActive
  BY DEF IInv
<1>2. QED BY <1>1, Invariance, PTL

-----------------------------------------------------------------------------
(* What a step may not do *)

LEMMA VoiceStep ==
  ASSUME IInv, Next, NEW v \in Voices,
         voice[v].state = "active", voice'[v].state = "archived"
  PROVE  /\ \A s \in Shots : shot'[s].state = "active" => shot'[s].narrator # v
         /\ \A c \in Characters : character'[c].state = "active" => character'[c].voice # v
<1> USE DEF IInv, TypeOK
<1>a. ASSUME NEW q \in Requested \cup {Idle}, Run(q)
      PROVE  ArchiveVoice(q) /\ q.id = v
  <2>1. CASE EditVoice(q)
    <3>1. q.id \in Voices
      BY <2>1, RequestedIds DEF EditVoice
    <3>2. voice'[v].state = voice[v].state
      <4>1. PICK c : voice' = voice \/ voice' = [voice EXCEPT ![q.id].character = c]
        BY <2>1 DEF EditVoice
      <4>2. QED BY <3>1, <4>1 DEF Voice
    <3>3. QED BY <3>2
  <2>2. CASE Approve(q)
    <3>1. q.id \in Voices
      BY <2>2, RequestedIds DEF Approve
    <3>2. voice'[v].state = voice[v].state
      BY <2>2, <3>1 DEF Approve, Voice
    <3>3. QED BY <3>2
  <2>3. CASE ArchiveVoice(q)
    <3>1. q.id \in Voices
      BY <2>3, RequestedIds DEF ArchiveVoice
    <3>2. QED BY <2>3, <3>1 DEF ArchiveVoice
  <2>4. CASE ArchiveCharacter(q) \/ ChangeLinks(q) \/ Narrate(q)
    <3>1. voice' = voice
      BY <2>4 DEF ArchiveCharacter, ChangeLinks, Narrate
    <3>2. QED BY <3>1
  <2>5. QED BY <1>a, <2>1, <2>2, <2>3, <2>4 DEF Run
<1>b. ASSUME NEW q \in Requested \cup {Idle}, Run(q)
      PROVE  /\ \A s \in Shots : shot'[s].state = "active" => shot'[s].narrator # v
             /\ \A c \in Characters : character'[c].state = "active" => character'[c].voice # v
  <2>1. ArchiveVoice(q) /\ q.id = v
    BY <1>a, <1>b
  <2>2. QED BY <2>1 DEF ArchiveVoice, Assigned, Narrates, Live, Active
<1>1. CASE PromptRequest
  <2>1. PICK q \in LookedUp : Run(q)
    BY <1>1 DEF PromptRequest
  <2>2. q \in Requested
    BY LookUpsAreRequests
  <2>3. QED BY <1>b, <2>1, <2>2
<1>2. CASE \E r \in Requests : SlowRequest(r)
  <2>1. PICK r \in Requests : Run(request[r])
    BY <1>2 DEF SlowRequest
  <2>2. QED BY <1>b, <2>1
<1>3. ASSUME NEW plan \in Plans, Apply(plan)
      PROVE  /\ \A s \in Shots : shot'[s].state = "active" => shot'[s].narrator # v
             /\ \A c \in Characters : character'[c].state = "active" => character'[c].voice # v
  <2>1. v \in OmittedVoices(plan)
    <3>1. voice'[v].state = IF v \in plan.voices THEN "active"
                            ELSE IF voice[v].state = "active" THEN "archived" ELSE voice[v].state
      BY <1>3 DEF Apply, Voice
    <3>2. QED BY <3>1 DEF OmittedVoices, Active
  <2>2. v \notin VoicesInUse(plan)
    BY <1>3, <2>1 DEF Apply
  <2>3. ASSUME NEW s \in Shots, shot'[s].state = "active" PROVE shot'[s].narrator # v
    <3>1. CASE s \in DOMAIN plan.shots
      <4>1. shot'[s].narrator = plan.shots[s].narrator
        BY <1>3, <3>1 DEF Apply
      <4>2. QED BY <2>2, <3>1, <4>1 DEF VoicesInUse
    <3>2. CASE s \notin DOMAIN plan.shots
      <4>1. shot'[s].state = Settled(plan, s) /\ shot'[s].narrator = shot[s].narrator
        BY <1>3, <3>2 DEF Apply, Shot
      <4>2. s \in LeftOver(plan)
        BY <2>3, <3>2, <4>1, SettledStates DEF TablesOK
      <4>3. QED BY <2>2, <4>1, <4>2 DEF VoicesInUse
    <3>3. QED BY <3>1, <3>2
  <2>4. ASSUME NEW c \in Characters, character'[c].state = "active" PROVE character'[c].voice # v
    <3>1. c \in Kept(plan)
      BY <1>3, <2>4 DEF Apply, Character
    <3>2. character'[c].voice = VoiceOf(plan, c)
      BY <1>3, <3>1 DEF Apply
    <3>3. QED BY <2>2, <3>1, <3>2 DEF VoicesInUse
  <2>5. QED BY <2>3, <2>4
<1>4. CASE \E w \in Voices, c \in Known(character) \cup {NoCharacter} : CreateVoice(w, c)
  <2>1. PICK w \in Voices, c \in Known(character) \cup {NoCharacter} : CreateVoice(w, c)
    BY <1>4
  <2>2. w # v
    BY <2>1 DEF CreateVoice, Exists
  <2>3. voice'[v].state = voice[v].state
    BY <2>1, <2>2 DEF CreateVoice
  <2>4. QED BY <2>3
<1>5. CASE \/ \E c \in Characters : CreateCharacter(c)
           \/ \E s \in Shots : CreateShot(s) \/ ArchiveShot(s)
           \/ \E r \in Requests : LookUp(r) \/ Fail(r)
  <2>1. voice' = voice
    BY <1>5 DEF CreateCharacter, CreateShot, ArchiveShot, LookUp, Fail
  <2>2. QED BY <2>1
<1>6. QED BY <1>1, <1>2, <1>3, <1>4, <1>5 DEF Next

(* Voices: archiving one, by a request or by a plan, leaves no live         *)
(* narration and no active character that uses it.                         *)
THEOREM VoicesInUseStay == Spec => VoiceInUseStays
<1> DEFINE Stays ==
      \A v \in Voices :
        voice[v].state = "active" /\ voice'[v].state = "archived" =>
          /\ \A s \in Shots : shot'[s].state = "active" => shot'[s].narrator # v
          /\ \A c \in Characters : character'[c].state = "active" => character'[c].voice # v
<1>1. IInv /\ [Next]_vars => [Stays]_vars
  <2> SUFFICES ASSUME IInv, Next PROVE Stays
    OBVIOUS
  <2>1. QED BY VoiceStep
<1>2. QED BY <1>1, Invariance, PTL DEF Spec, VoiceInUseStays

LEMMA AssignmentStep ==
  ASSUME IInv, Next, NEW c \in Characters,
         character[c].voice # NoVoice, voice[character[c].voice].approved
  PROVE  character'[c].voice = character[c].voice
<1> USE DEF IInv, TypeOK
<1>a. ASSUME NEW q \in Requested \cup {Idle}, Run(q)
      PROVE  character'[c].voice = character[c].voice
  <2>1. CASE ArchiveCharacter(q)
    BY <2>1, RequestedIds DEF ArchiveCharacter, Character
  <2>2. CASE EditVoice(q) \/ Approve(q) \/ ArchiveVoice(q) \/ ChangeLinks(q) \/ Narrate(q)
    <3>1. character' = character
      BY <2>2 DEF EditVoice, Approve, ArchiveVoice, ChangeLinks, Narrate
    <3>2. QED BY <3>1
  <2>3. QED BY <1>a, <2>1, <2>2 DEF Run
<1>1. CASE PromptRequest
  <2>1. PICK q \in LookedUp : Run(q)
    BY <1>1 DEF PromptRequest
  <2>2. q \in Requested
    BY LookUpsAreRequests
  <2>3. QED BY <1>a, <2>1, <2>2
<1>2. CASE \E r \in Requests : SlowRequest(r)
  <2>1. PICK r \in Requests : Run(request[r])
    BY <1>2 DEF SlowRequest
  <2>2. QED BY <1>a, <2>1
<1>3. ASSUME NEW plan \in Plans, Apply(plan) PROVE character'[c].voice = character[c].voice
  <2>1. CASE c \in Kept(plan)
    <3>1. plan.voice[c] # NoVoice => plan.voice[c] = character[c].voice
      BY <1>3, <2>1 DEF Apply, Reassigns
    <3>2. VoiceOf(plan, c) = character[c].voice
      BY <3>1 DEF VoiceOf
    <3>3. QED BY <1>3, <2>1, <3>2 DEF Apply
  <2>2. CASE c \notin Kept(plan)
    BY <1>3, <2>2 DEF Apply, Character
  <2>3. QED BY <2>1, <2>2
<1>4. CASE \E d \in Characters : CreateCharacter(d)
  BY <1>4 DEF CreateCharacter, Character
<1>5. CASE \/ \E v \in Voices, d \in Known(character) \cup {NoCharacter} : CreateVoice(v, d)
           \/ \E s \in Shots : CreateShot(s) \/ ArchiveShot(s)
           \/ \E r \in Requests : LookUp(r) \/ Fail(r)
  <2>1. character' = character
    BY <1>5 DEF CreateVoice, CreateShot, ArchiveShot, LookUp, Fail
  <2>2. QED BY <2>1
<1>6. QED BY <1>1, <1>2, <1>3, <1>4, <1>5 DEF Next

(* Approved assignments: whoever approves, edits, archives or applies      *)
(* meanwhile, no character loses an approved voice.                        *)
THEOREM ApprovedAssignmentsStay == Spec => ApprovedAssignmentStays
<1> DEFINE Stays ==
      \A c \in Characters :
        /\ character[c].voice # NoVoice
        /\ voice[character[c].voice].approved
        => character'[c].voice = character[c].voice
<1>1. IInv /\ [Next]_vars => [Stays]_vars
  <2> SUFFICES ASSUME IInv, Next PROVE Stays
    OBVIOUS
  <2>1. QED BY AssignmentStep
<1>2. QED BY <1>1, Invariance, PTL DEF Spec, ApprovedAssignmentStays
=============================================================================
