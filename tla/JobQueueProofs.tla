--------------------------- MODULE JobQueueProofs ---------------------------
(***************************************************************************)
(* Theorems about the job queue, for every set of jobs and workers: its    *)
(* states are well typed, no job is posted more often than it was claimed, *)
(* what is shown as submitted was posted, and on PostgreSQL the queue      *)
(* implements Reservation and never hands out a submitted job again.       *)
(***************************************************************************)
EXTENDS JobQueue, FiniteSetTheorems, TLAPS

(* A flushed row is a row, column by column. *)
LEMMA FlushColumns ==
  ASSUME NEW row \in Row, NEW loaded \in Row, NEW new \in Row
  PROVE  /\ Flush(row, loaded, new) \in Row
         /\ Flush(row, loaded, new).status =
              IF new.status # loaded.status THEN new.status ELSE row.status
         /\ Flush(row, loaded, new).worker_id =
              IF new.worker_id # loaded.worker_id THEN new.worker_id ELSE row.worker_id
         /\ Flush(row, loaded, new).attempt_count =
              IF new.attempt_count # loaded.attempt_count THEN new.attempt_count
                                                          ELSE row.attempt_count
<1>1. DOMAIN row = {"status", "worker_id", "heartbeat", "attempt_count",
                    "prompt_id", "run_status"}
  BY DEF Row
<1>2. Flush(row, loaded, new) =
        [status |-> Flush(row, loaded, new).status,
         worker_id |-> Flush(row, loaded, new).worker_id,
         heartbeat |-> Flush(row, loaded, new).heartbeat,
         attempt_count |-> Flush(row, loaded, new).attempt_count,
         prompt_id |-> Flush(row, loaded, new).prompt_id,
         run_status |-> Flush(row, loaded, new).run_status]
  BY <1>1 DEF Flush
<1>3. /\ Flush(row, loaded, new).status =
           IF new.status # loaded.status THEN new.status ELSE row.status
      /\ Flush(row, loaded, new).worker_id =
           IF new.worker_id # loaded.worker_id THEN new.worker_id ELSE row.worker_id
      /\ Flush(row, loaded, new).attempt_count =
              IF new.attempt_count # loaded.attempt_count THEN new.attempt_count
                                                          ELSE row.attempt_count
      /\ Flush(row, loaded, new).heartbeat \in {"null", "fresh", "stale"}
      /\ Flush(row, loaded, new).prompt_id \in BOOLEAN
      /\ Flush(row, loaded, new).run_status \in
           {"created", "submitted", "validation_failed", "comfy_rejected"}
  BY <1>1 DEF Flush, Row
<1> HIDE DEF Flush
<1> QED  BY <1>2, <1>3 DEF Row

(* The new values a handler computes are rows, and a row is always loaded. *)
LEMMA NewValuesAreRows ==
  ASSUME NEW row \in Row
  PROVE  /\ row # NotLoaded
         /\ \A w \in Workers : Claimed(row, w) \in Row
         /\ Recovered(row) \in Row
         /\ [row EXCEPT !.heartbeat = "fresh"] \in Row
         /\ \A t \in JobState : [row EXCEPT !.status = t] \in Row
         /\ MarkSubmitted(row) \in Row
         /\ \A a : MarkSubmissionFailure(row, a) \in Row
<1>1. row # NotLoaded
  <2>1. row.status # "not loaded"  BY DEF Row, JobState
  <2>2. NotLoaded.status = "not loaded"  BY DEF NotLoaded
  <2> QED  BY <2>1, <2>2
<1>2. ASSUME NEW w \in Workers  PROVE Claimed(row, w) \in Row
  <2>1. row.attempt_count + 1 \in Nat  BY DEF Row
  <2>2. PICK n \in Nat : n = row.attempt_count + 1  BY <2>1
  <2>3. Claimed(row, w) = [row EXCEPT !.status = "reserved", !.worker_id = w,
                                      !.heartbeat = "fresh", !.attempt_count = n]
    BY <2>2, Zenon DEF Claimed
  <2> QED  BY <2>3 DEF Row, JobState
<1>3. Recovered(row) \in Row
  BY DEF Row, Recovered, JobState
<1>4. [row EXCEPT !.heartbeat = "fresh"] \in Row
  BY DEF Row
<1>5. \A t \in JobState : [row EXCEPT !.status = t] \in Row
  BY DEF Row
<1>6. MarkSubmitted(row) \in Row
  BY DEF Row, JobState, MarkSubmitted
<1>7. ASSUME NEW a PROVE MarkSubmissionFailure(row, a) \in Row
  <2>1. PICK failure \in {"validation_failed", "comfy_rejected"} : failure = FailureStatus(a)
    BY DEF FailureStatus
  <2>2. MarkSubmissionFailure(row, a) = [row EXCEPT !.status = failure, !.run_status = failure]
    BY <2>1, Zenon DEF MarkSubmissionFailure
  <2> QED  BY <2>2 DEF Row, JobState
<1> QED  BY <1>1, <1>2, <1>3, <1>4, <1>5, <1>6, <1>7

(* What a session knows between the steps of its call. *)
SessionInv ==
  \A s \in Sessions :
     /\ pc[s] = "transition" => arg[s] \in OperatorTargets
     /\ \A j, k \in Loaded(s) : pc[s] # "recovering" => j = k

TypeInv == TypeOK /\ SessionInv

LEMMA LoadTypes ==
  ASSUME TypeOK, NEW s \in Sessions, NEW S \in SUBSET Jobs,
         NEW next \in Control, NEW a, Load(s, S, next, a),
         a \in Arguments
  PROVE  /\ pc' \in [Sessions -> Control]
         /\ copy' \in [Sessions -> [Jobs -> Row \cup {NotLoaded}]]
         /\ arg' \in [Sessions -> Arguments]
         /\ \A j \in Jobs : copy'[s][j] # NotLoaded => j \in S
  BY DEF TypeOK, Load

LEMMA ReturnTypes ==
  ASSUME TypeOK, NEW s \in Sessions, Return(s)
  PROVE  /\ pc' \in [Sessions -> Control]
         /\ copy' \in [Sessions -> [Jobs -> Row \cup {NotLoaded}]]
         /\ arg' \in [Sessions -> Arguments]
         /\ \A j \in Jobs : copy'[s][j] = NotLoaded
  BY DEF TypeOK, Return, Control, NothingLoaded, Arguments

(* Committing a row the session has loaded leaves a table of rows. *)
LEMMA CommitTypes ==
  ASSUME TypeOK, NEW s \in Sessions, NEW j \in Loaded(s), NEW new \in Row,
         Commit(s, j, new)
  PROVE  /\ j \in Jobs /\ copy[s][j] \in Row /\ jobs[j] \in Row
         /\ jobs' \in [Jobs -> Row]
         /\ jobs' = [jobs EXCEPT ![j] = Flush(jobs[j], copy[s][j], new)]
  BY FlushColumns DEF TypeOK, Loaded, Commit


(* Only the session that acts changes; the others keep what they know. *)
LEMMA OthersUnchanged ==
  ASSUME TypeInv, NEW s \in Sessions,
         pc' \in [Sessions -> Control],
         copy' \in [Sessions -> [Jobs -> Row \cup {NotLoaded}]],
         \A t \in Sessions \ {s} :
            pc'[t] = pc[t] /\ arg'[t] = arg[t] /\ copy'[t] = copy[t],
         pc'[s] = "transition" => arg'[s] \in OperatorTargets,
         \A j, k \in Jobs : copy'[s][j] # NotLoaded /\ copy'[s][k] # NotLoaded
                              /\ pc'[s] # "recovering" => j = k
  PROVE  SessionInv'
<1> SUFFICES ASSUME NEW t \in Sessions
             PROVE  /\ pc'[t] = "transition" => arg'[t] \in OperatorTargets
                    /\ \A j, k \in Loaded(t)' : pc'[t] # "recovering" => j = k
  BY DEF SessionInv
<1>1. CASE t = s  BY <1>1 DEF Loaded
<1>2. CASE t # s  BY <1>2 DEF TypeInv, SessionInv, Loaded
<1> QED  BY <1>1, <1>2

LEMMA LoadInv ==
  ASSUME TypeInv, NEW s \in Sessions, NEW j \in Jobs,
         NEW next \in Control, NEW a, Load(s, {j}, next, a),
         a \in Arguments,
         next = "transition" => a \in OperatorTargets,
         jobs' = jobs /\ prompts' = prompts /\ grants' = grants
  PROVE  TypeInv'
<1>1. /\ pc' \in [Sessions -> Control]
      /\ copy' \in [Sessions -> [Jobs -> Row \cup {NotLoaded}]]
      /\ arg' \in [Sessions -> Arguments]
      /\ \A k \in Jobs : copy'[s][k] # NotLoaded => k \in {j}
  <2>1. TypeOK /\ {j} \in SUBSET Jobs  BY DEF TypeInv
  <2> QED  BY <2>1, LoadTypes
<1>2. /\ pc'[s] = next /\ arg'[s] = a
      /\ \A t \in Sessions \ {s} :
            pc'[t] = pc[t] /\ arg'[t] = arg[t] /\ copy'[t] = copy[t]
  BY DEF Load, TypeInv, TypeOK
<1>3. SessionInv'  BY <1>1, <1>2, OthersUnchanged
<1> QED  BY <1>1, <1>3 DEF TypeInv, TypeOK

LEMMA ReturnInv ==
  ASSUME TypeInv, NEW s \in Sessions, Return(s),
         jobs' \in [Jobs -> Row], prompts' \in [Jobs -> Nat], grants' \in [Jobs -> Nat]
  PROVE  TypeInv'
<1>1. /\ pc' \in [Sessions -> Control]
      /\ copy' \in [Sessions -> [Jobs -> Row \cup {NotLoaded}]]
      /\ arg' \in [Sessions -> Arguments]
      /\ \A k \in Jobs : copy'[s][k] = NotLoaded
  BY ReturnTypes DEF TypeInv
<1>2. /\ pc'[s] = "idle"
      /\ \A t \in Sessions \ {s} :
            pc'[t] = pc[t] /\ arg'[t] = arg[t] /\ copy'[t] = copy[t]
  BY DEF Return, TypeInv, TypeOK
<1>3. SessionInv'  BY <1>1, <1>2, OthersUnchanged
<1> QED  BY <1>1, <1>3 DEF TypeInv, TypeOK


-----------------------------------------------------------------------------
(* The type invariant, with what a session knows, is inductive. *)

LEMMA InitTypeInv == Init => TypeInv
<1> SUFFICES ASSUME Init  PROVE TypeInv
  OBVIOUS
<1>1. NewRow \in Row  BY DEF NewRow, Row, JobState
<1>2. TypeOK
  BY <1>1 DEF Init, TypeOK, NothingLoaded, Control, Arguments
<1>3. SessionInv
  BY DEF Init, SessionInv, Loaded, NothingLoaded
<1> QED  BY <1>2, <1>3 DEF TypeInv

LEMMA ClaimTypes ==
  ASSUME TypeInv, NEW w \in Workers, Claim(w)
  PROVE  TypeInv'
<1>0. w \in Sessions  BY DEF Sessions
<1>1. CASE ClaimLocked(w)
  <2>1. PICK j \in Jobs : /\ jobs' = [jobs EXCEPT ![j] = Claimed(@, w)]
                          /\ grants' = [grants EXCEPT ![j] = @ + 1]
    BY <1>1 DEF ClaimLocked
  <2>2. Claimed(jobs[j], w) \in Row  BY NewValuesAreRows DEF TypeInv, TypeOK
  <2>3. jobs' \in [Jobs -> Row] /\ grants' \in [Jobs -> Nat]
    BY <2>1, <2>2 DEF TypeInv, TypeOK
  <2> QED  BY <1>1, <2>3 DEF ClaimLocked, TypeInv, TypeOK, SessionInv, Loaded
<1>2. CASE ClaimRead(w)
  <2>1. PICK j \in Jobs : Load(w, {j}, "claiming", "none")
    BY <1>2 DEF ClaimRead
  <2> QED  BY <1>0, <1>2, <2>1, LoadInv DEF ClaimRead, Control, Arguments
<1>3. CASE ClaimCommit(w)
  <2>1. PICK j \in Loaded(w) : /\ Commit(w, j, Claimed(copy[w][j], w))
                               /\ grants' = [grants EXCEPT ![j] = @ + 1]
    BY <1>3 DEF ClaimCommit
  <2>2. copy[w][j] \in Row  BY <1>0, <2>1 DEF TypeInv, TypeOK, Loaded
  <2>3. jobs' \in [Jobs -> Row]
    BY <1>0, <2>1, <2>2, NewValuesAreRows, CommitTypes DEF TypeInv
  <2>4. grants' \in [Jobs -> Nat]  BY <2>1 DEF TypeInv, TypeOK, Loaded
  <2> QED  BY <1>0, <1>3, <2>3, <2>4, ReturnInv DEF ClaimCommit, TypeInv, TypeOK
<1> QED  BY <1>1, <1>2, <1>3 DEF Claim

LEMMA HeartbeatTypes ==
  ASSUME TypeInv, NEW w \in Workers, Heartbeat(w)
  PROVE  TypeInv'
<1>0. w \in Sessions  BY DEF Sessions
<1>1. ASSUME NEW j \in Jobs, HeartbeatRead(w, j)  PROVE TypeInv'
  BY <1>0, <1>1, LoadInv DEF HeartbeatRead, Control, Arguments
<1>2. CASE HeartbeatCommit(w)
  <2>1. PICK j \in Loaded(w) : Commit(w, j, [copy[w][j] EXCEPT !.heartbeat = "fresh"])
    BY <1>2 DEF HeartbeatCommit
  <2>2. copy[w][j] \in Row  BY <1>0, <2>1 DEF TypeInv, TypeOK, Loaded
  <2>3. jobs' \in [Jobs -> Row]
    BY <1>0, <2>1, <2>2, NewValuesAreRows, CommitTypes DEF TypeInv
  <2> QED  BY <1>0, <1>2, <2>3, ReturnInv DEF HeartbeatCommit, TypeInv, TypeOK
<1> QED  BY <1>1, <1>2 DEF Heartbeat

LEMMA RecoverTypes ==
  ASSUME TypeInv, NEW w \in Workers, Recover(w)
  PROVE  TypeInv'
<1>0. w \in Sessions  BY DEF Sessions
<1>1. CASE RecoverLocked(w)
  <2>1. \A j \in Jobs : Recovered(jobs[j]) \in Row
    BY NewValuesAreRows DEF TypeInv, TypeOK
  <2>2. jobs' \in [Jobs -> Row]
    BY <1>1, <2>1 DEF RecoverLocked, TypeInv, TypeOK
  <2> QED  BY <1>1, <2>2 DEF RecoverLocked, TypeInv, TypeOK, SessionInv, Loaded
<1>2. CASE RecoverRead(w)
  <2>1. Load(w, RecoveryCandidates, "recovering", "none")  BY <1>2 DEF RecoverRead
  <2>2. RecoveryCandidates \in SUBSET Jobs  BY DEF RecoveryCandidates, Stale
  <2>3. /\ pc' \in [Sessions -> Control]
        /\ copy' \in [Sessions -> [Jobs -> Row \cup {NotLoaded}]]
        /\ arg' \in [Sessions -> Arguments]
    BY <1>0, <2>1, <2>2, LoadTypes DEF TypeInv, Control, Arguments
  <2>4. /\ pc'[w] = "recovering"
        /\ \A t \in Sessions \ {w} :
              pc'[t] = pc[t] /\ arg'[t] = arg[t] /\ copy'[t] = copy[t]
    BY <1>0, <2>1 DEF Load, TypeInv, TypeOK
  <2>5. SessionInv'  BY <1>0, <2>3, <2>4, OthersUnchanged
  <2> QED  BY <1>2, <2>3, <2>5 DEF RecoverRead, TypeInv, TypeOK
<1>3. CASE RecoverCommit(w)
  <2>1. \A j \in Loaded(w) :
           Flush(jobs[j], copy[w][j], Recovered(copy[w][j])) \in Row
    <3> SUFFICES ASSUME NEW j \in Loaded(w)
                 PROVE  Flush(jobs[j], copy[w][j], Recovered(copy[w][j])) \in Row
      OBVIOUS
    <3>1. copy[w][j] \in Row /\ jobs[j] \in Row
      BY <1>0 DEF TypeInv, TypeOK, Loaded
    <3> QED  BY <3>1, NewValuesAreRows, FlushColumns
  <2>2. jobs' \in [Jobs -> Row]
    BY <1>3, <2>1 DEF RecoverCommit, TypeInv, TypeOK
  <2> QED  BY <1>0, <1>3, <2>2, ReturnInv DEF RecoverCommit, TypeInv, TypeOK
<1> QED  BY <1>1, <1>2, <1>3 DEF Recover

LEMMA TransitionTypes ==
  ASSUME TypeInv, NEW o \in Operators, Transition(o)
  PROVE  TypeInv'
<1>0. o \in Sessions  BY DEF Sessions
<1>1. ASSUME NEW j \in Jobs, NEW target \in OperatorTargets,
             TransitionRead(o, j, target)
      PROVE  TypeInv'
  <2>1. target \in Arguments  BY TargetsAssumption DEF Arguments
  <2> QED  BY <1>0, <1>1, <2>1, LoadInv DEF TransitionRead, Control
<1>2. CASE TransitionCommit(o)
  <2>1. arg[o] \in JobState
    BY <1>0, <1>2, TargetsAssumption DEF TransitionCommit, TypeInv, SessionInv
  <2>2. PICK j \in Loaded(o) :
           IF arg[o] = "reserved"
             THEN \E w \in Workers :
                    /\ Commit(o, j, Claimed(copy[o][j], w))
                    /\ grants' = [grants EXCEPT ![j] = @ + 1]
             ELSE /\ Commit(o, j, [copy[o][j] EXCEPT !.status = arg[o]])
                  /\ UNCHANGED grants
    BY <1>2 DEF TransitionCommit
  <2>3. copy[o][j] \in Row  BY <1>0, <2>2 DEF TypeInv, TypeOK, Loaded
  <2>4. jobs' \in [Jobs -> Row]
    BY <1>0, <2>1, <2>2, <2>3, NewValuesAreRows, CommitTypes DEF TypeInv
  <2>5. grants' \in [Jobs -> Nat]  BY <2>2 DEF TypeInv, TypeOK, Loaded
  <2> QED  BY <1>0, <1>2, <2>4, <2>5, ReturnInv DEF TransitionCommit, TypeInv, TypeOK
<1> QED  BY <1>1, <1>2 DEF Transition

LEMMA SubmitTypes ==
  ASSUME TypeInv, NEW w \in Workers, Submit(w)
  PROVE  TypeInv'
<1>0. w \in Sessions  BY DEF Sessions
<1>1. ASSUME NEW j \in Jobs, NEW workflowOk \in BOOLEAN, SubmitCheck(w, j, workflowOk)
      PROVE  TypeInv'
  <2>1. PICK a \in {"ready", "not_ready"} : Load(w, {j}, "checked", a)
    BY <1>1 DEF SubmitCheck
  <2>2. a \in Arguments  BY DEF Arguments, Verdicts
  <2> QED  BY <1>0, <1>1, <2>1, <2>2, LoadInv DEF SubmitCheck, Control
<1>2. CASE SubmitReread(w)
  <2>0. PICK j \in Loaded(w) : \E row \in {copy[w][j], jobs[j]} :
           IF MayValidate(w, row)
             THEN /\ copy' = [copy EXCEPT ![w][j] = row]
                  /\ pc' = [pc EXCEPT ![w] = "entering"]
                  /\ UNCHANGED arg
             ELSE Return(w)
    BY <1>2 DEF SubmitReread
  <2>1. PICK row \in {copy[w][j], jobs[j]} :
           IF MayValidate(w, row)
             THEN /\ copy' = [copy EXCEPT ![w][j] = row]
                  /\ pc' = [pc EXCEPT ![w] = "entering"]
                  /\ UNCHANGED arg
             ELSE Return(w)
    BY <2>0
  <2>2. row \in Row  BY <1>0, <2>1 DEF TypeInv, TypeOK, Loaded
  <2>3. CASE Return(w)
    BY <1>0, <1>2, <2>3, ReturnInv DEF SubmitReread, TypeInv, TypeOK
  <2>4. CASE ~Return(w)
    <3>1. /\ pc' \in [Sessions -> Control]
          /\ copy' \in [Sessions -> [Jobs -> Row \cup {NotLoaded}]]
          /\ arg' = arg
      <4>1. /\ copy' = [copy EXCEPT ![w][j] = row]
            /\ pc' = [pc EXCEPT ![w] = "entering"]
            /\ arg' = arg
        BY <2>1, <2>4
      <4>2. copy' \in [Sessions -> [Jobs -> Row \cup {NotLoaded}]]
        BY <4>1, <2>2 DEF TypeInv, TypeOK
      <4> QED  BY <4>1, <4>2 DEF TypeInv, TypeOK, Control
    <3>2. /\ pc'[w] = "entering"
          /\ \A t \in Sessions \ {w} :
                pc'[t] = pc[t] /\ arg'[t] = arg[t] /\ copy'[t] = copy[t]
          /\ \A k \in Jobs : copy'[w][k] # NotLoaded => k \in Loaded(w)
      BY <1>0, <2>1, <2>4 DEF TypeInv, TypeOK, Loaded
    <3>3. pc[w] # "recovering"  BY <1>2 DEF SubmitReread
    <3>4. SessionInv'
      BY <1>0, <3>1, <3>2, <3>3, OthersUnchanged DEF TypeInv, SessionInv
    <3> QED  BY <1>2, <3>1, <3>4 DEF SubmitReread, TypeInv, TypeOK
  <2> QED  BY <2>3, <2>4
<1>3. CASE EnterValidating(w)
  <2>1. PICK j \in Loaded(w) :
           /\ Commit(w, j, [copy[w][j] EXCEPT !.status = "validating"])
           /\ copy' = [copy EXCEPT ![w][j] = jobs'[j]]
    BY <1>3 DEF EnterValidating
  <2>2. copy[w][j] \in Row /\ j \in Jobs
    BY <1>0, <2>1 DEF TypeInv, TypeOK, Loaded
  <2>3. jobs' \in [Jobs -> Row]
    <3>1. "validating" \in JobState  BY DEF JobState
    <3> QED  BY <1>0, <2>1, <2>2, <3>1, NewValuesAreRows, CommitTypes DEF TypeInv
  <2>4. /\ pc' \in [Sessions -> Control]
        /\ copy' \in [Sessions -> [Jobs -> Row \cup {NotLoaded}]]
        /\ arg' = arg
    BY <1>3, <2>1, <2>2, <2>3 DEF EnterValidating, TypeInv, TypeOK, Control
  <2>5. /\ pc'[w] \in {"posting", "answered"}
        /\ \A t \in Sessions \ {w} :
              pc'[t] = pc[t] /\ arg'[t] = arg[t] /\ copy'[t] = copy[t]
        /\ \A k \in Jobs : copy'[w][k] # NotLoaded => k \in Loaded(w)
    BY <1>0, <1>3, <2>1, <2>4 DEF EnterValidating, TypeInv, TypeOK, Loaded
  <2>6. pc[w] # "recovering"  BY <1>3 DEF EnterValidating
  <2>7. SessionInv'
    BY <1>0, <2>4, <2>5, <2>6, OthersUnchanged DEF TypeInv, SessionInv
  <2> QED  BY <1>3, <2>3, <2>4, <2>7 DEF EnterValidating, TypeInv, TypeOK
<1>4. ASSUME NEW answer \in Answers, NEW queued \in BOOLEAN,
             ComfyAnswers(w, answer, queued)
      PROVE  TypeInv'
  <2>0. PICK j \in Loaded(w) :
           prompts' = [prompts EXCEPT ![j] = IF queued THEN @ + 1 ELSE @]
    BY <1>4 DEF ComfyAnswers
  <2>1. /\ pc' \in [Sessions -> Control]
        /\ arg' \in [Sessions -> Arguments]
        /\ prompts' \in [Jobs -> Nat]
    <3>1. prompts' \in [Jobs -> Nat]  BY <2>0 DEF TypeInv, TypeOK, Loaded
    <3>2. pc' \in [Sessions -> Control]
      BY <1>4 DEF ComfyAnswers, TypeInv, TypeOK, Control
    <3>3. arg' \in [Sessions -> Arguments]
      BY <1>4 DEF ComfyAnswers, TypeInv, TypeOK, Arguments
    <3> QED  BY <3>1, <3>2, <3>3
  <2>2. SessionInv'
    BY <1>0, <1>4 DEF ComfyAnswers, TypeInv, TypeOK, SessionInv, Loaded
  <2> QED  BY <1>4, <2>1, <2>2 DEF ComfyAnswers, TypeInv, TypeOK
<1>5. CASE RecordAnswer(w)
  <2>1. PICK j \in Loaded(w) :
           Commit(w, j, IF arg[w] = "accepted"
                          THEN MarkSubmitted(copy[w][j])
                          ELSE MarkSubmissionFailure(copy[w][j], arg[w]))
    BY <1>5 DEF RecordAnswer
  <2>2. copy[w][j] \in Row  BY <1>0, <2>1 DEF TypeInv, TypeOK, Loaded
  <2>3. jobs' \in [Jobs -> Row]
    BY <1>0, <2>1, <2>2, NewValuesAreRows, CommitTypes DEF TypeInv
  <2> QED  BY <1>0, <1>5, <2>3, ReturnInv DEF RecordAnswer, TypeInv, TypeOK
<1> QED  BY <1>1, <1>2, <1>3, <1>4, <1>5 DEF Submit

LEMMA EnvironmentTypes ==
  ASSUME TypeInv,
         \/ \E w \in Workers : Crash(w) \/ Restart(w)
         \/ \E j \in Jobs : Age(j)
  PROVE  TypeInv'
<1>1. ASSUME NEW w \in Workers, Crash(w)  PROVE TypeInv'
  <2>0. w \in Sessions  BY DEF Sessions
  <2>1. TypeOK'  BY <1>1 DEF Crash, TypeInv, TypeOK, Control, Arguments, NothingLoaded
  <2>2. SessionInv'
    BY <1>1, <2>0 DEF Crash, TypeInv, TypeOK, SessionInv, Loaded, NothingLoaded
  <2> QED  BY <2>1, <2>2 DEF TypeInv
<1>2. ASSUME NEW w \in Workers, Restart(w)  PROVE TypeInv'
  <2>0. w \in Sessions  BY DEF Sessions
  <2>1. TypeOK'  BY <1>2 DEF Restart, TypeInv, TypeOK, Control
  <2>2. SessionInv'
    BY <1>2, <2>0 DEF Restart, TypeInv, TypeOK, SessionInv, Loaded
  <2> QED  BY <2>1, <2>2 DEF TypeInv
<1>3. ASSUME NEW j \in Jobs, Age(j)  PROVE TypeInv'
  <2>1. [jobs[j] EXCEPT !.heartbeat = "stale"] \in Row
    <3>1. jobs[j] \in Row  BY DEF TypeInv, TypeOK
    <3> QED  BY <3>1 DEF Row
  <2>2. jobs' = [jobs EXCEPT ![j] = [jobs[j] EXCEPT !.heartbeat = "stale"]]
    BY <1>3 DEF Age, TypeInv, TypeOK
  <2>3. jobs' \in [Jobs -> Row]  BY <2>1, <2>2 DEF TypeInv, TypeOK
  <2>4. UNCHANGED <<pc, copy, arg, prompts, grants>>  BY <1>3 DEF Age
  <2>5. TypeOK'  BY <2>3, <2>4 DEF TypeInv, TypeOK
  <2>6. SessionInv'  BY <2>4 DEF TypeInv, SessionInv, Loaded
  <2> QED  BY <2>5, <2>6 DEF TypeInv
<1> QED  BY <1>1, <1>2, <1>3

LEMMA StepTypeInv == TypeInv /\ [Next]_vars => TypeInv'
<1> SUFFICES ASSUME TypeInv, [Next]_vars  PROVE TypeInv'
  OBVIOUS
<1>1. CASE UNCHANGED vars
  BY <1>1 DEF vars, TypeInv, TypeOK, SessionInv, Loaded
<1>2. CASE Next
  BY <1>2, ClaimTypes, HeartbeatTypes, RecoverTypes, SubmitTypes, TransitionTypes,
     EnvironmentTypes DEF Next
<1> QED  BY <1>1, <1>2

(* Every reachable table holds rows, and a call between its read and its    *)
(* commit holds one row, except a recovery.                                *)
THEOREM TypeInvariance == Spec => []TypeInv
  BY InitTypeInv, StepTypeInv, PTL DEF Spec

(* Whatever sessions commit over each other, the table holds rows of the   *)
(* right types, and every session has loaded what its next statement needs. *)
THEOREM TypeCorrect == Spec => []TypeOK
<1>1. TypeInv => TypeOK  BY DEF TypeInv
<1> QED  BY <1>1, TypeInvariance, PTL

-----------------------------------------------------------------------------
(***************************************************************************)
(* PromptsWithinGrants, for every set of jobs, every finite set of workers *)
(* and both databases.                                                     *)
(*                                                                         *)
(* The argument is an account: a claim of job j pays for one prompt.  The  *)
(* money is in the row while it is reserved, then in the worker that left  *)
(* the reservation behind on its way to ComfyUI, then in the prompt.       *)
(***************************************************************************)

(* What the session's copy tells of the row it was taken from. *)
CopyInv ==
  \A s \in Sessions : \A j \in Loaded(s) :
     /\ pc[s] = "claiming" => copy[s][j].status = "pending"
     /\ pc[s] = "recovering" => copy[s][j].status = "reserved"
     /\ pc[s] = "transition" => arg[s] \in ValidTransitions(copy[s][j].status)
     /\ pc[s] = "entering" => copy[s][j].status = "reserved"

InFlight == {"checked", "entering", "posting"}
Reserved(j) == jobs[j].status = "reserved"
ReservedBy(w, j) == Reserved(j) /\ jobs[j].worker_id = w

(* The workers that may still post a prompt of j that the row of j no       *)
(* longer pays for.                                                        *)
Owed(j) ==
  {w \in Workers : /\ j \in Loaded(w)
                   /\ \/ pc[w] = "posting"
                      \/ pc[w] \in {"checked", "entering"} /\ ~ReservedBy(w, j)}

Balance(j) ==
  prompts[j] + Cardinality(Owed(j)) + (IF Reserved(j) THEN 1 ELSE 0) <= grants[j]

PromptInv == \A j \in Jobs : Balance(j)

LEMMA OwedFinite ==
  ASSUME NEW j
  PROVE  /\ IsFiniteSet(Owed(j)) /\ Cardinality(Owed(j)) \in Nat
         /\ Cardinality(Owed(j)') \in Nat
<1>1. /\ Owed(j) \subseteq Workers /\ Owed(j)' \subseteq Workers
      /\ IsFiniteSet(Workers)
  BY WorkersAssumption DEF Owed
<1> QED  BY <1>1, FS_Subset, FS_CardinalityType

(* Cardinality of a set that gained or lost an element *)
LEMMA CardinalityBounds ==
  ASSUME NEW S, IsFiniteSet(S), NEW T, NEW x
  PROVE  /\ T \subseteq S => Cardinality(T) <= Cardinality(S)
         /\ T \subseteq S \cup {x} => Cardinality(T) <= Cardinality(S) + 1
         /\ T \subseteq S \ {x} /\ x \in S => Cardinality(T) <= Cardinality(S) - 1
<1>1. Cardinality(S) \in Nat  BY FS_CardinalityType
<1>2. ASSUME T \subseteq S  PROVE Cardinality(T) <= Cardinality(S)
  BY <1>2, FS_Subset
<1>3. ASSUME T \subseteq S \cup {x}  PROVE Cardinality(T) <= Cardinality(S) + 1
  <2>1. /\ IsFiniteSet(S \cup {x})
        /\ \/ Cardinality(S \cup {x}) = Cardinality(S)
           \/ Cardinality(S \cup {x}) = Cardinality(S) + 1
    BY FS_AddElement
  <2>2. Cardinality(T) <= Cardinality(S \cup {x}) /\ Cardinality(T) \in Nat
    BY <1>3, <2>1, FS_Subset, FS_CardinalityType
  <2> QED  BY <1>1, <2>1, <2>2
<1>4. ASSUME T \subseteq S \ {x}, x \in S  PROVE Cardinality(T) <= Cardinality(S) - 1
  <2>1. IsFiniteSet(S \ {x}) /\ Cardinality(S \ {x}) = Cardinality(S) - 1
    BY <1>4, FS_RemoveElement
  <2>2. Cardinality(T) <= Cardinality(S \ {x})
    BY <1>4, <2>1, FS_Subset
  <2> QED  BY <2>1, <2>2
<1> QED  BY <1>2, <1>3, <1>4

-----------------------------------------------------------------------------
(* CopyInv: only the acting session's copy changes. *)

LEMMA CopyInvOfActor ==
  ASSUME CopyInv, NEW s \in Sessions,
         \A t \in Sessions \ {s} :
            pc'[t] = pc[t] /\ arg'[t] = arg[t] /\ copy'[t] = copy[t],
         \A j \in Jobs : copy'[s][j] # NotLoaded =>
            /\ pc'[s] = "claiming" => copy'[s][j].status = "pending"
            /\ pc'[s] = "recovering" => copy'[s][j].status = "reserved"
            /\ pc'[s] = "transition" => arg'[s] \in ValidTransitions(copy'[s][j].status)
            /\ pc'[s] = "entering" => copy'[s][j].status = "reserved"
  PROVE  CopyInv'
<1> SUFFICES ASSUME NEW t \in Sessions, NEW j \in Loaded(t)'
             PROVE  /\ pc'[t] = "claiming" => copy'[t][j].status = "pending"
                    /\ pc'[t] = "recovering" => copy'[t][j].status = "reserved"
                    /\ pc'[t] = "transition" =>
                         arg'[t] \in ValidTransitions(copy'[t][j].status)
                    /\ pc'[t] = "entering" => copy'[t][j].status = "reserved"
  BY DEF CopyInv
<1>1. CASE t = s  BY <1>1 DEF Loaded
<1>2. CASE t # s
  <2>1. j \in Loaded(t) /\ pc'[t] = pc[t] /\ arg'[t] = arg[t] /\ copy'[t] = copy[t]
    BY <1>2 DEF Loaded
  <2> QED  BY <2>1 DEF CopyInv
<1> QED  BY <1>1, <1>2

(* A session that has returned knows nothing. *)
LEMMA ReturnCopyInv ==
  ASSUME TypeInv, CopyInv, NEW s \in Sessions, Return(s)
  PROVE  CopyInv'
<1>1. /\ pc'[s] = "idle"
      /\ \A t \in Sessions \ {s} :
            pc'[t] = pc[t] /\ arg'[t] = arg[t] /\ copy'[t] = copy[t]
  BY DEF Return, TypeInv, TypeOK
<1> QED  BY <1>1, CopyInvOfActor

LEMMA LoadCopyInv ==
  ASSUME TypeInv, CopyInv, NEW s \in Sessions, NEW S \in SUBSET Jobs,
         NEW next \in Control \ {"entering"}, NEW a, Load(s, S, next, a),
         \A j \in S : /\ next = "claiming" => jobs[j].status = "pending"
                      /\ next = "recovering" => jobs[j].status = "reserved"
                      /\ next = "transition" => a \in ValidTransitions(jobs[j].status)
  PROVE  CopyInv'
<1>1. /\ pc'[s] = next /\ arg'[s] = a
      /\ \A j \in Jobs : copy'[s][j] # NotLoaded => j \in S /\ copy'[s][j] = jobs[j]
      /\ \A t \in Sessions \ {s} :
            pc'[t] = pc[t] /\ arg'[t] = arg[t] /\ copy'[t] = copy[t]
  BY DEF Load, TypeInv, TypeOK
<1>2. \A j \in Jobs : copy'[s][j] # NotLoaded =>
            /\ pc'[s] = "claiming" => copy'[s][j].status = "pending"
            /\ pc'[s] = "recovering" => copy'[s][j].status = "reserved"
            /\ pc'[s] = "transition" => arg'[s] \in ValidTransitions(copy'[s][j].status)
            /\ pc'[s] = "entering" => copy'[s][j].status = "reserved"
  BY <1>1
<1> QED  BY <1>1, <1>2, CopyInvOfActor

(* VALID_TRANSITIONS enters validating from reserved only. *)
LEMMA EntersValidatingFromReserved ==
  \A state \in JobState :
     "validating" \in ValidTransitions(state) => state = "reserved"
  BY DEF ValidTransitions, JobState

LEMMA StepCopyInv == TypeInv /\ CopyInv /\ [Next]_vars => CopyInv'
<1> SUFFICES ASSUME TypeInv, CopyInv, [Next]_vars  PROVE CopyInv'
  OBVIOUS
<1>0. Workers \subseteq Sessions /\ Operators \subseteq Sessions  BY DEF Sessions
<1>1. CASE UNCHANGED vars  BY <1>1 DEF vars, CopyInv, Loaded
<1>2. ASSUME NEW w \in Workers, Claim(w)  PROVE CopyInv'
  <2>1. CASE ClaimLocked(w)  BY <2>1 DEF ClaimLocked, CopyInv, Loaded
  <2>2. CASE ClaimRead(w)
    <3>1. PICK j \in Jobs : LowestPending(j) /\ Load(w, {j}, "claiming", "none")
      BY <2>2 DEF ClaimRead
    <3>2. {j} \in SUBSET Jobs /\ "claiming" \in Control \ {"entering"}
      BY DEF Control
    <3>3. \A k \in {j} : jobs[k].status = "pending"  BY <3>1 DEF LowestPending
    <3> QED  BY <1>0, <3>1, <3>2, <3>3, LoadCopyInv
  <2>3. CASE ClaimCommit(w)  BY <1>0, <2>3, ReturnCopyInv DEF ClaimCommit
  <2> QED  BY <1>2, <2>1, <2>2, <2>3 DEF Claim
<1>3. ASSUME NEW w \in Workers, Heartbeat(w)  PROVE CopyInv'
  <2>1. ASSUME NEW j \in Jobs, HeartbeatRead(w, j)  PROVE CopyInv'
    <3>1. Load(w, {j}, "heartbeat", "none")  BY <2>1 DEF HeartbeatRead
    <3>2. {j} \in SUBSET Jobs /\ "heartbeat" \in Control \ {"entering"}
      BY DEF Control
    <3> QED  BY <1>0, <3>1, <3>2, LoadCopyInv
  <2>2. CASE HeartbeatCommit(w)  BY <1>0, <2>2, ReturnCopyInv DEF HeartbeatCommit
  <2> QED  BY <1>3, <2>1, <2>2 DEF Heartbeat
<1>4. ASSUME NEW w \in Workers, Recover(w)  PROVE CopyInv'
  <2>1. CASE RecoverLocked(w)  BY <2>1 DEF RecoverLocked, CopyInv, Loaded
  <2>2. CASE RecoverRead(w)
    <3>1. Load(w, RecoveryCandidates, "recovering", "none")  BY <2>2 DEF RecoverRead
    <3>2. /\ RecoveryCandidates \in SUBSET Jobs
          /\ "recovering" \in Control \ {"entering"}
          /\ \A j \in RecoveryCandidates : jobs[j].status = "reserved"
      BY DEF Control, RecoveryCandidates, Stale
    <3> QED  BY <1>0, <3>1, <3>2, LoadCopyInv
  <2>3. CASE RecoverCommit(w)  BY <1>0, <2>3, ReturnCopyInv DEF RecoverCommit
  <2> QED  BY <1>4, <2>1, <2>2, <2>3 DEF Recover
<1>5. ASSUME NEW w \in Workers, Submit(w)  PROVE CopyInv'
  <2>1. ASSUME NEW j \in Jobs, NEW workflowOk \in BOOLEAN, SubmitCheck(w, j, workflowOk)
        PROVE  CopyInv'
    <3>1. PICK a \in {"ready", "not_ready"} : Load(w, {j}, "checked", a)
      BY <2>1 DEF SubmitCheck
    <3>2. {j} \in SUBSET Jobs /\ "checked" \in Control \ {"entering"}
      BY DEF Control
    <3> QED  BY <1>0, <3>1, <3>2, LoadCopyInv
  <2>2. CASE SubmitReread(w)
    <3>1. PICK j \in Loaded(w) : \E row \in {copy[w][j], jobs[j]} :
             IF MayValidate(w, row)
               THEN /\ copy' = [copy EXCEPT ![w][j] = row]
                    /\ pc' = [pc EXCEPT ![w] = "entering"]
                    /\ UNCHANGED arg
               ELSE Return(w)
      BY <2>2 DEF SubmitReread
    <3>2. PICK row \in {copy[w][j], jobs[j]} :
             IF MayValidate(w, row)
               THEN /\ copy' = [copy EXCEPT ![w][j] = row]
                    /\ pc' = [pc EXCEPT ![w] = "entering"]
                    /\ UNCHANGED arg
               ELSE Return(w)
      BY <3>1
    <3>3. CASE Return(w)  BY <1>0, <3>3, ReturnCopyInv
    <3>4. CASE ~Return(w)
      <4>1. row \in Row  BY <1>0, <3>1, <3>2 DEF TypeInv, TypeOK, Loaded
      <4>2. row.status = "reserved"
        BY <3>2, <3>4, <4>1, EntersValidatingFromReserved DEF MayValidate, Row
      <4>3. \A k \in Loaded(w) : k = j
        BY <1>0, <2>2, <3>1 DEF SubmitReread, TypeInv, SessionInv
      <4>4. /\ pc'[w] = "entering"
            /\ \A k \in Jobs : copy'[w][k] # NotLoaded => copy'[w][k] = row
            /\ \A t \in Sessions \ {w} :
                  pc'[t] = pc[t] /\ arg'[t] = arg[t] /\ copy'[t] = copy[t]
        BY <1>0, <3>1, <3>2, <3>4, <4>3 DEF TypeInv, TypeOK, Loaded
      <4> QED  BY <1>0, <4>2, <4>4, CopyInvOfActor
    <3> QED  BY <3>3, <3>4
  <2>3. CASE EnterValidating(w)
    <3>1. /\ pc'[w] \in {"posting", "answered"}
          /\ \A t \in Sessions \ {w} :
                pc'[t] = pc[t] /\ arg'[t] = arg[t] /\ copy'[t] = copy[t]
      BY <1>0, <2>3 DEF EnterValidating, TypeInv, TypeOK
    <3> QED  BY <1>0, <3>1, CopyInvOfActor
  <2>4. ASSUME NEW answer \in Answers, NEW queued \in BOOLEAN,
               ComfyAnswers(w, answer, queued)
        PROVE  CopyInv'
    <3>1. /\ pc'[w] = "answered"
          /\ \A t \in Sessions \ {w} :
                pc'[t] = pc[t] /\ arg'[t] = arg[t] /\ copy'[t] = copy[t]
      BY <1>0, <2>4 DEF ComfyAnswers, TypeInv, TypeOK
    <3> QED  BY <1>0, <3>1, CopyInvOfActor
  <2>5. CASE RecordAnswer(w)  BY <1>0, <2>5, ReturnCopyInv DEF RecordAnswer
  <2> QED  BY <1>5, <2>1, <2>2, <2>3, <2>4, <2>5 DEF Submit
<1>6. ASSUME NEW w \in Workers, Crash(w) \/ Restart(w)  PROVE CopyInv'
  <2>1. /\ pc'[w] \in {"down", "idle"}
        /\ \A t \in Sessions \ {w} :
              pc'[t] = pc[t] /\ arg'[t] = arg[t] /\ copy'[t] = copy[t]
    BY <1>0, <1>6 DEF Crash, Restart, TypeInv, TypeOK
  <2> QED  BY <1>0, <2>1, CopyInvOfActor
<1>7. ASSUME NEW o \in Operators, Transition(o)  PROVE CopyInv'
  <2>1. ASSUME NEW j \in Jobs, NEW target \in OperatorTargets,
               TransitionRead(o, j, target)
        PROVE  CopyInv'
    <3>1. /\ Load(o, {j}, "transition", target)
          /\ target \in ValidTransitions(jobs[j].status)
      BY <2>1 DEF TransitionRead
    <3>2. {j} \in SUBSET Jobs /\ "transition" \in Control \ {"entering"}
      BY DEF Control
    <3> QED  BY <1>0, <3>1, <3>2, LoadCopyInv
  <2>2. CASE TransitionCommit(o)  BY <1>0, <2>2, ReturnCopyInv DEF TransitionCommit
  <2> QED  BY <1>7, <2>1, <2>2 DEF Transition
<1>8. ASSUME NEW j \in Jobs, Age(j)  PROVE CopyInv'
  BY <1>8 DEF Age, CopyInv, Loaded
<1> QED  BY <1>1, <1>2, <1>3, <1>4, <1>5, <1>6, <1>7, <1>8 DEF Next

-----------------------------------------------------------------------------
(* The account of one job *)

(* Nothing is granted or posted: a reservation that ends becomes the debt   *)
(* of at most its own worker.                                              *)
LEMMA BalanceKept ==
  ASSUME TypeInv, TypeOK', NEW j \in Jobs, Balance(j),
         prompts'[j] = prompts[j], grants'[j] = grants[j],
         \/ Owed(j)' \subseteq Owed(j) /\ (Reserved(j)' => Reserved(j))
         \/ /\ Reserved(j) /\ ~Reserved(j)'
            /\ Owed(j)' \subseteq Owed(j) \cup {jobs[j].worker_id}
  PROVE  Balance(j)'
<1>1. /\ IsFiniteSet(Owed(j)) /\ Cardinality(Owed(j)) \in Nat
      /\ Cardinality(Owed(j)') \in Nat
  BY OwedFinite
<1>2. prompts[j] \in Nat /\ grants[j] \in Nat  BY DEF TypeInv, TypeOK
<1>3. CASE Owed(j)' \subseteq Owed(j) /\ (Reserved(j)' => Reserved(j))
  <2>1. Cardinality(Owed(j)') <= Cardinality(Owed(j))
    BY <1>1, <1>3, CardinalityBounds
  <2> QED  BY <1>1, <1>2, <1>3, <2>1 DEF Balance
<1>4. CASE /\ Reserved(j) /\ ~Reserved(j)'
           /\ Owed(j)' \subseteq Owed(j) \cup {jobs[j].worker_id}
  <2>1. Cardinality(Owed(j)') <= Cardinality(Owed(j)) + 1
    BY <1>1, <1>4, CardinalityBounds
  <2> QED  BY <1>1, <1>2, <1>4, <2>1 DEF Balance
<1> QED  BY <1>3, <1>4

(* A grant pays for the reservation it writes; the reservation it           *)
(* overwrites, if any, becomes the debt of its worker.                     *)
LEMMA BalanceGranted ==
  ASSUME TypeInv, TypeOK', NEW j \in Jobs, Balance(j),
         prompts'[j] = prompts[j], grants'[j] = grants[j] + 1,
         \/ Owed(j)' \subseteq Owed(j)
         \/ Reserved(j) /\ Owed(j)' \subseteq Owed(j) \cup {jobs[j].worker_id}
  PROVE  Balance(j)'
<1>1. /\ IsFiniteSet(Owed(j)) /\ Cardinality(Owed(j)) \in Nat
      /\ Cardinality(Owed(j)') \in Nat
  BY OwedFinite
<1>2. prompts[j] \in Nat /\ grants[j] \in Nat  BY DEF TypeInv, TypeOK
<1>3. CASE Owed(j)' \subseteq Owed(j)
  <2>1. Cardinality(Owed(j)') <= Cardinality(Owed(j))
    BY <1>1, <1>3, CardinalityBounds
  <2> QED  BY <1>1, <1>2, <2>1 DEF Balance
<1>4. CASE Reserved(j) /\ Owed(j)' \subseteq Owed(j) \cup {jobs[j].worker_id}
  <2>1. Cardinality(Owed(j)') <= Cardinality(Owed(j)) + 1
    BY <1>1, <1>4, CardinalityBounds
  <2> QED  BY <1>1, <1>2, <1>4, <2>1 DEF Balance
<1> QED  BY <1>3, <1>4

(* The workers in flight either stay as they are or leave. *)
NoneTakesOff ==
  \A w \in Workers : \/ pc'[w] = pc[w] /\ copy'[w] = copy[w]
                     \/ pc'[w] \notin InFlight

LEMMA OwedWhenNoneTakesOff ==
  ASSUME TypeInv, NEW j \in Jobs, NoneTakesOff
  PROVE  /\ ~Reserved(j) => Owed(j)' \subseteq Owed(j)
         /\ Reserved(j) => Owed(j)' \subseteq Owed(j) \cup {jobs[j].worker_id}
         /\ Reserved(j)' /\ Reserved(j) /\ jobs'[j].worker_id = jobs[j].worker_id
              => Owed(j)' \subseteq Owed(j)
  BY DEF NoneTakesOff, InFlight, Owed, Reserved, ReservedBy, Loaded

(* A row that no grant touched is reserved only for its worker of before. *)
RowKept(j) ==
  Reserved(j)' => Reserved(j) /\ jobs'[j].worker_id = jobs[j].worker_id

LEMMA BalanceUntouched ==
  ASSUME TypeInv, TypeOK', NEW j \in Jobs, Balance(j), NoneTakesOff, RowKept(j),
         prompts'[j] = prompts[j], grants'[j] = grants[j]
  PROVE  Balance(j)'
  BY OwedWhenNoneTakesOff, BalanceKept DEF RowKept

(* A commit that does not reserve keeps the row unless it changes status. *)
LEMMA CommitKeepsRow ==
  ASSUME TypeInv, NEW s \in Sessions, NEW j \in Loaded(s), NEW new \in Row,
         jobs'[j] = Flush(jobs[j], copy[s][j], new),
         \/ new.status # "reserved" /\ new.worker_id = copy[s][j].worker_id
         \/ new.status # "reserved" /\ new.status # copy[s][j].status
         \/ /\ new.status = copy[s][j].status
            /\ new.worker_id = copy[s][j].worker_id
  PROVE  RowKept(j)
<1>1. jobs[j] \in Row /\ copy[s][j] \in Row
  BY DEF TypeInv, TypeOK, Loaded
<1>2. /\ jobs'[j].status = IF new.status # copy[s][j].status THEN new.status
                                                            ELSE jobs[j].status
      /\ jobs'[j].worker_id =
           IF new.worker_id # copy[s][j].worker_id THEN new.worker_id
                                                   ELSE jobs[j].worker_id
  BY <1>1, FlushColumns
<1> QED  BY <1>2 DEF RowKept, Reserved

-----------------------------------------------------------------------------
(* PromptInv, action by action *)

Inv == TypeInv /\ CopyInv /\ PromptInv

LEMMA ReturnTakesOffNone ==
  ASSUME TypeInv, NEW s \in Sessions, Return(s)
  PROVE  NoneTakesOff
  BY DEF Return, NoneTakesOff, InFlight, TypeInv, TypeOK, Sessions

(* A claim committed for job j, by a worker or by an operator *)
LEMMA ClaimBalance ==
  ASSUME Inv, TypeOK', NEW j \in Jobs, NoneTakesOff,
         prompts' = prompts,
         grants' = [grants EXCEPT ![j] = @ + 1],
         \A k \in Jobs \ {j} : jobs'[k] = jobs[k]
  PROVE  PromptInv'
<1> SUFFICES ASSUME NEW k \in Jobs  PROVE Balance(k)'
  BY DEF PromptInv
<1>0. Balance(k) /\ TypeInv  BY DEF Inv, PromptInv
<1>1. CASE k = j
  <2>1. prompts'[k] = prompts[k] /\ grants'[k] = grants[k] + 1
    BY <1>1 DEF Inv, TypeInv, TypeOK
  <2> QED  BY <1>0, <2>1, OwedWhenNoneTakesOff, BalanceGranted
<1>2. CASE k # j
  <2>1. /\ prompts'[k] = prompts[k] /\ grants'[k] = grants[k] /\ RowKept(k)
    BY <1>2 DEF Inv, TypeInv, TypeOK, RowKept, Reserved
  <2> QED  BY <1>0, <2>1, BalanceUntouched
<1> QED  BY <1>1, <1>2

(* A step that grants and posts nothing *)
LEMMA QuietBalance ==
  ASSUME Inv, TypeOK', NoneTakesOff, prompts' = prompts, grants' = grants,
         \A k \in Jobs : RowKept(k)
  PROVE  PromptInv'
  BY BalanceUntouched DEF Inv, PromptInv

(* A session commits one row without reserving it. *)
LEMMA CommitBalance ==
  ASSUME Inv, TypeOK', NoneTakesOff, prompts' = prompts, grants' = grants,
         NEW s \in Sessions, NEW j \in Loaded(s), NEW new \in Row,
         Commit(s, j, new),
         \/ new.status # "reserved" /\ new.worker_id = copy[s][j].worker_id
         \/ /\ new.status = copy[s][j].status
            /\ new.worker_id = copy[s][j].worker_id
  PROVE  PromptInv'
<1>1. /\ jobs'[j] = Flush(jobs[j], copy[s][j], new)
      /\ \A k \in Jobs \ {j} : jobs'[k] = jobs[k]
  BY DEF Commit, Inv, TypeInv, TypeOK, Loaded
<1>2. RowKept(j)  BY <1>1, CommitKeepsRow DEF Inv
<1>3. \A k \in Jobs \ {j} : RowKept(k)  BY <1>1 DEF RowKept, Reserved
<1> QED  BY <1>2, <1>3, QuietBalance

LEMMA ClaimPrompts ==
  ASSUME Inv, TypeOK', NEW w \in Workers, Claim(w)
  PROVE  PromptInv'
<1>0. w \in Sessions  BY DEF Sessions
<1>1. CASE ClaimLocked(w)
  <2>1. PICK j \in Jobs : /\ jobs' = [jobs EXCEPT ![j] = Claimed(@, w)]
                          /\ grants' = [grants EXCEPT ![j] = @ + 1]
    BY <1>1 DEF ClaimLocked
  <2>2. NoneTakesOff /\ prompts' = prompts  BY <1>1 DEF ClaimLocked, NoneTakesOff
  <2>3. \A k \in Jobs \ {j} : jobs'[k] = jobs[k]
    BY <2>1 DEF Inv, TypeInv, TypeOK
  <2> QED  BY <2>1, <2>2, <2>3, ClaimBalance
<1>2. CASE ClaimRead(w)
  <2>1. NoneTakesOff
    BY <1>0, <1>2 DEF ClaimRead, Load, NoneTakesOff, InFlight, Inv, TypeInv, TypeOK
  <2> QED  BY <1>2, <2>1, QuietBalance DEF ClaimRead, RowKept, Reserved
<1>3. CASE ClaimCommit(w)
  <2>1. PICK j \in Loaded(w) : /\ Commit(w, j, Claimed(copy[w][j], w))
                               /\ grants' = [grants EXCEPT ![j] = @ + 1]
    BY <1>3 DEF ClaimCommit
  <2>2. NoneTakesOff /\ prompts' = prompts
    BY <1>0, <1>3, ReturnTakesOffNone DEF ClaimCommit, Inv
  <2>3. j \in Jobs /\ \A k \in Jobs \ {j} : jobs'[k] = jobs[k]
    BY <2>1 DEF Commit, Loaded, Inv, TypeInv, TypeOK
  <2> QED  BY <2>1, <2>2, <2>3, ClaimBalance
<1> QED  BY <1>1, <1>2, <1>3 DEF Claim

LEMMA HeartbeatPrompts ==
  ASSUME Inv, TypeOK', NEW w \in Workers, Heartbeat(w)
  PROVE  PromptInv'
<1>0. w \in Sessions  BY DEF Sessions
<1>1. ASSUME NEW j \in Jobs, HeartbeatRead(w, j)  PROVE PromptInv'
  <2>1. NoneTakesOff
    BY <1>0, <1>1 DEF HeartbeatRead, Load, NoneTakesOff, InFlight, Inv, TypeInv, TypeOK
  <2> QED  BY <1>1, <2>1, QuietBalance DEF HeartbeatRead, RowKept, Reserved
<1>2. CASE HeartbeatCommit(w)
  <2>1. PICK j \in Loaded(w) : Commit(w, j, [copy[w][j] EXCEPT !.heartbeat = "fresh"])
    BY <1>2 DEF HeartbeatCommit
  <2>2. copy[w][j] \in Row  BY <1>0 DEF Inv, TypeInv, TypeOK, Loaded
  <2> DEFINE new == [copy[w][j] EXCEPT !.heartbeat = "fresh"]
  <2>3. /\ new \in Row /\ new.status = copy[w][j].status
        /\ new.worker_id = copy[w][j].worker_id
    BY <2>2, NewValuesAreRows DEF Row
  <2>4. NoneTakesOff
    BY <1>0, <1>2, ReturnTakesOffNone DEF HeartbeatCommit, Inv
  <2> HIDE DEF new
  <2>5. Commit(w, j, new)  BY <2>1 DEF new
  <2> QED  BY <1>0, <1>2, <2>3, <2>4, <2>5, CommitBalance DEF HeartbeatCommit
<1> QED  BY <1>1, <1>2 DEF Heartbeat

LEMMA RecoverPrompts ==
  ASSUME Inv, TypeOK', NEW w \in Workers, Recover(w)
  PROVE  PromptInv'
<1>0. w \in Sessions  BY DEF Sessions
<1>1. \A row \in Row : Recovered(row).status \in {"pending", "timeout"}
  BY DEF Recovered, Row
<1>2. CASE RecoverLocked(w)
  <2>1. NoneTakesOff  BY <1>2 DEF RecoverLocked, NoneTakesOff
  <2>2. \A j \in Jobs : RowKept(j)
    <3> SUFFICES ASSUME NEW j \in Jobs  PROVE RowKept(j)
      OBVIOUS
    <3>1. \/ jobs'[j] = jobs[j]
          \/ jobs'[j] = Recovered(jobs[j])
      BY <1>2 DEF RecoverLocked
    <3>2. Recovered(jobs[j]).status # "reserved"
      BY <1>1 DEF Inv, TypeInv, TypeOK
    <3> QED  BY <3>1, <3>2 DEF RowKept, Reserved
  <2> QED  BY <1>2, <2>1, <2>2, QuietBalance DEF RecoverLocked
<1>3. CASE RecoverRead(w)
  <2>1. NoneTakesOff
    BY <1>0, <1>3 DEF RecoverRead, Load, NoneTakesOff, InFlight, Inv, TypeInv, TypeOK
  <2> QED  BY <1>3, <2>1, QuietBalance DEF RecoverRead, RowKept, Reserved
<1>4. CASE RecoverCommit(w)
  <2>1. NoneTakesOff
    BY <1>0, <1>4, ReturnTakesOffNone DEF RecoverCommit, Inv
  <2>2. \A j \in Jobs : RowKept(j)
    <3> SUFFICES ASSUME NEW j \in Jobs  PROVE RowKept(j)
      OBVIOUS
    <3>1. CASE j \notin Loaded(w)
      BY <1>4, <3>1 DEF RecoverCommit, RowKept, Reserved
    <3>2. CASE j \in Loaded(w)
      <4>1. jobs'[j] = Flush(jobs[j], copy[w][j], Recovered(copy[w][j]))
        BY <1>4, <3>2 DEF RecoverCommit
      <4>2. copy[w][j] \in Row  BY <1>0, <3>2 DEF Inv, TypeInv, TypeOK, Loaded
      <4>3. copy[w][j].status = "reserved"
        BY <1>0, <1>4, <3>2 DEF Inv, CopyInv, RecoverCommit
      <4>4. /\ Recovered(copy[w][j]).status # "reserved"
            /\ Recovered(copy[w][j]) \in Row
        BY <1>1, <4>2, NewValuesAreRows
      <4> QED  BY <1>0, <3>2, <4>1, <4>3, <4>4, CommitKeepsRow DEF Inv
    <3> QED  BY <3>1, <3>2
  <2> QED  BY <1>4, <2>1, <2>2, QuietBalance DEF RecoverCommit
<1> QED  BY <1>2, <1>3, <1>4 DEF Recover

LEMMA TransitionPrompts ==
  ASSUME Inv, TypeOK', NEW o \in Operators, Transition(o)
  PROVE  PromptInv'
<1>0. o \in Sessions  BY DEF Sessions
<1>1. ASSUME NEW j \in Jobs, NEW target \in OperatorTargets,
             TransitionRead(o, j, target)
      PROVE  PromptInv'
  <2>1. NoneTakesOff
    BY <1>0, <1>1 DEF TransitionRead, Load, NoneTakesOff, InFlight, Inv, TypeInv, TypeOK
  <2> QED  BY <1>1, <2>1, QuietBalance DEF TransitionRead, RowKept, Reserved
<1>2. CASE TransitionCommit(o)
  <2>1. PICK j \in Loaded(o) :
           IF arg[o] = "reserved"
             THEN \E w \in Workers :
                    /\ Commit(o, j, Claimed(copy[o][j], w))
                    /\ grants' = [grants EXCEPT ![j] = @ + 1]
             ELSE /\ Commit(o, j, [copy[o][j] EXCEPT !.status = arg[o]])
                  /\ UNCHANGED grants
    BY <1>2 DEF TransitionCommit
  <2>2. NoneTakesOff /\ prompts' = prompts
    BY <1>0, <1>2, ReturnTakesOffNone DEF TransitionCommit, Inv
  <2>3. j \in Jobs /\ \A k \in Jobs \ {j} : jobs'[k] = jobs[k]
    BY <2>1 DEF Commit, Loaded, Inv, TypeInv, TypeOK
  <2>4. CASE arg[o] = "reserved"
    <3>1. grants' = [grants EXCEPT ![j] = @ + 1]  BY <2>1, <2>4
    <3> QED  BY <2>2, <2>3, <3>1, ClaimBalance
  <2>5. CASE arg[o] # "reserved"
    <3> DEFINE new == [copy[o][j] EXCEPT !.status = arg[o]]
    <3>1. copy[o][j] \in Row  BY <1>0 DEF Inv, TypeInv, TypeOK, Loaded
    <3>2. arg[o] \in JobState
      BY <1>0, <1>2, TargetsAssumption DEF TransitionCommit, Inv, TypeInv, SessionInv
    <3>3. /\ new \in Row /\ new.status # "reserved"
          /\ new.worker_id = copy[o][j].worker_id
      BY <2>5, <3>1, <3>2, NewValuesAreRows DEF Row
    <3> HIDE DEF new
    <3>4. Commit(o, j, new) /\ grants' = grants  BY <2>1, <2>5 DEF new
    <3> QED  BY <1>0, <2>2, <3>3, <3>4, CommitBalance
  <2> QED  BY <2>4, <2>5
<1> QED  BY <1>1, <1>2 DEF Transition

(* A worker takes off only from its own reservation. *)
LEMMA SubmitCheckPrompts ==
  ASSUME Inv, TypeOK', NEW w \in Workers, NEW j \in Jobs, NEW workflowOk \in BOOLEAN,
         SubmitCheck(w, j, workflowOk)
  PROVE  PromptInv'
<1>0. w \in Sessions  BY DEF Sessions
<1>1. PICK a \in {"ready", "not_ready"} : Load(w, {j}, "checked", a)
  BY DEF SubmitCheck
<1>2. /\ pc'[w] = "checked"
      /\ \A k \in Jobs : copy'[w][k] # NotLoaded => k = j
      /\ \A t \in Sessions \ {w} : pc'[t] = pc[t] /\ copy'[t] = copy[t]
  BY <1>0, <1>1 DEF Load, Inv, TypeInv, TypeOK
<1>3. ReservedBy(w, j)' /\ jobs' = jobs
  BY DEF SubmitCheck, ReservedBy, Reserved
<1> SUFFICES ASSUME NEW k \in Jobs  PROVE Balance(k)'
  BY DEF PromptInv
<1>4. Owed(k)' \subseteq Owed(k)
  <2> SUFFICES ASSUME NEW t \in Owed(k)'  PROVE t \in Owed(k)
    OBVIOUS
  <2>1. CASE t = w  BY <1>2, <1>3, <2>1 DEF Owed, Loaded
  <2>2. CASE t # w
    BY <1>2, <1>3, <2>2 DEF Owed, Loaded, ReservedBy, Reserved, Sessions
  <2> QED  BY <2>1, <2>2
<1>5. prompts'[k] = prompts[k] /\ grants'[k] = grants[k] /\ (Reserved(k)' => Reserved(k))
  BY <1>3 DEF SubmitCheck, Reserved
<1> QED  BY <1>4, <1>5, BalanceKept DEF Inv, PromptInv

LEMMA SubmitRereadPrompts ==
  ASSUME Inv, TypeOK', NEW w \in Workers, SubmitReread(w)
  PROVE  PromptInv'
<1>0. w \in Sessions  BY DEF Sessions
<1>1. jobs' = jobs /\ prompts' = prompts /\ grants' = grants /\ pc[w] = "checked"
  BY DEF SubmitReread
<1>2. CASE Return(w)
  <2>1. NoneTakesOff  BY <1>0, <1>2, ReturnTakesOffNone DEF Inv
  <2> QED  BY <1>1, <2>1, QuietBalance DEF RowKept, Reserved
<1>3. CASE ~Return(w)
  <2>1. PICK j \in Loaded(w) : \E row \in {copy[w][j], jobs[j]} :
                                  copy' = [copy EXCEPT ![w][j] = row]
    BY <1>3 DEF SubmitReread
  <2>2. pc' = [pc EXCEPT ![w] = "entering"]  BY <1>3 DEF SubmitReread
  <2>3. /\ pc'[w] = "entering"
        /\ \A k \in Jobs : copy'[w][k] # NotLoaded => k \in Loaded(w)
        /\ \A t \in Sessions \ {w} : pc'[t] = pc[t] /\ copy'[t] = copy[t]
    BY <1>0, <2>1, <2>2 DEF Inv, TypeInv, TypeOK, Loaded
  <2> SUFFICES ASSUME NEW k \in Jobs  PROVE Balance(k)'
    BY DEF PromptInv
  <2>4. Owed(k)' \subseteq Owed(k)
    <3> SUFFICES ASSUME NEW t \in Owed(k)'  PROVE t \in Owed(k)
      OBVIOUS
    <3>1. CASE t = w
      BY <1>1, <2>3, <3>1 DEF Owed, Loaded, ReservedBy, Reserved
    <3>2. CASE t # w
      BY <1>1, <2>3, <3>2 DEF Owed, Loaded, ReservedBy, Reserved, Sessions
    <3> QED  BY <3>1, <3>2
  <2> QED  BY <1>1, <2>4, BalanceKept DEF Inv, PromptInv, Reserved
<1> QED  BY <1>2, <1>3

(* Entering validating ends whatever reservation the row shows. *)
LEMMA EnterValidatingPrompts ==
  ASSUME Inv, TypeOK', NEW w \in Workers, EnterValidating(w)
  PROVE  PromptInv'
<1>0. w \in Sessions  BY DEF Sessions
<1>1. PICK j \in Loaded(w) :
         /\ Commit(w, j, [copy[w][j] EXCEPT !.status = "validating"])
         /\ copy' = [copy EXCEPT ![w][j] = jobs'[j]]
  BY DEF EnterValidating
<1>2. /\ pc[w] = "entering" /\ prompts' = prompts /\ grants' = grants
      /\ pc'[w] \in {"posting", "answered"}
      /\ \A t \in Sessions \ {w} : pc'[t] = pc[t] /\ copy'[t] = copy[t]
  BY <1>0, <1>1 DEF EnterValidating, Inv, TypeInv, TypeOK
<1>3. /\ j \in Jobs /\ jobs'[j] = Flush(jobs[j], copy[w][j],
                            [copy[w][j] EXCEPT !.status = "validating"])
      /\ \A k \in Jobs \ {j} : jobs'[k] = jobs[k]
  BY <1>1 DEF Commit, Loaded, Inv, TypeInv, TypeOK
<1>4. /\ \A k \in Loaded(w) : k = j
      /\ \A k \in Jobs \ {j} : copy'[w][k] = copy[w][k]
  BY <1>0, <1>1, <1>2 DEF Inv, TypeInv, TypeOK, SessionInv
<1>5. ~Reserved(j)'
  <2>1. copy[w][j] \in Row /\ jobs[j] \in Row
    BY <1>0, <1>1 DEF Inv, TypeInv, TypeOK, Loaded
  <2>2. copy[w][j].status = "reserved"
    BY <1>0, <1>2 DEF Inv, CopyInv
  <2> DEFINE new == [copy[w][j] EXCEPT !.status = "validating"]
  <2>3. new.status = "validating"  BY <2>1 DEF Row
  <2>4. new \in Row
    <3>1. "validating" \in JobState  BY DEF JobState
    <3> QED  BY <2>1, <3>1, NewValuesAreRows
  <2>5. jobs'[j] = Flush(jobs[j], copy[w][j], new)  BY <1>3
  <2> HIDE DEF new
  <2>6. jobs'[j].status = "validating"
    BY <2>1, <2>2, <2>3, <2>4, <2>5, FlushColumns
  <2> QED  BY <2>6 DEF Reserved
<1> SUFFICES ASSUME NEW k \in Jobs  PROVE Balance(k)'
  BY DEF PromptInv
<1>6. CASE k # j
  <2>1. Owed(k)' \subseteq Owed(k)
    <3> SUFFICES ASSUME NEW t \in Owed(k)'  PROVE t \in Owed(k)
      OBVIOUS
    <3>1. CASE t = w  BY <1>4, <1>6, <3>1 DEF Owed, Loaded
    <3>2. CASE t # w
      BY <1>2, <1>3, <1>6, <3>2 DEF Owed, Loaded, ReservedBy, Reserved, Sessions
    <3> QED  BY <3>1, <3>2
  <2> QED  BY <1>2, <1>3, <1>6, <2>1, BalanceKept DEF Inv, PromptInv, Reserved
<1>7. CASE k = j
  <2>1. \A t \in Workers : t \in Owed(j)' => t \in Owed(j) \/ ReservedBy(t, j)
    <3> SUFFICES ASSUME NEW t \in Workers, t \in Owed(j)'
                 PROVE  t \in Owed(j) \/ ReservedBy(t, j)
      OBVIOUS
    <3>1. CASE t = w  BY <1>1, <1>2, <3>1 DEF Owed
    <3>2. CASE t # w
      BY <1>2, <3>2 DEF Owed, Loaded, Sessions
    <3> QED  BY <3>1, <3>2
  <2>2. \/ ~Reserved(j) /\ Owed(j)' \subseteq Owed(j)
        \/ Reserved(j) /\ Owed(j)' \subseteq Owed(j) \cup {jobs[j].worker_id}
    BY <2>1 DEF Owed, ReservedBy
  <2> QED  BY <1>2, <1>5, <1>7, <2>2, BalanceKept DEF Inv, PromptInv
<1> QED  BY <1>6, <1>7

(* The prompt that is posted settles the worker's debt. *)
LEMMA ComfyAnswersPrompts ==
  ASSUME Inv, TypeOK', NEW w \in Workers, NEW answer \in Answers, NEW queued \in BOOLEAN,
         ComfyAnswers(w, answer, queued)
  PROVE  PromptInv'
<1>0. w \in Sessions  BY DEF Sessions
<1>1. PICK j \in Loaded(w) :
         prompts' = [prompts EXCEPT ![j] = IF queued THEN @ + 1 ELSE @]
  BY DEF ComfyAnswers
<1>2. /\ pc[w] = "posting" /\ jobs' = jobs /\ grants' = grants /\ copy' = copy
      /\ pc'[w] = "answered"
      /\ \A t \in Sessions \ {w} : pc'[t] = pc[t]
      /\ j \in Jobs
  BY <1>0 DEF ComfyAnswers, Inv, TypeInv, TypeOK, Loaded
<1> SUFFICES ASSUME NEW k \in Jobs  PROVE Balance(k)'
  BY DEF PromptInv
<1>3. Owed(k)' \subseteq Owed(k) \ {w}
  BY <1>2 DEF Owed, Loaded, ReservedBy, Reserved, Sessions
<1>4. CASE k # j
  <2>1. prompts'[k] = prompts[k]  BY <1>1, <1>4 DEF Inv, TypeInv, TypeOK
  <2> QED  BY <1>2, <1>3, <2>1, BalanceKept DEF Inv, PromptInv, Reserved
<1>5. CASE k = j
  <2>1. w \in Owed(k)  BY <1>1, <1>2, <1>5 DEF Owed
  <2>2. Cardinality(Owed(k)') <= Cardinality(Owed(k)) - 1
    BY <1>3, <2>1, OwedFinite, CardinalityBounds
  <2>3. prompts'[k] <= prompts[k] + 1 /\ prompts[k] \in Nat /\ prompts'[k] \in Nat
    BY <1>1, <1>5 DEF Inv, TypeInv, TypeOK
  <2>4. /\ Cardinality(Owed(k)) \in Nat /\ Cardinality(Owed(k)') \in Nat
        /\ grants[k] \in Nat /\ grants'[k] = grants[k]
        /\ (Reserved(k)' <=> Reserved(k))
    BY <1>2, OwedFinite DEF Inv, TypeInv, TypeOK, Reserved
  <2>5. Balance(k)  BY DEF Inv, PromptInv
  <2> QED  BY <2>2, <2>3, <2>4, <2>5 DEF Balance
<1> QED  BY <1>4, <1>5

LEMMA RecordAnswerPrompts ==
  ASSUME Inv, TypeOK', NEW w \in Workers, RecordAnswer(w)
  PROVE  PromptInv'
<1>0. w \in Sessions  BY DEF Sessions
<1>1. PICK j \in Loaded(w) :
         Commit(w, j, IF arg[w] = "accepted"
                        THEN MarkSubmitted(copy[w][j])
                        ELSE MarkSubmissionFailure(copy[w][j], arg[w]))
  BY DEF RecordAnswer
<1>2. copy[w][j] \in Row  BY <1>0 DEF Inv, TypeInv, TypeOK, Loaded
<1>3. PICK new \in Row : /\ Commit(w, j, new) /\ new.status # "reserved"
                         /\ new.worker_id = copy[w][j].worker_id
  <2>1. CASE arg[w] = "accepted"
    <3>1. /\ MarkSubmitted(copy[w][j]).status # "reserved"
          /\ MarkSubmitted(copy[w][j]).worker_id = copy[w][j].worker_id
      BY <1>2 DEF MarkSubmitted, Row
    <3> QED  BY <1>1, <1>2, <2>1, <3>1, NewValuesAreRows
  <2>2. CASE arg[w] # "accepted"
    <3>1. /\ MarkSubmissionFailure(copy[w][j], arg[w]).status # "reserved"
          /\ MarkSubmissionFailure(copy[w][j], arg[w]).worker_id = copy[w][j].worker_id
      BY <1>2 DEF MarkSubmissionFailure, FailureStatus, Row
    <3> QED  BY <1>1, <1>2, <2>2, <3>1, NewValuesAreRows
  <2> QED  BY <2>1, <2>2
<1>4. NoneTakesOff /\ prompts' = prompts /\ grants' = grants
  BY <1>0, ReturnTakesOffNone DEF RecordAnswer, Inv
<1> QED  BY <1>0, <1>3, <1>4, CommitBalance

LEMMA StepPromptInv == Inv /\ TypeOK' /\ [Next]_vars => PromptInv'
<1> SUFFICES ASSUME Inv, TypeOK', [Next]_vars  PROVE PromptInv'
  OBVIOUS
<1>1. CASE UNCHANGED vars
  BY <1>1, QuietBalance DEF vars, NoneTakesOff, RowKept, Reserved
<1>2. ASSUME NEW w \in Workers, Submit(w)  PROVE PromptInv'
  BY <1>2, SubmitCheckPrompts, SubmitRereadPrompts, EnterValidatingPrompts,
     ComfyAnswersPrompts, RecordAnswerPrompts DEF Submit
<1>3. ASSUME NEW w \in Workers, Crash(w) \/ Restart(w)  PROVE PromptInv'
  <2>1. NoneTakesOff
    BY <1>3 DEF Crash, Restart, NoneTakesOff, InFlight, Inv, TypeInv, TypeOK, Sessions
  <2> QED  BY <1>3, <2>1, QuietBalance DEF Crash, Restart, RowKept, Reserved
<1>4. ASSUME NEW j \in Jobs, Age(j)  PROVE PromptInv'
  <2>1. NoneTakesOff  BY <1>4 DEF Age, NoneTakesOff
  <2>2. \A k \in Jobs : RowKept(k)
    BY <1>4 DEF Age, RowKept, Reserved, Inv, TypeInv, TypeOK, Row
  <2> QED  BY <1>4, <2>1, <2>2, QuietBalance DEF Age
<1> QED  BY <1>1, <1>2, <1>3, <1>4, ClaimPrompts, HeartbeatPrompts, RecoverPrompts,
            TransitionPrompts DEF Next

LEMMA InitInv == Init => CopyInv /\ PromptInv
<1> SUFFICES ASSUME Init  PROVE CopyInv /\ PromptInv
  OBVIOUS
<1>1. \A s \in Sessions : Loaded(s) = {}
  BY DEF Init, Loaded, NothingLoaded
<1>2. CopyInv  BY <1>1 DEF CopyInv
<1>3. \A j \in Jobs : Owed(j) = {}  BY <1>1 DEF Owed, Sessions
<1>4. PromptInv
  <2>1. Cardinality({}) = 0  BY FS_EmptySet
  <2>2. \A j \in Jobs : ~Reserved(j) /\ prompts[j] = 0 /\ grants[j] = 0
    BY DEF Init, Reserved, NewRow
  <2> QED  BY <1>3, <2>1, <2>2 DEF PromptInv, Balance
<1> QED  BY <1>2, <1>4

(* Every prompt ComfyUI queued for a job was paid for by a claim of the job *)
(* of its own: on PostgreSQL and SQLite, for any number of workers and      *)
(* operators, whatever crashes, recoveries and stale commits interleave.   *)
THEOREM PromptsAreGranted == Spec => []PromptsWithinGrants
<1>1. Init => Inv  BY InitTypeInv, InitInv DEF Inv
<1>2. Inv /\ [Next]_vars => Inv'
  <2>1. TypeInv => TypeOK  BY DEF TypeInv
  <2>2. TypeInv' => TypeOK'  BY DEF TypeInv
  <2> QED  BY <2>2, StepTypeInv, StepCopyInv, StepPromptInv DEF Inv
<1>3. Inv => PromptsWithinGrants
  <2> SUFFICES ASSUME Inv, NEW j \in Jobs  PROVE prompts[j] <= grants[j]
    BY DEF PromptsWithinGrants
  <2>1. prompts[j] \in Nat /\ grants[j] \in Nat /\ Cardinality(Owed(j)) \in Nat
    BY OwedFinite DEF Inv, TypeInv, TypeOK
  <2> QED  BY <2>1 DEF Inv, PromptInv, Balance
<1> QED  BY <1>1, <1>2, <1>3, PTL DEF Spec

-----------------------------------------------------------------------------
(***************************************************************************)
(* On PostgreSQL the queue implements Reservation, for every set of jobs,  *)
(* workers and operators, as long as the operators neither reserve jobs    *)
(* nor release reservations themselves (no code under src/backend/app asks *)
(* transition_job for "reserved" or "pending").                            *)
(***************************************************************************)

Postgres == RowLocks /\ OperatorTargets \cap {"pending", "reserved"} = {}

(* Pending jobs have an attempt left, because recovery checks the count and *)
(* nothing else makes a job pending.                                       *)
AttemptInv ==
  \A j \in Jobs : /\ jobs[j].attempt_count = grants[j]
                  /\ grants[j] <= MaxAttempts
                  /\ jobs[j].status = "pending" => grants[j] < MaxAttempts

(* Claims and recoveries take one step. *)
LockedInv == \A s \in Sessions : pc[s] \notin {"claiming", "recovering"}

PostgresInv == TypeInv /\ AttemptInv /\ LockedInv

(* A row that is neither claimed nor recovered keeps its worker and its     *)
(* count, and may only leave the states in which it can be handed out.     *)
RowEnds(j) ==
  /\ jobs'[j].attempt_count = jobs[j].attempt_count
  /\ jobs'[j].worker_id = jobs[j].worker_id
  /\ \/ jobs'[j].status = jobs[j].status
     \/ jobs'[j].status \notin {"pending", "reserved"}

LEMMA CommitEndsRow ==
  ASSUME TypeInv, NEW s \in Sessions, NEW j \in Loaded(s), NEW new \in Row,
         Commit(s, j, new),
         new.attempt_count = copy[s][j].attempt_count,
         new.worker_id = copy[s][j].worker_id,
         \/ new.status = copy[s][j].status
         \/ new.status \notin {"pending", "reserved"}
  PROVE  \A k \in Jobs : RowEnds(k)
<1>1. /\ jobs'[j] = Flush(jobs[j], copy[s][j], new)
      /\ \A k \in Jobs \ {j} : jobs'[k] = jobs[k]
      /\ jobs[j] \in Row /\ copy[s][j] \in Row
  BY DEF Commit, TypeInv, TypeOK, Loaded
<1>2. RowEnds(j)  BY <1>1, FlushColumns DEF RowEnds
<1>3. \A k \in Jobs \ {j} : RowEnds(k)  BY <1>1 DEF RowEnds
<1> QED  BY <1>2, <1>3

LEMMA HeartbeatEnds ==
  ASSUME TypeInv, NEW w \in Workers, Heartbeat(w)
  PROVE  \A j \in Jobs : RowEnds(j)
<1>0. w \in Sessions  BY DEF Sessions
<1>1. CASE \E j \in Jobs : HeartbeatRead(w, j)
  BY <1>1 DEF HeartbeatRead, RowEnds
<1>2. CASE HeartbeatCommit(w)
  <2>1. PICK j \in Loaded(w) : Commit(w, j, [copy[w][j] EXCEPT !.heartbeat = "fresh"])
    BY <1>2 DEF HeartbeatCommit
  <2>2. copy[w][j] \in Row  BY <1>0 DEF TypeInv, TypeOK, Loaded
  <2> DEFINE new == [copy[w][j] EXCEPT !.heartbeat = "fresh"]
  <2>3. /\ new \in Row /\ new.status = copy[w][j].status
        /\ new.worker_id = copy[w][j].worker_id
        /\ new.attempt_count = copy[w][j].attempt_count
    BY <2>2, NewValuesAreRows DEF Row
  <2>4. Commit(w, j, new)  BY <2>1
  <2> HIDE DEF new
  <2> QED  BY <1>0, <2>3, <2>4, CommitEndsRow
<1> QED  BY <1>1, <1>2 DEF Heartbeat

LEMMA TransitionEnds ==
  ASSUME Postgres, TypeInv, NEW o \in Operators, Transition(o)
  PROVE  grants' = grants /\ \A j \in Jobs : RowEnds(j)
<1>0. o \in Sessions  BY DEF Sessions
<1>1. CASE \E j \in Jobs, target \in OperatorTargets : TransitionRead(o, j, target)
  BY <1>1 DEF TransitionRead, RowEnds
<1>2. CASE TransitionCommit(o)
  <2>1. arg[o] \in JobState /\ arg[o] \notin {"pending", "reserved"}
    BY <1>0, <1>2, TargetsAssumption
    DEF TransitionCommit, TypeInv, SessionInv, Postgres
  <2>2. PICK j \in Loaded(o) : /\ Commit(o, j, [copy[o][j] EXCEPT !.status = arg[o]])
                               /\ grants' = grants
    BY <1>2, <2>1 DEF TransitionCommit
  <2>3. copy[o][j] \in Row  BY <1>0 DEF TypeInv, TypeOK, Loaded
  <2> DEFINE new == [copy[o][j] EXCEPT !.status = arg[o]]
  <2>4. /\ new \in Row /\ new.status = arg[o]
        /\ new.worker_id = copy[o][j].worker_id
        /\ new.attempt_count = copy[o][j].attempt_count
    BY <2>1, <2>3, NewValuesAreRows DEF Row
  <2>5. Commit(o, j, new) /\ grants' = grants  BY <2>2
  <2> HIDE DEF new
  <2> QED  BY <1>0, <2>1, <2>4, <2>5, CommitEndsRow
<1> QED  BY <1>1, <1>2 DEF Transition

LEMMA SubmitEnds ==
  ASSUME TypeInv, NEW w \in Workers, Submit(w)
  PROVE  \A j \in Jobs : RowEnds(j)
<1>0. w \in Sessions  BY DEF Sessions
<1>1. CASE jobs' = jobs  BY <1>1 DEF RowEnds
<1>2. CASE EnterValidating(w)
  <2>1. PICK j \in Loaded(w) : Commit(w, j, [copy[w][j] EXCEPT !.status = "validating"])
    BY <1>2 DEF EnterValidating
  <2>2. copy[w][j] \in Row  BY <1>0 DEF TypeInv, TypeOK, Loaded
  <2> DEFINE new == [copy[w][j] EXCEPT !.status = "validating"]
  <2>3. "validating" \in JobState  BY DEF JobState
  <2>4. /\ new \in Row /\ new.status = "validating"
        /\ new.worker_id = copy[w][j].worker_id
        /\ new.attempt_count = copy[w][j].attempt_count
    BY <2>2, <2>3, NewValuesAreRows DEF Row
  <2>5. Commit(w, j, new)  BY <2>1
  <2> HIDE DEF new
  <2> QED  BY <1>0, <2>4, <2>5, CommitEndsRow
<1>3. CASE RecordAnswer(w)
  <2>1. PICK j \in Loaded(w) :
           Commit(w, j, IF arg[w] = "accepted"
                          THEN MarkSubmitted(copy[w][j])
                          ELSE MarkSubmissionFailure(copy[w][j], arg[w]))
    BY <1>3 DEF RecordAnswer
  <2>2. copy[w][j] \in Row  BY <1>0 DEF TypeInv, TypeOK, Loaded
  <2>3. PICK new \in Row : /\ Commit(w, j, new)
                           /\ new.status \notin {"pending", "reserved"}
                           /\ new.worker_id = copy[w][j].worker_id
                           /\ new.attempt_count = copy[w][j].attempt_count
    <3>1. CASE arg[w] = "accepted"
      <4>1. /\ MarkSubmitted(copy[w][j]).status \notin {"pending", "reserved"}
            /\ MarkSubmitted(copy[w][j]).worker_id = copy[w][j].worker_id
            /\ MarkSubmitted(copy[w][j]).attempt_count = copy[w][j].attempt_count
        BY <2>2 DEF MarkSubmitted, Row
      <4> QED  BY <2>1, <2>2, <3>1, <4>1, NewValuesAreRows
    <3>2. CASE arg[w] # "accepted"
      <4> DEFINE failed == MarkSubmissionFailure(copy[w][j], arg[w])
      <4>1. /\ failed.status \notin {"pending", "reserved"}
            /\ failed.worker_id = copy[w][j].worker_id
            /\ failed.attempt_count = copy[w][j].attempt_count
        BY <2>2 DEF MarkSubmissionFailure, FailureStatus, Row
      <4>2. failed \in Row  BY <2>2, NewValuesAreRows
      <4>3. Commit(w, j, failed)  BY <2>1, <3>2
      <4> HIDE DEF failed
      <4> QED  BY <4>1, <4>2, <4>3
    <3> QED  BY <3>1, <3>2
  <2> QED  BY <1>0, <2>3, CommitEndsRow
<1> QED  BY <1>1, <1>2, <1>3 DEF Submit, SubmitCheck, SubmitReread, ComfyAnswers

(* Every step claims one pending job, recovers stale ones, or ends rows. *)
LEMMA PostgresStep ==
  ASSUME Postgres, PostgresInv, [Next]_vars
  PROVE  \/ \E w \in Workers, j \in Jobs :
               /\ jobs[j].status = "pending"
               /\ jobs' = [jobs EXCEPT ![j] = Claimed(@, w)]
               /\ grants' = [grants EXCEPT ![j] = @ + 1]
         \/ /\ grants' = grants
            /\ \A j \in Jobs : \/ RowEnds(j)
                               \/ /\ jobs[j].status = "reserved"
                                  /\ jobs'[j] = Recovered(jobs[j])
<1>0. Workers \subseteq Sessions  BY DEF Sessions
<1>1. CASE UNCHANGED vars  BY <1>1 DEF vars, RowEnds
<1>2. ASSUME NEW w \in Workers, Claim(w)
      PROVE  \E j \in Jobs :
               /\ jobs[j].status = "pending"
               /\ jobs' = [jobs EXCEPT ![j] = Claimed(@, w)]
               /\ grants' = [grants EXCEPT ![j] = @ + 1]
  <2>1. ClaimLocked(w)
    BY <1>0, <1>2 DEF Claim, ClaimRead, ClaimCommit, Postgres, PostgresInv, LockedInv
  <2> QED  BY <2>1 DEF ClaimLocked, LowestPending
<1>3. ASSUME NEW w \in Workers, Recover(w)
      PROVE  /\ grants' = grants
             /\ \A j \in Jobs : \/ RowEnds(j)
                                \/ /\ jobs[j].status = "reserved"
                                   /\ jobs'[j] = Recovered(jobs[j])
  <2>1. RecoverLocked(w)
    BY <1>0, <1>3
    DEF Recover, RecoverRead, RecoverCommit, Postgres, PostgresInv, LockedInv
  <2> QED  BY <2>1 DEF RecoverLocked, RecoveryCandidates, Stale, RowEnds
<1>4. ASSUME NEW w \in Workers, Submit(w)  PROVE grants' = grants
  BY <1>4 DEF Submit, SubmitCheck, SubmitReread, EnterValidating, ComfyAnswers,
              RecordAnswer
<1>5. ASSUME NEW w \in Workers, Heartbeat(w)  PROVE grants' = grants
  BY <1>5 DEF Heartbeat, HeartbeatRead, HeartbeatCommit
<1>6. ASSUME NEW w \in Workers, Crash(w) \/ Restart(w)
      PROVE  grants' = grants /\ \A j \in Jobs : RowEnds(j)
  BY <1>6 DEF Crash, Restart, RowEnds
<1>7. ASSUME NEW j \in Jobs, Age(j)
      PROVE  grants' = grants /\ \A k \in Jobs : RowEnds(k)
  BY <1>7 DEF Age, RowEnds, PostgresInv, TypeInv, TypeOK, Row
<1> QED  BY <1>1, <1>2, <1>3, <1>4, <1>5, <1>6, <1>7, HeartbeatEnds, SubmitEnds,
            TransitionEnds DEF Next, PostgresInv

(* With row locks no session ever stands inside a claim or a recovery. *)
LEMMA StepLockedInv ==
  ASSUME Postgres, PostgresInv, [Next]_vars
  PROVE  LockedInv'
<1>0. Workers \subseteq Sessions /\ Operators \subseteq Sessions  BY DEF Sessions
<1> SUFFICES ASSUME NEW s \in Sessions  PROVE pc'[s] \notin {"claiming", "recovering"}
  BY DEF LockedInv
<1> USE DEF PostgresInv, LockedInv, TypeInv, TypeOK
<1>1. CASE UNCHANGED vars  BY <1>1 DEF vars
<1>2. ASSUME NEW w \in Workers, Claim(w) \/ Recover(w)
      PROVE  pc'[s] \notin {"claiming", "recovering"}
  BY <1>0, <1>2 DEF Claim, ClaimLocked, ClaimRead, ClaimCommit, Recover, RecoverLocked,
                    RecoverRead, RecoverCommit, Postgres
<1>3. ASSUME NEW w \in Workers, Submit(w)
      PROVE  pc'[s] \notin {"claiming", "recovering"}
  BY <1>0, <1>3 DEF Submit, SubmitCheck, SubmitReread, EnterValidating, ComfyAnswers,
                    RecordAnswer, Load, Return
<1>4. ASSUME NEW w \in Workers, Heartbeat(w)
      PROVE  pc'[s] \notin {"claiming", "recovering"}
  BY <1>0, <1>4 DEF Heartbeat, HeartbeatRead, HeartbeatCommit, Load, Return
<1>5. ASSUME NEW w \in Workers, Crash(w) \/ Restart(w)
      PROVE  pc'[s] \notin {"claiming", "recovering"}
  BY <1>0, <1>5 DEF Crash, Restart
<1>6. ASSUME NEW o \in Operators, Transition(o)
      PROVE  pc'[s] \notin {"claiming", "recovering"}
  BY <1>0, <1>6 DEF Transition, TransitionRead, TransitionCommit, Load, Return
<1>7. ASSUME NEW j \in Jobs, Age(j)
      PROVE  pc'[s] \notin {"claiming", "recovering"}
  BY <1>7 DEF Age
<1> QED  BY <1>1, <1>2, <1>3, <1>4, <1>5, <1>6, <1>7 DEF Next

LEMMA RecoveredColumns ==
  ASSUME NEW row \in Row
  PROVE  /\ Recovered(row).attempt_count = row.attempt_count
         /\ Recovered(row).status = IF row.attempt_count < MaxAttempts THEN "pending"
                                                                       ELSE "timeout"
  BY DEF Recovered, Row

LEMMA ClaimedColumns ==
  ASSUME NEW row \in Row, NEW w \in Workers
  PROVE  /\ Claimed(row, w).attempt_count = row.attempt_count + 1
         /\ Claimed(row, w).status = "reserved"
         /\ Claimed(row, w).worker_id = w
  BY DEF Claimed, Row

LEMMA StepAttemptInv ==
  ASSUME Postgres, PostgresInv, [Next]_vars
  PROVE  AttemptInv'
<1> SUFFICES ASSUME NEW k \in Jobs
             PROVE  /\ jobs'[k].attempt_count = grants'[k]
                    /\ grants'[k] <= MaxAttempts
                    /\ jobs'[k].status = "pending" => grants'[k] < MaxAttempts
  BY DEF AttemptInv
<1>0. /\ jobs[k] \in Row /\ grants[k] \in Nat /\ MaxAttempts \in Nat
      /\ jobs[k].attempt_count = grants[k] /\ grants[k] <= MaxAttempts
      /\ jobs[k].status = "pending" => grants[k] < MaxAttempts
  BY BoundsAssumption DEF PostgresInv, TypeInv, TypeOK, AttemptInv
<1>1. ASSUME NEW w \in Workers, NEW j \in Jobs,
             /\ jobs[j].status = "pending"
             /\ jobs' = [jobs EXCEPT ![j] = Claimed(@, w)]
             /\ grants' = [grants EXCEPT ![j] = @ + 1]
      PROVE  /\ jobs'[k].attempt_count = grants'[k]
             /\ grants'[k] <= MaxAttempts
             /\ jobs'[k].status = "pending" => grants'[k] < MaxAttempts
  <2>1. CASE k = j
    <3>1. jobs'[k] = Claimed(jobs[k], w) /\ grants'[k] = grants[k] + 1
      BY <1>1, <2>1 DEF PostgresInv, TypeInv, TypeOK
    <3> QED  BY <1>0, <1>1, <2>1, <3>1, ClaimedColumns
  <2>2. CASE k # j
    <3>1. jobs'[k] = jobs[k] /\ grants'[k] = grants[k]
      BY <1>1, <2>2 DEF PostgresInv, TypeInv, TypeOK
    <3> QED  BY <1>0, <3>1
  <2> QED  BY <2>1, <2>2
<1>2. CASE /\ grants' = grants
           /\ \/ RowEnds(k)
              \/ jobs[k].status = "reserved" /\ jobs'[k] = Recovered(jobs[k])
  BY <1>0, <1>2, RecoveredColumns DEF RowEnds
<1> QED  BY <1>1, <1>2, PostgresStep

LEMMA PostgresInvariance ==
  ASSUME Postgres
  PROVE  Spec => []PostgresInv
<1>1. Init => PostgresInv
  <2>1. Init => AttemptInv
    BY BoundsAssumption DEF Init, AttemptInv, NewRow
  <2>2. Init => LockedInv  BY DEF Init, LockedInv
  <2> QED  BY <2>1, <2>2, InitTypeInv DEF PostgresInv
<1>2. PostgresInv /\ [Next]_vars => PostgresInv'
  BY StepTypeInv, StepLockedInv, StepAttemptInv DEF PostgresInv
<1> QED  BY <1>1, <1>2, PTL DEF Spec

(* On PostgreSQL attempt_count counts every claim of a job, and no job is   *)
(* claimed more than max_attempts times.                                   *)
THEOREM AttemptsAreCounted ==
  ASSUME Postgres
  PROVE  Spec => []AttemptsCountGrants
<1>1. PostgresInv => AttemptsCountGrants
  BY DEF PostgresInv, AttemptInv, AttemptsCountGrants
<1> QED  BY <1>1, PostgresInvariance, PTL

-----------------------------------------------------------------------------
(* The refinement *)

LEMMA InitRefines == Init => R!RInit
  BY DEF Init, R!RInit, Owner, NewRow

LEMMA StepRefines ==
  ASSUME Postgres, PostgresInv, PostgresInv', [Next]_vars
  PROVE  [R!RNext]_(R!rvars)
<1>1. ASSUME NEW w \in Workers, NEW j \in Jobs,
             /\ jobs[j].status = "pending"
             /\ jobs' = [jobs EXCEPT ![j] = Claimed(@, w)]
             /\ grants' = [grants EXCEPT ![j] = @ + 1]
      PROVE  R!Grant(j, w)
  <2>1. Owner[j] = NoWorker /\ grants[j] < MaxAttempts
    BY <1>1 DEF Owner, PostgresInv, AttemptInv
  <2>2. Owner' = [Owner EXCEPT ![j] = w]
    <3>1. \A k \in Jobs : Owner'[k] = IF k = j THEN w ELSE Owner[k]
      <4> TAKE k \in Jobs
      <4>1. CASE k = j
        <5>1. jobs'[k] = Claimed(jobs[k], w) /\ jobs[k] \in Row
          BY <1>1, <4>1 DEF PostgresInv, TypeInv, TypeOK
        <5> QED  BY <4>1, <5>1, ClaimedColumns DEF Owner
      <4>2. CASE k # j
        <5>1. jobs'[k] = jobs[k]
          BY <1>1, <4>2 DEF PostgresInv, TypeInv, TypeOK
        <5> QED  BY <4>2, <5>1 DEF Owner
      <4> QED  BY <4>1, <4>2
    <3> QED  BY <3>1 DEF Owner
  <2> QED  BY <1>1, <2>1, <2>2 DEF R!Grant
<1>2. CASE /\ grants' = grants
           /\ \A j \in Jobs : \/ RowEnds(j)
                              \/ /\ jobs[j].status = "reserved"
                                 /\ jobs'[j] = Recovered(jobs[j])
  <2>1. Owner' \in [Jobs -> Workers \cup {NoWorker}]
    BY DEF Owner, PostgresInv, TypeInv, TypeOK, Row
  <2>2. \A j \in Jobs : Owner'[j] \in {Owner[j], NoWorker}
    <3> TAKE j \in Jobs
    <3>1. CASE RowEnds(j)  BY <3>1 DEF RowEnds, Owner
    <3>2. CASE jobs'[j] = Recovered(jobs[j])
      <4>1. jobs'[j].status # "reserved"
        BY <3>2, RecoveredColumns DEF PostgresInv, TypeInv, TypeOK
      <4> QED  BY <4>1 DEF Owner
    <3> QED  BY <1>2, <3>1, <3>2
  <2> QED  BY <1>2, <2>1, <2>2 DEF R!Release, R!RNext
<1> QED  BY <1>1, <1>2, PostgresStep DEF R!RNext

(* On PostgreSQL the queue implements Reservation: a job passes from one    *)
(* worker to the next only after it was given up, and two claims never get *)
(* it at once.                                                             *)
THEOREM QueueImplementsReservation ==
  ASSUME Postgres
  PROVE  Spec => ImplementsReservation
<1>1. PostgresInv /\ PostgresInv' /\ [Next]_vars => [R!RNext]_(R!rvars)
  BY StepRefines
<1> QED  BY <1>1, InitRefines, PostgresInvariance, PTL
         DEF Spec, ImplementsReservation, R!RSpec
-----------------------------------------------------------------------------
(***************************************************************************)
(* SubmittedWasPosted and NotRequeuedAfterSubmit, as long as no operator   *)
(* asks transition_job for "submitted" (no code under src/backend/app      *)
(* does; submit_reserved_job writes that status itself).                   *)
(*                                                                         *)
(* The argument: a prompt_id, once in a row, stays; a row becomes          *)
(* submitted only together with its prompt_id, by the session that has     *)
(* seen the prompt accepted; and the states after that are reached only    *)
(* from a copy that has the prompt_id already.                             *)
(***************************************************************************)

NobodyMarksSubmitted == "submitted" \notin OperatorTargets

Posted(j) == jobs[j].prompt_id /\ prompts[j] > 0

(* What a session's copy tells of the prompt of its job. *)
CopyPosted ==
  \A s \in Sessions : \A j \in Loaded(s) :
     /\ copy[s][j].prompt_id => jobs[j].prompt_id
     /\ copy[s][j].status \in Submitted => copy[s][j].prompt_id /\ prompts[j] > 0
     /\ pc[s] \in {"posting", "answered"} => copy[s][j].status = "validating"
     /\ pc[s] \in {"checked", "entering"} => arg[s] # "accepted"
     /\ pc[s] = "answered" /\ arg[s] = "accepted" => prompts[j] > 0

PostedInv == CopyInv /\ CopyPosted /\ SubmittedWasPosted

(* What no step does to a row: lose its prompt_id, become submitted without *)
(* one, or get one without becoming submitted.                             *)
Advances(j) ==
  /\ jobs[j].prompt_id => jobs'[j].prompt_id
  /\ prompts[j] <= prompts'[j]
  /\ jobs'[j].status \in Submitted => jobs[j].status \in Submitted \/ Posted(j)'
  /\ jobs'[j].prompt_id => jobs[j].prompt_id \/ jobs'[j].status = "submitted"

LEMMA FlushedPromptId ==
  ASSUME NEW row \in Row, NEW loaded \in Row, NEW new \in Row
  PROVE  Flush(row, loaded, new).prompt_id =
           IF new.prompt_id # loaded.prompt_id THEN new.prompt_id ELSE row.prompt_id
<1>1. "prompt_id" \in DOMAIN row  BY DEF Row
<1> QED  BY <1>1 DEF Flush

(* The status and the prompt_id of the values the handlers compute. *)
LEMMA ClaimedPromptId ==
  ASSUME NEW row \in Row, NEW w \in Workers
  PROVE  Claimed(row, w).prompt_id = row.prompt_id /\ Claimed(row, w).status = "reserved"
BY DEF Row, Claimed

LEMMA RecoveredPromptId ==
  ASSUME NEW row \in Row
  PROVE  /\ Recovered(row).prompt_id = row.prompt_id
         /\ Recovered(row).status \in {"pending", "timeout"}
BY DEF Row, Recovered

LEMMA FailurePromptId ==
  ASSUME NEW row \in Row, NEW a
  PROVE  /\ MarkSubmissionFailure(row, a).prompt_id = row.prompt_id
         /\ MarkSubmissionFailure(row, a).status
              \in {"validation_failed", "comfy_rejected"}
BY DEF Row, MarkSubmissionFailure, FailureStatus

(* A flushed row advances if the value computed from the copy does. *)
LEMMA FlushAdvances ==
  ASSUME TypeInv, PostedInv, NEW s \in Sessions, NEW j \in Loaded(s), NEW new \in Row,
         jobs'[j] = Flush(jobs[j], copy[s][j], new), prompts'[j] = prompts[j],
         \/ new.prompt_id = copy[s][j].prompt_id
         \/ /\ new.prompt_id = TRUE /\ new.status = "submitted"
            /\ copy[s][j].status # "submitted",
         new.status \in Submitted => \/ new.status = copy[s][j].status
                                     \/ new.prompt_id /\ prompts[j] > 0
  PROVE  Advances(j)
<1> DEFINE old == copy[s][j]
<1>1. /\ j \in Jobs /\ jobs[j] \in Row /\ old \in Row /\ prompts[j] \in Nat
      /\ jobs'[j] = Flush(jobs[j], old, new)
  BY DEF TypeInv, TypeOK, Loaded
<1>2. /\ old.prompt_id => jobs[j].prompt_id
      /\ old.status \in Submitted => old.prompt_id /\ prompts[j] > 0
  BY DEF PostedInv, CopyPosted
<1> HIDE DEF old
<1>3. /\ jobs'[j].status = IF new.status # old.status THEN new.status ELSE jobs[j].status
      /\ jobs'[j].prompt_id = IF new.prompt_id # old.prompt_id THEN new.prompt_id
                                                               ELSE jobs[j].prompt_id
  <2>1. Flush(jobs[j], old, new).status =
          IF new.status # old.status THEN new.status ELSE jobs[j].status
    BY <1>1, FlushColumns
  <2>2. Flush(jobs[j], old, new).prompt_id =
          IF new.prompt_id # old.prompt_id THEN new.prompt_id ELSE jobs[j].prompt_id
    BY <1>1, FlushedPromptId
  <2> QED  BY <1>1, <2>1, <2>2
<1>4. jobs[j].prompt_id \in BOOLEAN /\ old.prompt_id \in BOOLEAN /\ new.prompt_id \in BOOLEAN
  BY <1>1 DEF Row
<1>5. jobs[j].prompt_id => jobs'[j].prompt_id  BY <1>2, <1>3, <1>4 DEF old
<1>6. jobs'[j].status \in Submitted => jobs[j].status \in Submitted \/ Posted(j)'
  BY <1>2, <1>3, <1>4 DEF Posted, old
<1>7. jobs'[j].prompt_id => jobs[j].prompt_id \/ jobs'[j].status = "submitted"
  BY <1>3, <1>4 DEF old
<1> QED  BY <1>1, <1>5, <1>6, <1>7 DEF Advances

LEMMA UntouchedAdvances ==
  ASSUME TypeInv, NEW j \in Jobs, jobs'[j] = jobs[j], prompts'[j] = prompts[j]
  PROVE  Advances(j)
<1>1. prompts[j] \in Nat  BY DEF TypeInv, TypeOK
<1> QED  BY <1>1 DEF Advances

LEMMA CommitAdvances ==
  ASSUME TypeInv, PostedInv, NEW s \in Sessions, NEW j \in Loaded(s), NEW new \in Row,
         Commit(s, j, new), UNCHANGED prompts,
         \/ new.prompt_id = copy[s][j].prompt_id
         \/ /\ new.prompt_id = TRUE /\ new.status = "submitted"
            /\ copy[s][j].status # "submitted",
         new.status \in Submitted => \/ new.status = copy[s][j].status
                                     \/ new.prompt_id /\ prompts[j] > 0
  PROVE  \A k \in Jobs : Advances(k)
<1>1. /\ jobs'[j] = Flush(jobs[j], copy[s][j], new)
      /\ \A k \in Jobs \ {j} : jobs'[k] = jobs[k]
  BY CommitTypes DEF TypeInv, TypeOK
<1>2. Advances(j)  BY <1>1, FlushAdvances
<1>3. \A k \in Jobs \ {j} : Advances(k)  BY <1>1, UntouchedAdvances
<1> QED  BY <1>2, <1>3

(* A session has its copies from the table, as it is or as the step leaves *)
(* it, or had them before.                                                 *)
LEMMA CopyPostedOfActor ==
  ASSUME PostedInv, SubmittedWasPosted', \A k \in Jobs : Advances(k),
         prompts \in [Jobs -> Nat], prompts' \in [Jobs -> Nat], NEW s \in Sessions,
         \A t \in Sessions \ {s} :
            pc'[t] = pc[t] /\ arg'[t] = arg[t] /\ copy'[t] = copy[t],
         \A j \in Jobs : copy'[s][j] # NotLoaded =>
            /\ \/ copy'[s][j] \in {jobs[j], jobs'[j]}
               \/ j \in Loaded(s) /\ copy'[s][j] = copy[s][j]
            /\ pc'[s] \in {"posting", "answered"} => copy'[s][j].status = "validating"
            /\ pc'[s] \in {"checked", "entering"} => arg'[s] # "accepted"
            /\ pc'[s] = "answered" /\ arg'[s] = "accepted" => prompts'[j] > 0
  PROVE  CopyPosted'
<1> SUFFICES ASSUME NEW t \in Sessions, NEW j \in Loaded(t)'
             PROVE  /\ copy'[t][j].prompt_id => jobs'[j].prompt_id
                    /\ copy'[t][j].status \in Submitted =>
                         copy'[t][j].prompt_id /\ prompts'[j] > 0
                    /\ pc'[t] \in {"posting", "answered"} =>
                         copy'[t][j].status = "validating"
                    /\ pc'[t] \in {"checked", "entering"} => arg'[t] # "accepted"
                    /\ pc'[t] = "answered" /\ arg'[t] = "accepted" => prompts'[j] > 0
  BY DEF CopyPosted
<1>1. /\ j \in Jobs /\ copy'[t][j] # NotLoaded
      /\ Advances(j) /\ prompts[j] \in Nat /\ prompts'[j] \in Nat
  BY DEF Loaded
<1>2. ASSUME j \in Loaded(t), copy'[t][j] = copy[t][j]
      PROVE  /\ copy'[t][j].prompt_id => jobs'[j].prompt_id
             /\ copy'[t][j].status \in Submitted =>
                  copy'[t][j].prompt_id /\ prompts'[j] > 0
  BY <1>1, <1>2 DEF PostedInv, CopyPosted, Advances
<1>3. CASE t # s
  <2>1. /\ j \in Loaded(t) /\ copy'[t][j] = copy[t][j]
        /\ pc'[t] = pc[t] /\ arg'[t] = arg[t]
    BY <1>1, <1>3 DEF Loaded
  <2>2. /\ pc[t] \in {"posting", "answered"} => copy[t][j].status = "validating"
        /\ pc[t] \in {"checked", "entering"} => arg[t] # "accepted"
        /\ pc[t] = "answered" /\ arg[t] = "accepted" => prompts[j] > 0
    BY <2>1 DEF PostedInv, CopyPosted
  <2> QED  BY <1>1, <1>2, <2>1, <2>2 DEF Advances
<1>4. CASE t = s
  <2>1. /\ \/ copy'[t][j] \in {jobs[j], jobs'[j]}
           \/ j \in Loaded(t) /\ copy'[t][j] = copy[t][j]
        /\ pc'[t] \in {"posting", "answered"} => copy'[t][j].status = "validating"
        /\ pc'[t] \in {"checked", "entering"} => arg'[t] # "accepted"
        /\ pc'[t] = "answered" /\ arg'[t] = "accepted" => prompts'[j] > 0
    BY <1>1, <1>4
  <2>2. CASE copy'[t][j] = jobs[j]
    BY <1>1, <2>1, <2>2 DEF PostedInv, SubmittedWasPosted, Advances
  <2>3. CASE copy'[t][j] = jobs'[j]
    BY <1>1, <2>1, <2>3 DEF SubmittedWasPosted
  <2> QED  BY <1>2, <2>1, <2>2, <2>3
<1> QED  BY <1>3, <1>4

LEMMA AdvancesKeepPosted ==
  ASSUME SubmittedWasPosted, prompts \in [Jobs -> Nat], prompts' \in [Jobs -> Nat],
         \A k \in Jobs : Advances(k)
  PROVE  SubmittedWasPosted'
<1> SUFFICES ASSUME NEW j \in Jobs, jobs'[j].status \in Submitted  PROVE Posted(j)'
  BY DEF SubmittedWasPosted, Posted
<1>1. Advances(j) /\ prompts[j] \in Nat /\ prompts'[j] \in Nat  OBVIOUS
<1> QED  BY <1>1 DEF SubmittedWasPosted, Posted, Advances

(* What the steps do to the rows *)

LEMMA ClaimAdvances ==
  ASSUME TypeInv, PostedInv, NEW w \in Workers, Claim(w)
  PROVE  \A k \in Jobs : Advances(k)
<1>0. w \in Sessions  BY DEF Sessions
<1>1. CASE ClaimLocked(w)
  <2>1. PICK j \in Jobs : LowestPending(j) /\ jobs' = [jobs EXCEPT ![j] = Claimed(@, w)]
    BY <1>1 DEF ClaimLocked
  <2>2. /\ jobs[j] \in Row /\ jobs'[j] = Claimed(jobs[j], w) /\ prompts[j] \in Nat
        /\ UNCHANGED prompts
    BY <1>1, <2>1 DEF TypeInv, TypeOK, ClaimLocked
  <2>3. jobs'[j].prompt_id = jobs[j].prompt_id /\ jobs'[j].status = "reserved"
    BY <2>2, ClaimedPromptId
  <2>4. Advances(j)  BY <2>2, <2>3 DEF Advances, Submitted
  <2>5. \A k \in Jobs \ {j} : jobs'[k] = jobs[k]
    BY <2>1 DEF TypeInv, TypeOK
  <2> QED  BY <2>2, <2>4, <2>5, UntouchedAdvances
<1>2. CASE ClaimRead(w)  BY <1>2, UntouchedAdvances DEF ClaimRead
<1>3. CASE ClaimCommit(w)
  <2>1. PICK j \in Loaded(w) : Commit(w, j, Claimed(copy[w][j], w))
    BY <1>3 DEF ClaimCommit
  <2>2. copy[w][j] \in Row  BY <1>0 DEF TypeInv, TypeOK, Loaded
  <2>3. PICK new : new = Claimed(copy[w][j], w)  OBVIOUS
  <2>4. new \in Row /\ new.prompt_id = copy[w][j].prompt_id /\ new.status = "reserved"
    BY <2>2, <2>3, ClaimedPromptId, NewValuesAreRows
  <2> QED  BY <1>0, <1>3, <2>1, <2>3, <2>4, CommitAdvances DEF ClaimCommit, Submitted
<1> QED  BY <1>1, <1>2, <1>3 DEF Claim

LEMMA HeartbeatAdvances ==
  ASSUME TypeInv, PostedInv, NEW w \in Workers, Heartbeat(w)
  PROVE  \A k \in Jobs : Advances(k)
<1>0. w \in Sessions  BY DEF Sessions
<1>1. ASSUME NEW j \in Jobs, HeartbeatRead(w, j)  PROVE \A k \in Jobs : Advances(k)
  BY <1>1, UntouchedAdvances DEF HeartbeatRead
<1>2. CASE HeartbeatCommit(w)
  <2>1. PICK j \in Loaded(w) : Commit(w, j, [copy[w][j] EXCEPT !.heartbeat = "fresh"])
    BY <1>2 DEF HeartbeatCommit
  <2>2. copy[w][j] \in Row  BY <1>0 DEF TypeInv, TypeOK, Loaded
  <2>3. PICK new : new = [copy[w][j] EXCEPT !.heartbeat = "fresh"]  OBVIOUS
  <2>4. /\ new \in Row /\ new.prompt_id = copy[w][j].prompt_id
        /\ new.status = copy[w][j].status
    BY <2>2, <2>3 DEF Row
  <2> QED  BY <1>0, <1>2, <2>1, <2>3, <2>4, CommitAdvances DEF HeartbeatCommit
<1> QED  BY <1>1, <1>2 DEF Heartbeat

LEMMA RecoverAdvances ==
  ASSUME TypeInv, PostedInv, NEW w \in Workers, Recover(w)
  PROVE  \A k \in Jobs : Advances(k)
<1>0. w \in Sessions  BY DEF Sessions
<1> SUFFICES ASSUME NEW k \in Jobs  PROVE Advances(k)
  OBVIOUS
<1>1. /\ UNCHANGED prompts /\ prompts[k] \in Nat /\ jobs[k] \in Row
  BY DEF Recover, RecoverLocked, RecoverRead, RecoverCommit, TypeInv, TypeOK
<1>2. CASE jobs'[k] = jobs[k]  BY <1>1, <1>2, UntouchedAdvances
<1>3. CASE jobs'[k] = Recovered(jobs[k])
  <2>1. /\ jobs'[k].prompt_id = jobs[k].prompt_id
        /\ jobs'[k].status \in {"pending", "timeout"}
    BY <1>1, <1>3, RecoveredPromptId
  <2> QED  BY <1>1, <2>1 DEF Advances, Submitted
<1>4. CASE k \in Loaded(w) /\ jobs'[k] = Flush(jobs[k], copy[w][k], Recovered(copy[w][k]))
  <2>1. copy[w][k] \in Row  BY <1>0, <1>4 DEF TypeInv, TypeOK, Loaded
  <2>2. PICK new : new = Recovered(copy[w][k])  OBVIOUS
  <2>3. /\ new \in Row /\ new.prompt_id = copy[w][k].prompt_id
        /\ new.status \in {"pending", "timeout"}
    BY <2>1, <2>2, RecoveredPromptId, NewValuesAreRows
  <2> QED  BY <1>0, <1>1, <1>4, <2>2, <2>3, FlushAdvances DEF Submitted
<1> QED
  BY <1>2, <1>3, <1>4 DEF Recover, RecoverLocked, RecoverRead, RecoverCommit

LEMMA TransitionAdvances ==
  ASSUME NobodyMarksSubmitted, TypeInv, PostedInv, NEW o \in Operators, Transition(o)
  PROVE  \A k \in Jobs : Advances(k)
<1>0. o \in Sessions  BY DEF Sessions
<1>1. ASSUME NEW j \in Jobs, NEW target \in OperatorTargets, TransitionRead(o, j, target)
      PROVE  \A k \in Jobs : Advances(k)
  BY <1>1, UntouchedAdvances DEF TransitionRead
<1>2. CASE TransitionCommit(o)
  <2>1. arg[o] \in JobState /\ arg[o] # "submitted"
    BY <1>0, <1>2, TargetsAssumption
    DEF TransitionCommit, TypeInv, SessionInv, NobodyMarksSubmitted
  <2>2. PICK j \in Loaded(o) :
          \/ \E w \in Workers : arg[o] = "reserved" /\ Commit(o, j, Claimed(copy[o][j], w))
          \/ Commit(o, j, [copy[o][j] EXCEPT !.status = arg[o]])
    BY <1>2 DEF TransitionCommit
  <2>3. copy[o][j] \in Row /\ UNCHANGED prompts
    BY <1>0, <1>2 DEF TypeInv, TypeOK, Loaded, TransitionCommit
  <2>4. PICK new \in Row : /\ Commit(o, j, new)
                           /\ new.prompt_id = copy[o][j].prompt_id
                           /\ new.status = arg[o]
    <3>1. ASSUME NEW w \in Workers, arg[o] = "reserved", Commit(o, j, Claimed(copy[o][j], w))
          PROVE  \E new \in Row : /\ Commit(o, j, new)
                                   /\ new.prompt_id = copy[o][j].prompt_id
                                   /\ new.status = arg[o]
      <4>1. PICK new : new = Claimed(copy[o][j], w)  OBVIOUS
      <4>2. /\ new \in Row /\ new.status = "reserved"
            /\ new.prompt_id = copy[o][j].prompt_id
        BY <2>3, <4>1, ClaimedPromptId, NewValuesAreRows
      <4> QED  BY <3>1, <4>1, <4>2
    <3>2. CASE Commit(o, j, [copy[o][j] EXCEPT !.status = arg[o]])
      <4>1. PICK new : new = [copy[o][j] EXCEPT !.status = arg[o]]  OBVIOUS
      <4>2. /\ new \in Row /\ new.status = arg[o]
            /\ new.prompt_id = copy[o][j].prompt_id
        BY <2>1, <2>3, <4>1 DEF Row
      <4> QED  BY <3>2, <4>1, <4>2
    <3> QED  BY <2>2, <3>1, <3>2
  <2>5. arg[o] \in ValidTransitions(copy[o][j].status)
    BY <1>0, <1>2 DEF PostedInv, CopyInv, TransitionCommit
  <2>6. arg[o] \in Submitted => copy[o][j].status \in Submitted
    BY <2>1, <2>3, <2>5 DEF ValidTransitions, Submitted, Row, JobState
  <2>7. arg[o] \in Submitted => copy[o][j].prompt_id /\ prompts[j] > 0
    BY <1>0, <2>6 DEF PostedInv, CopyPosted
  <2> QED  BY <1>0, <2>3, <2>4, <2>7, CommitAdvances
<1> QED  BY <1>1, <1>2 DEF Transition

LEMMA SubmitAdvances ==
  ASSUME TypeInv, PostedInv, NEW w \in Workers, Submit(w)
  PROVE  \A k \in Jobs : Advances(k)
<1>0. w \in Sessions  BY DEF Sessions
<1>1. CASE UNCHANGED <<jobs, prompts>>  BY <1>1, UntouchedAdvances
<1>2. CASE EnterValidating(w)
  <2>1. PICK j \in Loaded(w) : Commit(w, j, [copy[w][j] EXCEPT !.status = "validating"])
    BY <1>2 DEF EnterValidating
  <2>2. copy[w][j] \in Row /\ "validating" \in JobState /\ UNCHANGED prompts
    BY <1>0, <1>2 DEF TypeInv, TypeOK, Loaded, JobState, EnterValidating
  <2>3. PICK new : new = [copy[w][j] EXCEPT !.status = "validating"]  OBVIOUS
  <2>4. new \in Row /\ new.prompt_id = copy[w][j].prompt_id /\ new.status = "validating"
    BY <2>2, <2>3 DEF Row
  <2> QED  BY <1>0, <2>1, <2>2, <2>3, <2>4, CommitAdvances DEF Submitted
<1>3. ASSUME NEW answer \in Answers, NEW queued \in BOOLEAN, ComfyAnswers(w, answer, queued)
      PROVE  \A k \in Jobs : Advances(k)
  <2> SUFFICES ASSUME NEW k \in Jobs  PROVE Advances(k)
    OBVIOUS
  <2>1. prompts[k] \in Nat /\ prompts'[k] \in {prompts[k], prompts[k] + 1} /\ jobs' = jobs
    BY <1>3 DEF ComfyAnswers, TypeInv, TypeOK
  <2> QED  BY <2>1 DEF Advances
<1>4. CASE RecordAnswer(w)
  <2>1. PICK j \in Loaded(w) :
           Commit(w, j, IF arg[w] = "accepted"
                          THEN MarkSubmitted(copy[w][j])
                          ELSE MarkSubmissionFailure(copy[w][j], arg[w]))
    BY <1>4 DEF RecordAnswer
  <2>2. copy[w][j] \in Row /\ UNCHANGED prompts
    BY <1>0, <1>4 DEF TypeInv, TypeOK, Loaded, RecordAnswer
  <2>3. CASE arg[w] = "accepted"
    <3>1. PICK new : new = MarkSubmitted(copy[w][j])  OBVIOUS
    <3>2. new \in Row /\ new.prompt_id = TRUE /\ new.status = "submitted"
      <4>1. new \in Row  BY <2>2, <3>1, NewValuesAreRows
      <4> QED  BY <2>2, <3>1, <4>1 DEF MarkSubmitted, Row
    <3>3. copy[w][j].status = "validating" /\ prompts[j] > 0
      BY <1>0, <1>4, <2>3 DEF PostedInv, CopyPosted, RecordAnswer
    <3> QED  BY <1>0, <2>1, <2>2, <2>3, <3>1, <3>2, <3>3, CommitAdvances
  <2>4. CASE arg[w] # "accepted"
    <3>1. PICK new : new = MarkSubmissionFailure(copy[w][j], arg[w])  OBVIOUS
    <3>2. /\ new \in Row /\ new.prompt_id = copy[w][j].prompt_id
          /\ new.status \in {"validation_failed", "comfy_rejected"}
      BY <2>2, <3>1, FailurePromptId, NewValuesAreRows
    <3> QED  BY <1>0, <2>1, <2>2, <2>4, <3>1, <3>2, CommitAdvances DEF Submitted
  <2> QED  BY <2>3, <2>4
<1> QED  BY <1>1, <1>2, <1>3, <1>4 DEF Submit, SubmitCheck, SubmitReread

LEMMA StepAdvances ==
  ASSUME NobodyMarksSubmitted, TypeInv, PostedInv, [Next]_vars
  PROVE  \A k \in Jobs : Advances(k)
<1>1. CASE UNCHANGED vars  BY <1>1, UntouchedAdvances DEF vars
<1>2. ASSUME NEW w \in Workers, Crash(w) \/ Restart(w)
      PROVE  \A k \in Jobs : Advances(k)
  BY <1>2, UntouchedAdvances DEF Crash, Restart
<1>3. ASSUME NEW j \in Jobs, Age(j)  PROVE \A k \in Jobs : Advances(k)
  <2> SUFFICES ASSUME NEW k \in Jobs  PROVE Advances(k)
    OBVIOUS
  <2>1. /\ jobs'[k].status = jobs[k].status /\ jobs'[k].prompt_id = jobs[k].prompt_id
        /\ UNCHANGED prompts /\ prompts[k] \in Nat
    BY <1>3 DEF Age, TypeInv, TypeOK, Row
  <2> QED  BY <2>1 DEF Advances
<1> QED
  BY <1>1, <1>2, <1>3, ClaimAdvances, HeartbeatAdvances, RecoverAdvances,
     TransitionAdvances, SubmitAdvances
  DEF Next

(* What the steps leave in the copies *)

(* The copies of a session that has just read, or that waits for nothing. *)
LEMMA QuietCopyPosted ==
  ASSUME TypeInv, TypeOK', PostedInv, SubmittedWasPosted', \A k \in Jobs : Advances(k),
         NEW s \in Sessions, pc'[s] \notin {"posting", "answered"},
         pc'[s] \in {"checked", "entering"} =>
            \A j \in Jobs : copy'[s][j] # NotLoaded => arg'[s] # "accepted",
         \A t \in Sessions \ {s} :
            pc'[t] = pc[t] /\ arg'[t] = arg[t] /\ copy'[t] = copy[t],
         \A j \in Jobs : copy'[s][j] # NotLoaded => copy'[s][j] \in {copy[s][j], jobs[j]}
  PROVE  CopyPosted'
<1>1. /\ prompts \in [Jobs -> Nat] /\ prompts' \in [Jobs -> Nat]
      /\ \A j \in Jobs : copy'[s][j] # NotLoaded =>
            \/ copy'[s][j] \in {jobs[j], jobs'[j]}
            \/ j \in Loaded(s) /\ copy'[s][j] = copy[s][j]
  BY DEF TypeInv, TypeOK, Loaded
<1> QED  BY <1>1, CopyPostedOfActor

LEMMA LoadCopyPosted ==
  ASSUME TypeInv, TypeOK', PostedInv, SubmittedWasPosted', \A k \in Jobs : Advances(k),
         NEW s \in Sessions, NEW S, NEW next, next \notin {"posting", "answered"},
         NEW a, a # "accepted", Load(s, S, next, a)
  PROVE  CopyPosted'
<1>1. /\ pc'[s] = next /\ arg'[s] = a
      /\ \A t \in Sessions \ {s} :
            pc'[t] = pc[t] /\ arg'[t] = arg[t] /\ copy'[t] = copy[t]
      /\ \A j \in Jobs : copy'[s][j] # NotLoaded => copy'[s][j] = jobs[j]
  BY DEF Load, TypeInv, TypeOK
<1> QED  BY <1>1, QuietCopyPosted

LEMMA ReturnCopyPosted ==
  ASSUME TypeInv, TypeOK', PostedInv, SubmittedWasPosted', \A k \in Jobs : Advances(k),
         NEW s \in Sessions, Return(s)
  PROVE  CopyPosted'
<1>1. /\ pc'[s] = "idle"
      /\ \A t \in Sessions \ {s} :
            pc'[t] = pc[t] /\ arg'[t] = arg[t] /\ copy'[t] = copy[t]
      /\ \A j \in Jobs : copy'[s][j] = NotLoaded
  BY DEF Return, TypeInv, TypeOK, NothingLoaded
<1> QED  BY <1>1, QuietCopyPosted

LEMMA SubmitCopyPosted ==
  ASSUME TypeInv, TypeOK', PostedInv, SubmittedWasPosted', \A k \in Jobs : Advances(k),
         NEW w \in Workers, Submit(w)
  PROVE  CopyPosted'
<1>0. /\ w \in Sessions
      /\ prompts \in [Jobs -> Nat] /\ prompts' \in [Jobs -> Nat]
  BY DEF Sessions, TypeInv, TypeOK
<1>1. ASSUME NEW j \in Jobs, NEW workflowOk \in BOOLEAN, SubmitCheck(w, j, workflowOk)
      PROVE  CopyPosted'
  <2>1. PICK a \in {"ready", "not_ready"} : Load(w, {j}, "checked", a)
    BY <1>1 DEF SubmitCheck
  <2> QED  BY <1>0, <2>1, LoadCopyPosted
<1>2. CASE SubmitReread(w)
  <2>1. PICK j \in Loaded(w) : \E row \in {copy[w][j], jobs[j]} :
           \/ /\ copy' = [copy EXCEPT ![w][j] = row]
              /\ pc' = [pc EXCEPT ![w] = "entering"]
              /\ UNCHANGED arg
           \/ Return(w)
    BY <1>2 DEF SubmitReread
  <2>2. CASE Return(w)  BY <1>0, <2>2, ReturnCopyPosted
  <2>3. CASE ~Return(w)
    <3>1. PICK row \in {copy[w][j], jobs[j]} : /\ copy' = [copy EXCEPT ![w][j] = row]
                                               /\ pc' = [pc EXCEPT ![w] = "entering"]
                                               /\ UNCHANGED arg
      BY <2>1, <2>3
    <3>2. /\ pc'[w] = "entering"
          /\ \A t \in Sessions \ {w} :
                pc'[t] = pc[t] /\ arg'[t] = arg[t] /\ copy'[t] = copy[t]
          /\ \A k \in Jobs : copy'[w][k] \in {copy[w][k], jobs[k]}
      BY <1>0, <3>1 DEF TypeInv, TypeOK
    <3>3. arg'[w] # "accepted"
      BY <1>0, <1>2, <2>1, <3>1 DEF SubmitReread, PostedInv, CopyPosted
    <3> QED  BY <1>0, <3>2, <3>3, QuietCopyPosted
  <2> QED  BY <2>2, <2>3
<1>3. CASE EnterValidating(w)
  <2>1. PICK j \in Loaded(w) : /\ Commit(w, j, [copy[w][j] EXCEPT !.status = "validating"])
                               /\ copy' = [copy EXCEPT ![w][j] = jobs'[j]]
    BY <1>3 DEF EnterValidating
  <2>2. /\ \A k \in Loaded(w) : k = j
        /\ copy[w][j].status = "reserved" /\ copy[w][j] \in Row /\ j \in Jobs
    BY <1>0, <1>3, <2>1
    DEF EnterValidating, TypeInv, TypeOK, SessionInv, PostedInv, CopyInv, Loaded
  <2>3. jobs'[j].status = "validating"
    <3>1. PICK new : new = [copy[w][j] EXCEPT !.status = "validating"]  OBVIOUS
    <3>2. new \in Row /\ new.status = "validating"
      BY <2>2, <3>1 DEF Row, JobState
    <3>3. jobs'[j] = Flush(jobs[j], copy[w][j], new) /\ jobs[j] \in Row
      BY <2>1, <2>2, <3>1 DEF Commit, TypeInv, TypeOK
    <3> QED  BY <2>2, <3>2, <3>3, FlushColumns
  <2>4. arg'[w] # "accepted"
    BY <1>0, <1>3, <2>1 DEF EnterValidating, PostedInv, CopyPosted
  <2>5. /\ pc'[w] \in {"posting", "answered"}
        /\ \A t \in Sessions \ {w} :
              pc'[t] = pc[t] /\ arg'[t] = arg[t] /\ copy'[t] = copy[t]
        /\ \A k \in Jobs : copy'[w][k] # NotLoaded => k = j
        /\ copy'[w][j] = jobs'[j]
    BY <1>0, <1>3, <2>1, <2>2 DEF EnterValidating, TypeInv, TypeOK, Loaded
  <2> QED  BY <1>0, <2>3, <2>4, <2>5, CopyPostedOfActor
<1>4. ASSUME NEW answer \in Answers, NEW queued \in BOOLEAN, ComfyAnswers(w, answer, queued)
      PROVE  CopyPosted'
  <2>1. PICK j \in Loaded(w) : prompts' = [prompts EXCEPT ![j] = IF queued THEN @ + 1 ELSE @]
    BY <1>4 DEF ComfyAnswers
  <2>2. /\ \A k \in Loaded(w) : k = j /\ copy[w][k].status = "validating"
        /\ j \in Jobs /\ copy' = copy
    BY <1>0, <1>4, <2>1 DEF ComfyAnswers, TypeInv, SessionInv, PostedInv, CopyPosted, Loaded
  <2>3. /\ pc'[w] = "answered" /\ arg'[w] = answer
        /\ \A t \in Sessions \ {w} : pc'[t] = pc[t] /\ arg'[t] = arg[t]
    BY <1>0, <1>4 DEF ComfyAnswers, TypeInv, TypeOK
  <2>4. answer = "accepted" => prompts'[j] > 0
    BY <1>0, <1>4, <2>1, <2>2 DEF ComfyAnswers
  <2>5. \A k \in Jobs : copy'[w][k] # NotLoaded => k \in Loaded(w) /\ k = j
    BY <2>2 DEF Loaded
  <2> QED  BY <1>0, <2>2, <2>3, <2>4, <2>5, CopyPostedOfActor
<1>5. CASE RecordAnswer(w)
  BY <1>0, <1>5, ReturnCopyPosted DEF RecordAnswer
<1> QED  BY <1>1, <1>2, <1>3, <1>4, <1>5 DEF Submit

LEMMA StepCopyPosted ==
  ASSUME NobodyMarksSubmitted, TypeInv, TypeOK', PostedInv, SubmittedWasPosted', [Next]_vars
  PROVE  CopyPosted'
<1>0. /\ Workers \subseteq Sessions /\ Operators \subseteq Sessions
      /\ \A k \in Jobs : Advances(k)
  BY StepAdvances DEF Sessions
<1>1. ASSUME UNCHANGED <<pc, copy, arg>>  PROVE CopyPosted'
  <2>1. \A j \in Jobs : prompts[j] \in Nat /\ prompts'[j] \in Nat
    BY DEF TypeInv, TypeOK
  <2>2. \A s \in Sessions : Loaded(s)' = Loaded(s) /\ Loaded(s) \subseteq Jobs
    BY <1>1 DEF Loaded
  <2> QED  BY <1>0, <1>1, <2>1, <2>2 DEF PostedInv, CopyPosted, Advances
<1>2. ASSUME NEW w \in Workers, Claim(w)  PROVE CopyPosted'
  <2>1. CASE ClaimLocked(w)  BY <1>1, <2>1 DEF ClaimLocked
  <2>2. CASE ClaimRead(w)
    <3>1. PICK j \in Jobs : Load(w, {j}, "claiming", "none")  BY <2>2 DEF ClaimRead
    <3> QED  BY <1>0, <3>1, LoadCopyPosted
  <2>3. CASE ClaimCommit(w)  BY <1>0, <2>3, ReturnCopyPosted DEF ClaimCommit
  <2> QED  BY <1>2, <2>1, <2>2, <2>3 DEF Claim
<1>3. ASSUME NEW w \in Workers, Heartbeat(w)  PROVE CopyPosted'
  <2>1. ASSUME NEW j \in Jobs, HeartbeatRead(w, j)  PROVE CopyPosted'
    <3>1. Load(w, {j}, "heartbeat", "none")  BY <2>1 DEF HeartbeatRead
    <3> QED  BY <1>0, <3>1, LoadCopyPosted
  <2>2. CASE HeartbeatCommit(w)  BY <1>0, <2>2, ReturnCopyPosted DEF HeartbeatCommit
  <2> QED  BY <1>3, <2>1, <2>2 DEF Heartbeat
<1>4. ASSUME NEW w \in Workers, Recover(w)  PROVE CopyPosted'
  <2>1. CASE RecoverLocked(w)  BY <1>1, <2>1 DEF RecoverLocked
  <2>2. CASE RecoverRead(w)
    <3>1. Load(w, RecoveryCandidates, "recovering", "none")  BY <2>2 DEF RecoverRead
    <3> QED  BY <1>0, <3>1, LoadCopyPosted
  <2>3. CASE RecoverCommit(w)  BY <1>0, <2>3, ReturnCopyPosted DEF RecoverCommit
  <2> QED  BY <1>4, <2>1, <2>2, <2>3 DEF Recover
<1>5. ASSUME NEW w \in Workers, Crash(w) \/ Restart(w)  PROVE CopyPosted'
  <2>1. /\ pc'[w] \in {"down", "idle"}
        /\ \A t \in Sessions \ {w} :
              pc'[t] = pc[t] /\ arg'[t] = arg[t] /\ copy'[t] = copy[t]
        /\ \A j \in Jobs : copy'[w][j] # NotLoaded => copy'[w][j] = copy[w][j]
    BY <1>0, <1>5 DEF Crash, Restart, TypeInv, TypeOK, NothingLoaded
  <2> QED  BY <1>0, <2>1, QuietCopyPosted
<1>6. ASSUME NEW o \in Operators, Transition(o)  PROVE CopyPosted'
  <2>1. ASSUME NEW j \in Jobs, NEW target \in OperatorTargets, TransitionRead(o, j, target)
        PROVE  CopyPosted'
    <3>1. Load(o, {j}, "transition", target)  BY <2>1 DEF TransitionRead
    <3>2. target # "accepted"  BY TargetsAssumption DEF JobState
    <3> QED  BY <1>0, <3>1, <3>2, LoadCopyPosted
  <2>2. CASE TransitionCommit(o)  BY <1>0, <2>2, ReturnCopyPosted DEF TransitionCommit
  <2> QED  BY <1>6, <2>1, <2>2 DEF Transition
<1>7. ASSUME NEW j \in Jobs, Age(j)  PROVE CopyPosted'
  BY <1>1, <1>7 DEF Age
<1>8. CASE UNCHANGED vars  BY <1>1, <1>8 DEF vars
<1> QED
  BY <1>0, <1>2, <1>3, <1>4, <1>5, <1>6, <1>7, <1>8, SubmitCopyPosted DEF Next

LEMMA PostedInvariance ==
  ASSUME NobodyMarksSubmitted
  PROVE  Spec => [](TypeInv /\ PostedInv)
<1>1. Init => PostedInv
  <2>1. Init => CopyInv  BY InitInv
  <2>2. Init => CopyPosted  BY DEF Init, CopyPosted, Loaded, NothingLoaded
  <2>3. Init => SubmittedWasPosted  BY DEF Init, SubmittedWasPosted, NewRow, Submitted
  <2> QED  BY <2>1, <2>2, <2>3 DEF PostedInv
<1>2. TypeInv /\ PostedInv /\ [Next]_vars => TypeInv' /\ PostedInv'
  <2> SUFFICES ASSUME TypeInv, PostedInv, [Next]_vars  PROVE TypeInv' /\ PostedInv'
    OBVIOUS
  <2>1. TypeInv' /\ TypeOK'  BY StepTypeInv DEF TypeInv
  <2>2. CopyInv'  BY StepCopyInv DEF PostedInv
  <2>3. SubmittedWasPosted'
    <3>1. prompts \in [Jobs -> Nat] /\ prompts' \in [Jobs -> Nat]
      BY <2>1 DEF TypeInv, TypeOK
    <3> QED  BY <3>1, StepAdvances, AdvancesKeepPosted DEF PostedInv
  <2>4. CopyPosted'  BY <2>1, <2>3, StepCopyPosted
  <2> QED  BY <2>1, <2>2, <2>3, <2>4 DEF PostedInv
<1> QED  BY <1>1, <1>2, InitTypeInv, PTL DEF Spec

(* A job shown as submitted or later was posted to ComfyUI and carries its *)
(* prompt_id, on either database and whatever copies are committed late.   *)
THEOREM SubmittedWerePosted ==
  ASSUME NobodyMarksSubmitted
  PROVE  Spec => []SubmittedWasPosted
<1>1. PostedInv => SubmittedWasPosted  BY DEF PostedInv
<1> QED  BY <1>1, PostedInvariance, PTL

(* A row with a prompt_id cannot be handed out. *)
IdentifiedInv == \A j \in Jobs : jobs[j].prompt_id => jobs[j].status \notin {"pending", "reserved"}

LEMMA StepIdentified ==
  ASSUME Postgres, NobodyMarksSubmitted, PostgresInv, PostedInv, IdentifiedInv, [Next]_vars,
         NEW k \in Jobs
  PROVE  /\ jobs[k].prompt_id =>
              jobs'[k].prompt_id /\ jobs'[k].status \notin {"pending", "reserved"}
         /\ jobs'[k].prompt_id => jobs'[k].status \notin {"pending", "reserved"}
<1>1. Advances(k)  BY StepAdvances DEF PostgresInv
<1>2. ASSUME jobs[k].prompt_id  PROVE jobs'[k].status \notin {"pending", "reserved"}
  <2>1. jobs[k].status \notin {"pending", "reserved"}  BY <1>2 DEF IdentifiedInv
  <2>2. jobs'[k] = jobs[k] \/ RowEnds(k)
    <3>1. ASSUME NEW w \in Workers, NEW j \in Jobs, jobs[j].status = "pending",
                 jobs' = [jobs EXCEPT ![j] = Claimed(@, w)]
          PROVE  jobs'[k] = jobs[k]
      BY <2>1, <3>1 DEF PostgresInv, TypeInv, TypeOK
    <3> QED  BY <2>1, <3>1, PostgresStep
  <2> QED  BY <2>1, <2>2 DEF RowEnds
<1> QED  BY <1>1, <1>2 DEF Advances

LEMMA IdentifiedInvariance ==
  ASSUME Postgres, NobodyMarksSubmitted
  PROVE  Spec => []IdentifiedInv
<1>1. Init => IdentifiedInv  BY DEF Init, IdentifiedInv, NewRow
<1>2. PostgresInv /\ PostedInv /\ IdentifiedInv /\ [Next]_vars => IdentifiedInv'
  BY StepIdentified DEF IdentifiedInv
<1> QED  BY <1>1, <1>2, PostgresInvariance, PostedInvariance, PTL DEF Spec

(* On PostgreSQL a job with a recorded prompt_id is never claimable again. *)
THEOREM SubmittedStaysOut ==
  ASSUME Postgres, NobodyMarksSubmitted
  PROVE  Spec => NotRequeuedAfterSubmit
<1> DEFINE Kept == \A j \in Jobs : jobs[j].prompt_id =>
              jobs'[j].prompt_id /\ jobs'[j].status \notin {"pending", "reserved"}
<1>1. PostgresInv /\ PostedInv /\ IdentifiedInv /\ [Next]_vars => Kept
  BY StepIdentified
<1>2. PostgresInv /\ PostedInv /\ IdentifiedInv /\ [Next]_vars => [Kept]_vars
  BY <1>1
<1> QED
  BY <1>2, PostgresInvariance, PostedInvariance, IdentifiedInvariance, PTL
  DEF Spec, NotRequeuedAfterSubmit
=============================================================================
