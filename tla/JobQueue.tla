------------------------------ MODULE JobQueue ------------------------------
(***************************************************************************)
(* The render-job queue: backend/app/queue/state_machine.py,               *)
(* services/queue/service.py, services/queue/worker.py and the controlled  *)
(* ComfyUI submission of services/comfy/submission.py.                     *)
(*                                                                         *)
(* Every service call runs in a SQLAlchemy session of its own: it reads a  *)
(* row, decides on that copy and commits the columns it changed with an    *)
(* unconditional UPDATE ... WHERE id = :id.  A call is therefore two steps, *)
(* a read and a commit, and other sessions run in between.  Only the two   *)
(* queries that PostgreSQL runs FOR UPDATE SKIP LOCKED read and commit in   *)
(* one step, and only when RowLocks is TRUE (SQLite has no row locks).     *)
(*                                                                         *)
(* Left out: the audit_logs rows and recovery_metadata (written in the     *)
(* transaction of the step, never read back), timestamps other than the    *)
(* heartbeat, and reserved_at, which is set and cleared with heartbeat_at  *)
(* and read only when that is NULL.                                        *)
(***************************************************************************)
EXTENDS Naturals, FiniteSets

CONSTANTS Jobs,           \* primary keys of comfy_jobs, in the order of id
          Workers,        \* worker_id values; one session per worker
          Operators,      \* other callers of QueueService.transition_job
          OperatorTargets,\* the target states those callers ask for
          Mortal,         \* the workers that may crash
          MaxAttempts,    \* max_attempts of recover_stale_reserved_jobs
          RecoveryLimit,  \* limit of recover_stale_reserved_jobs
          RowLocks,       \* TRUE on PostgreSQL, FALSE on SQLite
          MaxGrants       \* bound: claims of one job (only SQLite reaches it)

JobState == { "pending", "reserved", "validating", "submitted", "running",
              "collecting_outputs", "complete", "validation_failed",
              "comfy_rejected", "runtime_failed", "timeout", "interrupted",
              "oom", "postprocess_failed", "canceled" }

NoWorker == "no worker"

ASSUME JobsAssumption == Jobs \subseteq Nat
ASSUME WorkersAssumption ==
          /\ Workers \cap Operators = {}
          /\ NoWorker \notin Workers
          /\ IsFiniteSet(Workers)
          /\ Mortal \subseteq Workers
ASSUME BoundsAssumption == /\ MaxAttempts \in Nat \ {0}
                           /\ RecoveryLimit \in Nat \ {0}
                           /\ MaxGrants \in Nat
                           /\ RowLocks \in BOOLEAN
ASSUME TargetsAssumption == OperatorTargets \subseteq JobState

(* VALID_TRANSITIONS *)
ValidTransitions(state) ==
  CASE state = "pending"    -> {"reserved", "canceled"}
    [] state = "reserved"   -> {"pending", "validating", "timeout", "canceled",
                                "interrupted"}
    [] state = "validating" -> {"submitted", "validation_failed", "canceled",
                                "interrupted"}
    [] state = "submitted"  -> {"running", "comfy_rejected", "timeout",
                                "interrupted"}
    [] state = "running"    -> {"collecting_outputs", "runtime_failed",
                                "timeout", "interrupted", "oom"}
    [] state = "collecting_outputs" -> {"complete", "postprocess_failed",
                                        "runtime_failed"}
    [] OTHER -> {}

Terminal == {state \in JobState : ValidTransitions(state) = {}}

Sessions == Workers \cup Operators

(* The columns of comfy_jobs that the code reads back, and the status of    *)
(* the workflow_runs row the job belongs to.  A heartbeat is "fresh" until *)
(* it is older than the stale_before of a recovery.                        *)
Row == [status : JobState, worker_id : Workers \cup {NoWorker},
        heartbeat : {"null", "fresh", "stale"}, attempt_count : Nat,
        prompt_id : BOOLEAN,
        run_status : {"created", "submitted", "validation_failed",
                      "comfy_rejected"}]

NewRow == [status |-> "pending", worker_id |-> NoWorker, heartbeat |-> "null",
           attempt_count |-> 0, prompt_id |-> FALSE, run_status |-> "created"]

NotLoaded == [status |-> "not loaded"]

VARIABLES
  jobs,    \* the table: Jobs -> Row
  pc,      \* where each session stands between two steps of its call
  copy,    \* the rows a session has loaded and not yet committed
  arg,     \* the target state, the readiness verdict or ComfyUI's answer
  prompts, \* external: how many prompts of each job ComfyUI has queued
  grants   \* history: how many claims of each job were committed

vars == <<jobs, pc, copy, arg, prompts, grants>>

Control == {"idle", "heartbeat", "claiming", "recovering", "transition",
            "checked", "entering", "posting", "answered", "down"}
Verdicts == {"ready", "not_ready"}
Answers  == {"accepted", "node_errors", "no_prompt_id", "error"}

Arguments == JobState \cup Verdicts \cup Answers \cup {"none"}

TypeOK == /\ jobs \in [Jobs -> Row]
          /\ pc \in [Sessions -> Control]
          /\ copy \in [Sessions -> [Jobs -> Row \cup {NotLoaded}]]
          /\ arg \in [Sessions -> Arguments]
          /\ prompts \in [Jobs -> Nat]
          /\ grants \in [Jobs -> Nat]

NothingLoaded == [j \in Jobs |-> NotLoaded]

Init == /\ jobs = [j \in Jobs |-> NewRow]
        /\ pc = [s \in Sessions |-> "idle"]
        /\ copy = [s \in Sessions |-> NothingLoaded]
        /\ arg = [s \in Sessions |-> "none"]
        /\ prompts = [j \in Jobs |-> 0]
        /\ grants = [j \in Jobs |-> 0]

-----------------------------------------------------------------------------
(* Sessions *)

Loaded(s) == {j \in Jobs : copy[s][j] # NotLoaded}

(* The session reads the rows of S and goes on to control point next. *)
Load(s, S, next, a) ==
  /\ copy' = [copy EXCEPT ![s] =
                [j \in Jobs |-> IF j \in S THEN jobs[j] ELSE NotLoaded]]
  /\ pc' = [pc EXCEPT ![s] = next]
  /\ arg' = [arg EXCEPT ![s] = a]

(* The call returns, and with it everything the session had loaded. *)
Return(s) ==
  /\ pc' = [pc EXCEPT ![s] = "idle"]
  /\ copy' = [copy EXCEPT ![s] = NothingLoaded]
  /\ arg' = [arg EXCEPT ![s] = "none"]

(* What a flush leaves in a row: the columns whose new value differs from  *)
(* the loaded one are written, the others keep what the table holds by     *)
(* now.  A timestamp taken now differs from every loaded one.              *)
Flush(row, loaded, new) ==
  [c \in DOMAIN row |->
     IF new[c] # loaded[c] \/ (c = "heartbeat" /\ new[c] = "fresh")
       THEN new[c] ELSE row[c]]

(* UPDATE of job j with the value new computed from the session's copy. *)
Commit(s, j, new) ==
  jobs' = [jobs EXCEPT ![j] = Flush(jobs[j], copy[s][j], new)]

-----------------------------------------------------------------------------
(* claim_next_pending_job: the pending job with the lowest id *)

(* Mutant: also takes jobs that another worker has reserved. *)
LowestPendingOrReserved(j) ==
  /\ jobs[j].status \in {"pending", "reserved"}
  /\ \A k \in Jobs : jobs[k].status = "pending" => j <= k

LowestPending(j) ==
  /\ jobs[j].status = "pending"
  /\ \A k \in Jobs : jobs[k].status = "pending" => j <= k

(* Mutant: the claim is not counted as an attempt. *)
ClaimedUncounted(row, w) ==
  [row EXCEPT !.status = "reserved", !.worker_id = w, !.heartbeat = "fresh"]

Claimed(row, w) ==
  [row EXCEPT !.status = "reserved", !.worker_id = w, !.heartbeat = "fresh",
              !.attempt_count = @ + 1]

(* PostgreSQL: SELECT ... FOR UPDATE SKIP LOCKED and the UPDATE are atomic. *)
ClaimLocked(w) ==
  /\ RowLocks /\ pc[w] = "idle"
  /\ \E j \in Jobs :
       /\ LowestPending(j)
       /\ grants[j] < MaxGrants
       /\ jobs' = [jobs EXCEPT ![j] = Claimed(@, w)]
       /\ grants' = [grants EXCEPT ![j] = @ + 1]
  /\ UNCHANGED <<pc, copy, arg, prompts>>

(* SQLite: the row is only read, another session may take it as well. *)
ClaimRead(w) ==
  /\ ~RowLocks /\ pc[w] = "idle"
  /\ \E j \in Jobs : LowestPending(j) /\ Load(w, {j}, "claiming", "none")
  /\ UNCHANGED <<jobs, prompts, grants>>

ClaimCommit(w) ==
  /\ pc[w] = "claiming"
  /\ \E j \in Loaded(w) :
       /\ grants[j] < MaxGrants
       /\ Commit(w, j, Claimed(copy[w][j], w))
       /\ grants' = [grants EXCEPT ![j] = @ + 1]
  /\ Return(w)
  /\ UNCHANGED prompts

-----------------------------------------------------------------------------
(* heartbeat_job *)

HeartbeatRead(w, j) ==
  /\ pc[w] = "idle"
  /\ jobs[j].status = "reserved" /\ jobs[j].worker_id = w
  /\ Load(w, {j}, "heartbeat", "none")
  /\ UNCHANGED <<jobs, prompts, grants>>

HeartbeatCommit(w) ==
  /\ pc[w] = "heartbeat"
  /\ \E j \in Loaded(w) :
       Commit(w, j, [copy[w][j] EXCEPT !.heartbeat = "fresh"])
  /\ Return(w)
  /\ UNCHANGED <<prompts, grants>>

-----------------------------------------------------------------------------
(* recover_stale_reserved_jobs *)

(* Mutant: recovery also takes submitted jobs. *)
StaleOrSubmitted == {j \in Jobs : /\ jobs[j].status \in {"reserved", "submitted"}
                                  /\ jobs[j].heartbeat \in {"null", "stale"}}

(* Mutant: an old heartbeat is not looked at, only a missing one. *)
StaleWithoutHeartbeat == {j \in Jobs : /\ jobs[j].status = "reserved"
                                       /\ jobs[j].heartbeat = "null"}

Stale == {j \in Jobs : /\ jobs[j].status = "reserved"
                       /\ jobs[j].heartbeat \in {"null", "stale"}}

(* ORDER BY id LIMIT limit *)
RecoveryCandidates ==
  {j \in Stale : Cardinality({k \in Stale : k < j}) < RecoveryLimit}

Recovered(row) ==
  [row EXCEPT
     !.status = IF row.attempt_count < MaxAttempts THEN "pending" ELSE "timeout",
     !.worker_id = NoWorker,
     !.heartbeat = "null"]

RecoverLocked(w) ==
  /\ RowLocks /\ pc[w] = "idle" /\ Stale # {}
  /\ jobs' = [j \in Jobs |-> IF j \in RecoveryCandidates THEN Recovered(jobs[j])
                                                         ELSE jobs[j]]
  /\ UNCHANGED <<pc, copy, arg, prompts, grants>>

RecoverRead(w) ==
  /\ ~RowLocks /\ pc[w] = "idle" /\ Stale # {}
  /\ Load(w, RecoveryCandidates, "recovering", "none")
  /\ UNCHANGED <<jobs, prompts, grants>>

RecoverCommit(w) ==
  /\ pc[w] = "recovering"
  /\ jobs' = [j \in Jobs |->
                IF j \in Loaded(w)
                  THEN Flush(jobs[j], copy[w][j], Recovered(copy[w][j]))
                  ELSE jobs[j]]
  /\ Return(w)
  /\ UNCHANGED <<prompts, grants>>

-----------------------------------------------------------------------------
(* transition_job, called by an operator: the target is checked against    *)
(* the loaded state; an invalid transition raises and changes nothing.     *)
(* Reserving (reserve_job) passes a worker_id and claims for that worker.  *)

TransitionRead(o, j, target) ==
  /\ pc[o] = "idle"
  /\ target \in ValidTransitions(jobs[j].status)
  /\ Load(o, {j}, "transition", target)
  /\ UNCHANGED <<jobs, prompts, grants>>

TransitionCommit(o) ==
  /\ pc[o] = "transition"
  /\ \E j \in Loaded(o) :
       IF arg[o] = "reserved"
         THEN \E w \in Workers :
                /\ grants[j] < MaxGrants
                /\ Commit(o, j, Claimed(copy[o][j], w))
                /\ grants' = [grants EXCEPT ![j] = @ + 1]
         ELSE /\ Commit(o, j, [copy[o][j] EXCEPT !.status = arg[o]])
              /\ UNCHANGED grants
  /\ Return(o)
  /\ UNCHANGED prompts

-----------------------------------------------------------------------------
(* submit_reserved_job, the only path to ComfyUI *)

(* evaluate_submission_readiness.  Whether the patched workflow passes the  *)
(* object-info checks (workflowOk) does not depend on the queue.  A job not *)
(* reserved by the worker is refused without any write.                    *)
SubmitCheck(w, j, workflowOk) ==
  LET ready == workflowOk /\ ~jobs[j].prompt_id
  IN /\ pc[w] = "idle"
     /\ jobs[j].status = "reserved" /\ jobs[j].worker_id = w
     /\ Load(w, {j}, "checked", IF ready THEN "ready" ELSE "not_ready")
     /\ UNCHANGED <<jobs, prompts, grants>>

(* The job is read again, from the identity map (the copy) if the caller    *)
(* still holds the object, from the table otherwise.  When the job is ready *)
(* transition_job only checks the state table; when it is not, the worker   *)
(* must still own the reservation.                                          *)
MayValidate(w, row) ==
  /\ "validating" \in ValidTransitions(row.status)
  /\ arg[w] = "not_ready" => row.status = "reserved" /\ row.worker_id = w

SubmitReread(w) ==
  /\ pc[w] = "checked"
  /\ \E j \in Loaded(w) : \E row \in {copy[w][j], jobs[j]} :
       IF MayValidate(w, row)
         THEN /\ copy' = [copy EXCEPT ![w][j] = row]
              /\ pc' = [pc EXCEPT ![w] = "entering"]
              /\ UNCHANGED arg
         ELSE Return(w)
  /\ UNCHANGED <<jobs, prompts, grants>>

(* Mutant: the job is not moved to validating before the POST. *)
EnterWithoutValidating(w) ==
  /\ pc[w] = "entering"
  /\ pc' = [pc EXCEPT ![w] = IF arg[w] = "ready" THEN "posting" ELSE "answered"]
  /\ UNCHANGED <<jobs, copy, arg, prompts, grants>>

(* transition_job(validating) commits and reloads the job. *)
EnterValidating(w) ==
  /\ pc[w] = "entering"
  /\ \E j \in Loaded(w) :
       /\ Commit(w, j, [copy[w][j] EXCEPT !.status = "validating"])
       /\ copy' = [copy EXCEPT ![w][j] = jobs'[j]]
  /\ pc' = [pc EXCEPT ![w] = IF arg[w] = "ready" THEN "posting" ELSE "answered"]
  /\ UNCHANGED <<arg, prompts, grants>>

(* ComfyUI answers the POST /prompt, or the call fails; a prompt may have   *)
(* been queued whatever the worker gets to see (a read timeout, say).       *)
ComfyAnswers(w, answer, queued) ==
  /\ pc[w] = "posting"
  /\ answer = "accepted" => queued
  /\ \E j \in Loaded(w) :
       prompts' = [prompts EXCEPT ![j] = IF queued THEN @ + 1 ELSE @]
  /\ arg' = [arg EXCEPT ![w] = answer]
  /\ pc' = [pc EXCEPT ![w] = "answered"]
  /\ UNCHANGED <<jobs, copy, grants>>

(* Mutant: a status that is not in QueueStatus. *)
FailureStatusUnknown(answer) == "submission_failed"

FailureStatus(answer) ==
  IF answer \in {"not_ready", "node_errors"} THEN "validation_failed"
                                             ELSE "comfy_rejected"

(* Mutant: the prompt_id is not stored. *)
MarkSubmittedWithoutId(row) ==
  [row EXCEPT !.status = "submitted", !.run_status = "submitted"]

(* _mark_submitted and _mark_submission_failure: no state is checked again. *)
MarkSubmitted(row) ==
  [row EXCEPT !.status = "submitted", !.prompt_id = TRUE,
              !.run_status = "submitted"]

MarkSubmissionFailure(row, answer) ==
  [row EXCEPT !.status = FailureStatus(answer),
              !.run_status = FailureStatus(answer)]

RecordAnswer(w) ==
  /\ pc[w] = "answered"
  /\ \E j \in Loaded(w) :
       Commit(w, j, IF arg[w] = "accepted"
                      THEN MarkSubmitted(copy[w][j])
                      ELSE MarkSubmissionFailure(copy[w][j], arg[w]))
  /\ Return(w)
  /\ UNCHANGED <<prompts, grants>>

-----------------------------------------------------------------------------
(* The environment *)

(* Time passes without a heartbeat. *)
Age(j) ==
  /\ jobs[j].heartbeat = "fresh"
  /\ jobs' = [jobs EXCEPT ![j].heartbeat = "stale"]
  /\ UNCHANGED <<pc, copy, arg, prompts, grants>>

(* A worker process dies between two steps; a new one takes its worker_id. *)
Crash(w) ==
  /\ w \in Mortal /\ pc[w] # "down"
  /\ pc' = [pc EXCEPT ![w] = "down"]
  /\ copy' = [copy EXCEPT ![w] = NothingLoaded]
  /\ arg' = [arg EXCEPT ![w] = "none"]
  /\ UNCHANGED <<jobs, prompts, grants>>

Restart(w) ==
  /\ pc[w] = "down"
  /\ pc' = [pc EXCEPT ![w] = "idle"]
  /\ UNCHANGED <<jobs, copy, arg, prompts, grants>>

Claim(w)   == ClaimLocked(w) \/ ClaimRead(w) \/ ClaimCommit(w)
Recover(w) == RecoverLocked(w) \/ RecoverRead(w) \/ RecoverCommit(w)
Heartbeat(w) == (\E j \in Jobs : HeartbeatRead(w, j)) \/ HeartbeatCommit(w)
Submit(w) ==
  \/ \E j \in Jobs, workflowOk \in BOOLEAN : SubmitCheck(w, j, workflowOk)
  \/ SubmitReread(w)
  \/ EnterValidating(w)
  \/ \E answer \in Answers, queued \in BOOLEAN : ComfyAnswers(w, answer, queued)
  \/ RecordAnswer(w)
Transition(o) ==
  \/ \E j \in Jobs, target \in OperatorTargets : TransitionRead(o, j, target)
  \/ TransitionCommit(o)

Next == \/ \E w \in Workers : \/ Claim(w)
                              \/ Heartbeat(w)
                              \/ Recover(w)
                              \/ Submit(w)
                              \/ Crash(w)
                              \/ Restart(w)
        \/ \E o \in Operators : Transition(o)
        \/ \E j \in Jobs : Age(j)

Spec == Init /\ [][Next]_vars

(* A call that a worker outside Mortal has begun runs to its end, the POST  *)
(* included (its client has a timeout), and time passes.  Nothing makes a  *)
(* worker begin a call: worker.py has one-shot methods and no loop.        *)
Fairness ==
  /\ \A w \in Workers \ Mortal :
       /\ WF_vars(ClaimCommit(w) \/ HeartbeatCommit(w) \/ RecoverCommit(w))
       /\ WF_vars(SubmitReread(w) \/ EnterValidating(w) \/ RecordAnswer(w))
       /\ WF_vars(\E answer \in Answers, queued \in BOOLEAN :
                    ComfyAnswers(w, answer, queued))
  /\ \A j \in Jobs : WF_vars(Age(j))

FairSpec == Spec /\ Fairness

-----------------------------------------------------------------------------
(* Properties *)

Submitted == {"submitted", "running", "collecting_outputs", "complete"}

(* attempt_count, the value recovery compares with max_attempts, counts    *)
(* every claim of the job, so a job is handed out at most MaxAttempts      *)
(* times whatever crashes, recoveries and claims interleave.               *)
AttemptsCountGrants ==
  \A j \in Jobs : /\ jobs[j].attempt_count = grants[j]
                 /\ grants[j] <= MaxAttempts

(* ComfyUI never receives more prompts for a job than the job was claimed: *)
(* one reservation cannot be turned into two submissions, not even by a    *)
(* worker that crashes after the POST and comes back under the same        *)
(* worker_id.                                                              *)
PromptsWithinGrants == \A j \in Jobs : prompts[j] <= grants[j]

(* A job the queue shows as submitted or later was really queued in        *)
(* ComfyUI, and its row carries the prompt_id that finds it there.         *)
SubmittedWasPosted ==
  \A j \in Jobs : jobs[j].status \in Submitted =>
                    jobs[j].prompt_id /\ prompts[j] > 0

(* "Stale submitted/running jobs are not blindly requeued"                 *)
(* (docs/SPRINT_1C_PLAN.md:200): once a prompt_id is recorded no recovery, *)
(* late submission or transition makes the job claimable again.            *)
NotRequeuedAfterSubmit ==
  [][\A j \in Jobs : jobs[j].prompt_id =>
        jobs'[j].prompt_id /\ jobs'[j].status \notin {"pending", "reserved"}]_vars

(* A caller that the repository does not have: it keeps calling            *)
(* recover_stale_once as worker w as long as there is anything to recover. *)
KeepsRecovering(w) ==
  []<>(Stale = {}) \/ []<><<RecoverLocked(w) \/ RecoverRead(w)>>_vars

(* For such a caller recovery does what it is for, whatever the other       *)
(* sessions claim, submit and overwrite between its read and its commit: a *)
(* reservation whose worker has died is handed back or timed out.          *)
DeadReservationEnds ==
  (\E w \in Workers \ Mortal : KeepsRecovering(w)) =>
     \A j \in Jobs, w \in Workers :
        LET HeldByDead == /\ jobs[j].status = "reserved"
                          /\ jobs[j].worker_id = w
                          /\ pc[w] = "down"
        IN HeldByDead ~> ~HeldByDead

(* The row of a job as the abstract Reservation sees it. *)
Owner == [j \in Jobs |-> IF jobs[j].status = "reserved" THEN jobs[j].worker_id
                                                     ELSE NoWorker]

(* On PostgreSQL the queue implements Reservation: "two concurrent         *)
(* PostgreSQL reservation attempts cannot claim the same job"              *)
(* (docs/SPRINT_1C_PLAN.md:164).                                           *)
R == INSTANCE Reservation WITH owner <- Owner, granted <- grants
ImplementsReservation == R!RSpec

(* The statement below is what a document says of the queue; the code       *)
(* violates it.                                                            *)

(* docs/SPRINT_1C_PLAN.md:64, "Stale reservations must be recoverable      *)
(* without double-submitting to ComfyUI".                                  *)
NoDoubleSubmission == \A j \in Jobs : prompts[j] <= 1
=============================================================================
