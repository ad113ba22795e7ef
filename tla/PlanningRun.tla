---------------------------- MODULE PlanningRun ----------------------------
(***************************************************************************)
(* One orchestration run: its row, its step attempts, its provider         *)
(* invocations, the execution lease, the workers that execute it and the   *)
(* users that start and cancel it (services/planning/engine.py,            *)
(* repository.py, state_machine.py, executor.py and the start and cancel    *)
(* routes of api/routes/orchestration_runs.py).                            *)
(*                                                                         *)
(* Each API process runs at most one worker thread for the run (the        *)
(* registry of PlanningExecutionController).  A worker alternates between   *)
(* committing a lease renewal (a compare-and-set UPDATE) and committing    *)
(* what it decided from the rows it read afterwards; such a write is       *)
(* UPDATE ... WHERE id = :id on the columns that changed, checked against   *)
(* nothing.  Other sessions commit in between.                             *)
(*                                                                         *)
(* Left out: events, hashes, routing data, current_step and the checkpoint *)
(* (written, never read back to decide), transport retries (each commits   *)
(* an event only), and cancel_requested, which is committed together with  *)
(* status canceled and tested together with it.                            *)
(***************************************************************************)
EXTENDS Naturals, Sequences

CONSTANTS Processes,     \* API processes, each with a controller
          Users,         \* sessions that run cancel_run
          Mortal,        \* the processes that may die
          NumSteps,      \* number of task types of the run
          RepairBudget,  \* repair_budget of the run
          Ladder,        \* escalations left above the routed model (Luna->Terra->Sol: 2)
          LeasesOutliveWork, \* TRUE: a lease expires only without its worker
          MaxClaims      \* bound: how often the run is claimed

ASSUME ProcessesAssumption == Processes \cap Users = {} /\ Mortal \subseteq Processes
ASSUME CountsAssumption == /\ NumSteps \in Nat \ {0}
                           /\ RepairBudget \in Nat
                           /\ Ladder \in Nat
                           /\ MaxClaims \in Nat \ {0}
                           /\ LeasesOutliveWork \in BOOLEAN

RunStatus  == {"pending", "running", "completed", "failed", "canceled"}
StepStatus == RunStatus \cup {"skipped"}
InvocationStatus == {"pending", "succeeded", "failed", "canceled"}

(* RUN_TRANSITIONS and STEP_TRANSITIONS; the same state again is a no-op. *)
RunTransitions(from) ==
  CASE from = "pending" -> {"running", "canceled", "failed"}
    [] from = "running" -> {"completed", "failed", "canceled"}
    [] OTHER -> {}
StepTransitions(from) ==
  CASE from = "pending" -> {"running", "skipped", "canceled", "failed"}
    [] from = "running" -> {"completed", "failed", "canceled"}
    [] OTHER -> {}

RunMay(from, to)  == to = from \/ to \in RunTransitions(from)
StepMay(from, to) == to = from \/ to \in StepTransitions(from)
RunTerminal  == {s \in RunStatus : RunTransitions(s) = {}}
StepTerminal == {s \in StepStatus : StepTransitions(s) = {}}

Steps == 1..NumSteps
NoToken == 0
Sessions == Processes \cup Users

VARIABLES
  run,         \* the orchestration_runs row
  steps,       \* per sequence index, the status of each attempt
  invocations, \* the provider_invocations rows
  proposals,   \* how many proposals the run has recorded
  contextChanged, \* the story no longer matches input_context_hash
  pc,          \* where each session stands
  copy,        \* the run and steps as the session last loaded them
  token,       \* the claim token a process's worker was given
  at,          \* the sequence index the worker is at
  attempt,     \* the attempt number of its active step
  climbed,     \* escalations it has used for this step
  spent,       \* repairs of the run it knows of, its budgets.repair_used
  plan,        \* the attempt it will resume at each index
  repairing,   \* its request carries repair instructions
  outcome      \* what the provider call gave

stored == <<run, steps, invocations, proposals>>
local  == <<token, at, attempt, climbed, spent, plan, repairing, outcome>>
vars   == <<stored, contextChanged, pc, copy, local>>

(* The claim token of the n-th acquisition is n: acquire_execution_lease    *)
(* increments execution_attempt in the UPDATE that stores a fresh token.   *)
(* lease: execution_lease_expires_at is NULL, in the future, in the past.  *)
Run == [status : RunStatus, token : Nat, lease : {"none", "live", "expired"},
        execution_attempt : Nat, repair_used : Nat]

Database == [run : Run, steps : [Steps -> Seq(StepStatus)]]

Control == {"idle", "claimed", "scan", "step", "loop", "call", "invoking",
            "returned", "settle", "publish", "completing", "failing",
            "unrecorded", "canceling"}

TypeOK ==
  /\ run \in Run
  /\ steps \in [Steps -> Seq(StepStatus)]
  /\ invocations \subseteq [step : Steps, attempt : Nat \ {0}, repairing : BOOLEAN,
                            status : InvocationStatus]
  /\ proposals \in Nat
  /\ contextChanged \in BOOLEAN
  /\ pc \in [Sessions -> Control]
  /\ copy \in [Sessions -> Database]
  /\ token \in [Processes -> Nat]
  /\ at \in [Processes -> 1..NumSteps + 1]
  /\ attempt \in [Processes -> Nat]
  /\ climbed \in [Processes -> 0..Ladder]
  /\ spent \in [Processes -> Nat]
  /\ plan \in [Processes -> [Steps -> Nat]]
  /\ repairing \in [Processes -> BOOLEAN]
  /\ outcome \in [Processes -> {"none", "ok", "bad", "transport"}]

(* create_run leaves a pending run with one pending attempt per index. *)
NewRun == [status |-> "pending", token |-> NoToken, lease |-> "none",
           execution_attempt |-> 0, repair_used |-> 0]
NewSteps == [i \in Steps |-> <<"pending">>]

Init ==
  /\ run = NewRun
  /\ steps = NewSteps
  /\ invocations = {}
  /\ proposals = 0
  /\ contextChanged = FALSE
  /\ pc = [s \in Sessions |-> "idle"]
  /\ copy = [s \in Sessions |-> [run |-> NewRun, steps |-> NewSteps]]
  /\ token = [p \in Processes |-> NoToken]
  /\ at = [p \in Processes |-> 1]
  /\ attempt = [p \in Processes |-> 1]
  /\ climbed = [p \in Processes |-> 0]
  /\ spent = [p \in Processes |-> 0]
  /\ plan = [p \in Processes |-> [i \in Steps |-> 1]]
  /\ repairing = [p \in Processes |-> FALSE]
  /\ outcome = [p \in Processes |-> "none"]

-----------------------------------------------------------------------------
(* Sessions *)

Now == [run |-> run, steps |-> steps]

(* What a session sees when it decides: the rows as it loaded them, or as  *)
(* they are now if it happens to read them only now.                       *)
Views(s) == {copy[s], Now}

Goto(s, next) == pc' = [pc EXCEPT ![s] = next]
LoadNow(s)    == copy' = [copy EXCEPT ![s] = Now]

(* get_run alone: the run as this step leaves it, and no steps. *)
LoadRun(s) == copy' = [copy EXCEPT ![s] = [run |-> run', steps |-> NewSteps]]
Keep(s, view) == copy' = [copy EXCEPT ![s] = view]

(* The columns of the run that differ from what was loaded are written. *)
FlushRun(loaded, new) ==
  run' = [c \in DOMAIN run |-> IF new[c] # loaded[c] THEN new[c] ELSE run[c]]

(* Mutant: the lease columns are left as they are. *)
EndedKeepingLease(row, status) == [row EXCEPT !.status = status]

(* transition_run: a terminal status also clears the lease. *)
Ended(row, status) ==
  [row EXCEPT !.status = status, !.token = NoToken, !.lease = "none"]

(* The worker is done with the run; its thread leaves the registry, and    *)
(* nothing of its local state is read again.                               *)
Return(p) ==
  /\ Goto(p, "idle")
  /\ copy' = [copy EXCEPT ![p] = [run |-> NewRun, steps |-> NewSteps]]
  /\ token' = [token EXCEPT ![p] = NoToken]
  /\ at' = [at EXCEPT ![p] = 1]
  /\ attempt' = [attempt EXCEPT ![p] = 1]
  /\ climbed' = [climbed EXCEPT ![p] = 0]
  /\ spent' = [spent EXCEPT ![p] = 0]
  /\ plan' = [plan EXCEPT ![p] = [i \in Steps |-> 1]]
  /\ repairing' = [repairing EXCEPT ![p] = FALSE]
  /\ outcome' = [outcome EXCEPT ![p] = "none"]

(* The condition of renew_execution_lease and owns_execution_lease *)
Owns(p) == /\ run.status = "running"
           /\ run.token = token[p]
           /\ run.lease = "live"

-----------------------------------------------------------------------------
(* POST /runs/{id}/start: claim_run, then the controller's submit *)

(* Mutant: the lease of a running run is not looked at. *)
AcquirableWhileLeased == run.status \in {"pending", "running"}

(* Mutant: the status is not looked at. *)
AcquirableInAnyStatus == run.lease # "live"

(* The two UPDATEs of acquire_execution_lease *)
Acquirable == \/ run.status = "pending"
              \/ run.status = "running" /\ run.lease # "live"

Acquire ==
  /\ Acquirable
  /\ run.execution_attempt < MaxClaims
  /\ run' = [run EXCEPT !.status = "running", !.lease = "live",
                        !.token = run.execution_attempt + 1,
                        !.execution_attempt = @ + 1]

(* The run is claimed and a worker thread is queued for it. *)
StartScheduled(p) ==
  /\ pc[p] = "idle"
  /\ Acquire
  /\ token' = [token EXCEPT ![p] = run'.token]
  /\ Goto(p, "claimed")
  /\ UNCHANGED <<steps, invocations, proposals, contextChanged, copy, at,
                 attempt, climbed, spent, plan, repairing, outcome>>

(* The claim is committed but no worker gets it: the controller is at       *)
(* capacity (the route answers 503), or it already runs this run under an  *)
(* older token.                                                            *)
StartUnscheduled(p) ==
  /\ Acquire
  /\ UNCHANGED <<steps, invocations, proposals, contextChanged, pc, copy, local>>

(* ThreadPoolExecutor.submit raises: the controller records the failure. *)
StartRefused(p) ==
  /\ pc[p] = "idle"
  /\ Acquire
  /\ token' = [token EXCEPT ![p] = run'.token]
  /\ Goto(p, "failing")
  /\ UNCHANGED <<steps, invocations, proposals, contextChanged, at, attempt,
                 climbed, spent, plan, repairing, outcome>>
  /\ LoadRun(p)

-----------------------------------------------------------------------------
(* execute_claimed_run and _execute *)

(* A worker that no longer owns the lease raises, and the controller        *)
(* records a boundary failure; changed story content fails the run.        *)
Begin(p) ==
  /\ pc[p] = "claimed"
  /\ \/ /\ run.status \in RunTerminal
        /\ Return(p)
     \/ /\ run.status \notin RunTerminal
        /\ Goto(p, IF Owns(p) /\ ~contextChanged THEN "scan" ELSE "failing")
        /\ LoadNow(p)
        /\ plan' = [plan EXCEPT ![p] = [i \in Steps |-> Len(steps[i])]]
        /\ spent' = [spent EXCEPT ![p] = run.repair_used]
        /\ UNCHANGED <<token, at, attempt, climbed, repairing, outcome>>
  /\ UNCHANGED <<stored, contextChanged>>

AfterRenewal(p) ==
  CASE pc[p] = "scan" -> IF at[p] > NumSteps THEN "publish" ELSE "step"
    [] pc[p] = "loop" -> "call"
    [] pc[p] = "returned" -> "settle"

(* expire_all and get_run, before the renewal.  The step that brings a       *)
(* worker here has read the row; it may also be read at any time after it. *)
Reread(p) ==
  /\ pc[p] \in {"scan", "loop", "returned"}
  /\ UNCHANGED <<stored, contextChanged, pc, local>>
  /\ LoadRun(p)

(* _renew_execution_lease: it pushes the expiry of a live lease and commits, *)
(* after which the rows are read again.  A lost lease raises PlanningError; *)
(* the row stays in the session as it was read before, and so the handler   *)
(* gets it.                                                                *)
Renew(p) ==
  /\ pc[p] \in {"scan", "loop", "returned"}
  /\ IF Owns(p) THEN Goto(p, AfterRenewal(p)) /\ LoadNow(p)
              ELSE Goto(p, "failing") /\ UNCHANGED copy
  /\ UNCHANGED <<stored, contextChanged, local>>

(* Mutant: an attempt left running is taken for finished. *)
FinishedOrRunning == {"completed", "skipped", "canceled", "running"}

(* The heads the step loop passes over *)
Finished == {"completed", "skipped", "canceled"}

(* The head attempt of the next index: skipped when it is finished, failing *)
(* when it failed before, else started.                                    *)
StartStep(p) ==
  /\ pc[p] = "step"
  /\ \E view \in Views(p) :
       LET i == at[p]
           k == plan[p][i]
           head == view.steps[i][k]
       IN \/ /\ view.run.status = "canceled"
             /\ Return(p)
             /\ UNCHANGED stored
          \/ /\ view.run.status # "canceled"
             /\ head \in Finished
             /\ at' = [at EXCEPT ![p] = i + 1]
             /\ Goto(p, "scan")
             /\ UNCHANGED <<stored, token, attempt, climbed, spent, plan,
                            repairing, outcome>>
             /\ LoadRun(p)
          \/ /\ view.run.status # "canceled"
             /\ head = "failed"
             /\ Goto(p, "failing")
             /\ Keep(p, view)
             /\ UNCHANGED <<stored, local>>
          \/ /\ view.run.status # "canceled"
             /\ head \in {"pending", "running"} \ Finished
             /\ steps' = IF head = "pending"
                           THEN [steps EXCEPT ![i][k] = "running"] ELSE steps
             /\ attempt' = [attempt EXCEPT ![p] = k]
             /\ climbed' = [climbed EXCEPT ![p] = 0]
             /\ repairing' = [repairing EXCEPT ![p] = FALSE]
             /\ Goto(p, "loop")
             /\ UNCHANGED <<run, invocations, proposals, token, at, spent, plan,
                            outcome>>
             /\ LoadRun(p)
  /\ UNCHANGED contextChanged

(* A PlanningError between two commits: the time budget is exceeded, no     *)
(* route can be selected, the final proposal does not validate.            *)
Raise(p) ==
  /\ pc[p] \in {"step", "call", "invoking", "publish"}
  /\ Goto(p, "failing")
  /\ UNCHANGED <<stored, contextChanged, copy, local>>

-----------------------------------------------------------------------------
(* _run_step *)

(* The idempotency key of an invocation: the step attempt and the request. *)
SameRequest(p, inv) == /\ inv.step = at[p]
                       /\ inv.attempt = attempt[p]
                       /\ inv.repairing = repairing[p]

Recorded(p) == {inv \in invocations : SameRequest(p, inv)}

SetInvocation(p, status) ==
  (invocations \ Recorded(p)) \cup
    {[step |-> at[p], attempt |-> attempt[p], repairing |-> repairing[p],
      status |-> status]}

NextStep(p) ==
  /\ at' = [at EXCEPT ![p] = @ + 1]
  /\ Goto(p, "scan")
  /\ LoadRun(p)
  /\ UNCHANGED <<token, attempt, climbed, spent, plan, repairing, outcome>>

CallProvider(p) ==
  /\ pc[p] = "call"
  /\ \E view \in Views(p) :
       LET replay == \E inv \in Recorded(p) : inv.status = "succeeded"
           mine == view.steps[at[p]][attempt[p]]
       IN \/ /\ view.run.status = "canceled"
             /\ Return(p)
             /\ UNCHANGED stored
          \/ /\ view.run.status # "canceled" /\ replay   \* cached result
             /\ StepMay(mine, "completed")
             /\ steps' = [steps EXCEPT ![at[p]][attempt[p]] = "completed"]
             /\ UNCHANGED <<run, invocations, proposals>>
             /\ NextStep(p)
          \/ /\ view.run.status # "canceled" /\ replay
             /\ ~StepMay(mine, "completed")
             /\ Goto(p, "failing")
             /\ Keep(p, view)
             /\ UNCHANGED <<stored, local>>
          \/ /\ view.run.status # "canceled" /\ ~replay
             /\ invocations' = IF Recorded(p) = {} THEN SetInvocation(p, "pending")
                                                   ELSE invocations
             /\ Goto(p, "invoking")
             /\ UNCHANGED <<run, steps, proposals, copy, local>>
  /\ UNCHANGED contextChanged

(* The provider answers with a valid payload ("ok"), an invalid or failed   *)
(* one ("bad"), or every transport retry was used up ("transport").        *)
ProviderReturns(p, result) ==
  /\ pc[p] = "invoking"
  /\ outcome' = [outcome EXCEPT ![p] = result]
  /\ Goto(p, "returned")
  /\ UNCHANGED <<stored, contextChanged, token, at, attempt, climbed, spent, plan,
                 repairing>>
  /\ LoadRun(p)

Active(p, view) == view.steps[at[p]][attempt[p]]

SettleCanceled(p, view) ==
  /\ view.run.status = "canceled"
  /\ invocations' = IF \E inv \in Recorded(p) : inv.status = "pending"
                      THEN SetInvocation(p, "canceled") ELSE invocations
  /\ Return(p)
  /\ UNCHANGED <<run, steps, proposals>>

SettleSucceeded(p, view) ==
  /\ view.run.status # "canceled"
  /\ outcome[p] = "ok"
  /\ StepMay(Active(p, view), "completed")
  /\ invocations' = SetInvocation(p, "succeeded")
  /\ steps' = [steps EXCEPT ![at[p]][attempt[p]] = "completed"]
  /\ UNCHANGED <<run, proposals>>
  /\ NextStep(p)

(* Mutant: one repair more than the budget *)
CanRepairOnceMore(p, view) == spent[p] <= RepairBudget /\ view.run.repair_used <= RepairBudget

(* A repair needs budget, as the worker counts and as the run says; an     *)
(* escalation needs a higher model.                                        *)
CanRepair(p, view) == spent[p] < RepairBudget /\ view.run.repair_used < RepairBudget

CanEscalate(p) == climbed[p] < Ladder

(* The step cannot be completed any more, the transport failed, or neither *)
(* repair nor escalation is left: the invocation, the step (if it still     *)
(* can) and the run fail in one commit -- unless the run is seen terminal,  *)
(* when _fail_run returns and nothing is committed.                        *)
SettleFailed(p, view) ==
  /\ view.run.status # "canceled"
  /\ \/ outcome[p] = "ok" /\ ~StepMay(Active(p, view), "completed")
     \/ outcome[p] = "transport"
     \/ outcome[p] = "bad" /\ ~CanRepair(p, view) /\ ~CanEscalate(p)
  /\ IF view.run.status \in RunTerminal
       THEN UNCHANGED <<run, steps, invocations>>
       ELSE /\ FlushRun(view.run, Ended(view.run, "failed"))
            /\ steps' = IF outcome[p] # "ok" /\ StepMay(Active(p, view), "failed")
                          THEN [steps EXCEPT ![at[p]][attempt[p]] = "failed"]
                          ELSE steps
            /\ invocations' =
                 SetInvocation(p, IF outcome[p] = "ok" THEN "succeeded" ELSE "failed")
  /\ Return(p)
  /\ UNCHANGED proposals

(* Mutant: the attempt that is replaced stays running. *)
SupersededLater(status) == status

(* "Mark previous attempt failed if still running." *)
Superseded(status) == IF status \in StepTerminal THEN status ELSE "failed"

(* The attempts of its index, when it has replaced the last one it saw.    *)
Replaced(p, view) ==
  [steps[at[p]] EXCEPT ![attempt[p]] =
     IF Superseded(Active(p, view)) = Active(p, view) THEN @ ELSE Superseded(Active(p, view))]

(* Semantic repair and escalation: a new running attempt replaces the last. *)
SettleRepaired(p, view) ==
  /\ view.run.status # "canceled"
  /\ outcome[p] = "bad"
  /\ CanRepair(p, view) \/ CanEscalate(p)
  /\ Len(steps[at[p]]) = attempt[p]      \* unique (run, sequence, attempt)
  /\ FlushRun(view.run,
              IF CanRepair(p, view) THEN [view.run EXCEPT !.repair_used = @ + 1]
                                 ELSE view.run)
  /\ spent' = [spent EXCEPT ![p] = IF CanRepair(p, view) THEN view.run.repair_used + 1 ELSE @]
  /\ climbed' = [climbed EXCEPT ![p] = IF CanEscalate(p) THEN @ + 1 ELSE @]
  /\ steps' = [steps EXCEPT ![at[p]] = Append(Replaced(p, view), "running")]
  /\ invocations' = SetInvocation(p, "failed")
  /\ attempt' = [attempt EXCEPT ![p] = @ + 1]
  /\ repairing' = [repairing EXCEPT ![p] = TRUE]
  /\ Goto(p, "loop")
  /\ LoadRun(p)
  /\ UNCHANGED <<proposals, token, at, plan, outcome>>

(* Another worker has created the next attempt: the insert violates unique  *)
(* (run, sequence, attempt) and the session rolls back.                    *)
SettleRaises(p, view) ==
  /\ view.run.status # "canceled"
  /\ outcome[p] = "bad"
  /\ CanRepair(p, view) \/ CanEscalate(p)
  /\ Len(steps[at[p]]) # attempt[p]
  /\ Goto(p, "failing")
  /\ LoadNow(p)
  /\ UNCHANGED <<stored, local>>

Settle(p) ==
  /\ pc[p] = "settle"
  /\ \E view \in Views(p) :
       \/ SettleCanceled(p, view)
       \/ SettleSucceeded(p, view)
       \/ SettleFailed(p, view)
       \/ SettleRepaired(p, view)
       \/ SettleRaises(p, view)
  /\ UNCHANGED contextChanged

-----------------------------------------------------------------------------
(* The end of a run *)

(* _finalize_proposal commits the proposal on its own. *)
Publish(p) ==
  /\ pc[p] = "publish"
  /\ \E view \in Views(p) :
       IF view.run.status # "running"
         THEN Return(p) /\ UNCHANGED stored
         ELSE /\ proposals' = proposals + 1
              /\ Goto(p, "completing")
              /\ LoadNow(p)
              /\ UNCHANGED <<run, steps, invocations, local>>
  /\ UNCHANGED contextChanged

Complete(p) ==
  /\ pc[p] = "completing"
  /\ \E view \in Views(p) :
       IF RunMay(view.run.status, "completed")
         THEN FlushRun(view.run, Ended(view.run, "completed")) /\ Return(p)
         ELSE /\ Goto(p, "failing") /\ Keep(p, view)
              /\ UNCHANGED <<run, local>>
  /\ UNCHANGED <<steps, invocations, proposals, contextChanged>>

(* Mutant: the exception is swallowed. *)
FailRunSilently(p) ==
  /\ pc[p] = "failing"
  /\ Return(p)
  /\ UNCHANGED <<stored, contextChanged>>

(* The except handlers of _execute, and _record_boundary_failure: the run   *)
(* is failed unless it is seen terminal -- whoever holds its lease.        *)
FailRun(p) ==
  /\ pc[p] = "failing"
  /\ \E view \in Views(p) :
       IF view.run.status \in RunTerminal
         THEN UNCHANGED run
         ELSE FlushRun(view.run, Ended(view.run, "failed"))
  /\ Return(p)
  /\ UNCHANGED <<steps, invocations, proposals, contextChanged>>

(* The database refuses that write as well: _record_boundary_failure         *)
(* swallows the exception, and the run stays as it is.                     *)
FailRunRefused(p) ==
  /\ pc[p] = "failing"
  /\ Goto(p, "unrecorded")
  /\ UNCHANGED <<stored, contextChanged, copy, local>>

GiveUp(p) ==
  /\ pc[p] = "unrecorded"
  /\ Return(p)
  /\ UNCHANGED <<stored, contextChanged>>

-----------------------------------------------------------------------------
(* POST /runs/{id}/cancel: cancel_run reads the run and its steps, then     *)
(* commits the cancellation of both.                                       *)

CancelRead(u) ==
  /\ pc[u] = "idle"
  /\ run.status \notin RunTerminal
  /\ LoadNow(u)
  /\ Goto(u, "canceling")
  /\ UNCHANGED <<stored, contextChanged, local>>

CancelCommit(u) ==
  /\ pc[u] = "canceling"
  /\ LET seen == copy[u]
     IN /\ FlushRun(seen.run, Ended(seen.run, "canceled"))
        /\ steps' = [i \in Steps |-> [k \in DOMAIN steps[i] |->
                       IF k \in DOMAIN seen.steps[i]
                            /\ seen.steps[i][k] \notin StepTerminal
                         THEN "canceled" ELSE steps[i][k]]]
  /\ Goto(u, "idle")
  /\ copy' = [copy EXCEPT ![u] = [run |-> NewRun, steps |-> NewSteps]]
  /\ UNCHANGED <<invocations, proposals, contextChanged, local>>

-----------------------------------------------------------------------------
(* The environment *)

(* Time passes without a renewal.  A worker renews before each step and    *)
(* after each provider call, so only a call longer than the lease or a     *)
(* stalled process lets it expire under a worker.                          *)
LeaseExpires ==
  /\ run.lease = "live"
  /\ LeasesOutliveWork => \A p \in Processes : token[p] # run.token
  /\ run' = [run EXCEPT !.lease = "expired"]
  /\ UNCHANGED <<steps, invocations, proposals, contextChanged, pc, copy, local>>

(* A user edits the story the run was planned for. *)
EditStory ==
  /\ ~contextChanged
  /\ contextChanged' = TRUE
  /\ UNCHANGED <<stored, pc, copy, local>>

Die(p) ==
  /\ p \in Mortal /\ pc[p] # "idle"
  /\ Return(p)
  /\ UNCHANGED <<stored, contextChanged>>

Start(p) == StartScheduled(p) \/ StartUnscheduled(p) \/ StartRefused(p)

Execute(p) == \/ Begin(p) \/ Reread(p) \/ Renew(p) \/ StartStep(p) \/ Raise(p)
              \/ CallProvider(p)
              \/ \E result \in {"ok", "bad", "transport"} : ProviderReturns(p, result)
              \/ Settle(p) \/ Publish(p) \/ Complete(p)
              \/ FailRun(p) \/ FailRunRefused(p) \/ GiveUp(p)

Cancel(u) == CancelRead(u) \/ CancelCommit(u)

Next == \/ \E p \in Processes : Start(p) \/ Execute(p) \/ Die(p)
        \/ \E u \in Users : Cancel(u)
        \/ LeaseExpires
        \/ EditStory

Spec == Init /\ [][Next]_vars

(* A thread of the pool, once started, runs on; nothing else is fair: no   *)
(* one has to start, cancel or edit anything.                              *)
Fairness == \A p \in Processes : WF_vars(Execute(p))

FairSpec == Spec /\ Fairness

-----------------------------------------------------------------------------
(* Properties *)

(* A completed run has a proposal to review and no step that is still       *)
(* waiting or running.                                                     *)
CompletedIsDone ==
  run.status = "completed" =>
    /\ proposals > 0
    /\ \A i \in Steps : steps[i][Len(steps[i])] \notin {"pending", "running"}

(* An index never gets more attempts than one, plus the repairs of the      *)
(* budget, plus what each claim may escalate: resuming cannot make the      *)
(* provider be called without bound.  A worker that has outlived its lease  *)
(* may write repair_used over the count of the next one.  With one step the *)
(* two contend for the next attempt, and each claim still keeps to the      *)
(* budget; with more steps a claim may be repaired more often than that.    *)
AttemptsBounded ==
  LET bound(repairs) == 1 + Ladder * run.execution_attempt + RepairBudget * repairs
  IN /\ run.repair_used <= RepairBudget
     /\ IF LeasesOutliveWork
          THEN \A i \in Steps : Len(steps[i]) <= bound(1)
          ELSE NumSteps = 1 => Len(steps[1]) <= bound(run.execution_attempt)

(* At most one attempt of an index is active, the latest.                  *)
OneActiveAttempt ==
  \A i \in Steps : \A k \in 1..Len(steps[i]) - 1 : steps[i][k] \in StepTerminal

(* Index i+1 is not started before index i is finished.                    *)
StepsInOrder ==
  \A i \in Steps \ {1} :
     steps[i] # <<"pending">> /\ steps[i] # <<"canceled">> =>
        steps[i-1][Len(steps[i-1])] \notin {"pending", "running"}

(* Workers do not record proposals beside each other: whoever records one   *)
(* holds the lease at that moment, or a cancel has just taken it.  (A      *)
(* worker that dies between Publish and Complete leaves its proposal, and  *)
(* the worker that resumes the run records another.)                       *)
HolderPublishes ==
  [][proposals' # proposals =>
       \/ \E p \in Processes : pc[p] = "publish" /\ Owns(p) /\ pc'[p] = "completing"
       \/ run.status = "canceled"]_vars

(* A run that a worker has ended holds no lease.  (A canceled one may: a    *)
(* cancel that read the run before it was claimed clears no lease.)        *)
EndedReleasesLease ==
  run.status \in {"completed", "failed"} => run.token = NoToken /\ run.lease = "none"

(* Whatever starts, workers, cancels and deaths interleave, what the        *)
(* database says of the run fits together: its steps with each other, with *)
(* the status of the run, its claims and its lease.                        *)
RunIsConsistent ==
  /\ TypeOK
  /\ CompletedIsDone /\ OneActiveAttempt /\ StepsInOrder /\ AttemptsBounded
  /\ EndedReleasesLease

(* A run that has ended is never executed again, and how it ended changes   *)
(* only by a cancel that had read it before: not by a resumed or a stale   *)
(* worker.  (A canceled one may still be overwritten by its worker.)       *)
EndedStaysEnded ==
  [][run.status \in RunTerminal =>
       /\ run'.status \in RunTerminal
       /\ run.status # "canceled" => run'.status \in {run.status, "canceled"}]_vars

(* A worker that was scheduled brings the run to an end, unless even the    *)
(* failure that ends it cannot be written.                                 *)
ScheduledRunEnds ==
  \A p \in Processes :
     pc[p] = "claimed" ~> run.status \in RunTerminal \/ pc[p] = "unrecorded"
=============================================================================
