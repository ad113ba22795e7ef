---------------------------- MODULE HeadlessTasks ----------------------------
(***************************************************************************)
(* The development-time orchestrator of scripts/headless_orchestrator: the *)
(* task and slot ledger (ledger.py, models.py), the controller process of  *)
(* each task (controller.py), the worker process it launches (runner.py)   *)
(* and the patches it applies to the task's worktree (patches.py,          *)
(* policy.py).                                                             *)
(*                                                                         *)
(* `run-task` is one controller process per task, so a task names its      *)
(* controller.  Every ledger statement commits by itself; only             *)
(* reserve_slot is a transaction (BEGIN IMMEDIATE), and it counts and      *)
(* inserts in one step.  A worktree is the set of paths whose content      *)
(* differs from HEAD, and a patch always changes its file.  Workers run    *)
(* under a Windows job object, which dies with the controller.  Left out:  *)
(* artifacts, events, exit codes, the sanitizing of results, SQLite lock   *)
(* timeouts, and that the fixed tests could write to the worktree.         *)
(***************************************************************************)
EXTENDS Naturals, FiniteSets

CONSTANTS Tasks,     \* tasks, each with a controller process
          Faulty,    \* tasks whose controller may die and whose disk may
                     \* refuse to take a written patch back
          Worktrees,
          Tree,      \* the worktree of each task
          Limit,     \* max_grok_workers of each controller
          Paths,     \* files of a worktree
          Owned      \* the owned paths of each task; {} for read_only

ASSUME TasksAssumption == /\ IsFiniteSet(Tasks) /\ Faulty \subseteq Tasks
                          /\ Tree \in [Tasks -> Worktrees]
                          /\ Limit \in [Tasks -> 1..64]
                          /\ Owned \in [Tasks -> SUBSET Paths]

(* VALID_TRANSITIONS *)
Edges ==
  {<<"queued", "preparing">>, <<"queued", "cancel_requested">>,
   <<"retry_wait", "queued">>, <<"retry_wait", "cancel_requested">>,
   <<"cancel_requested", "canceled">>, <<"passed", "invalidated">>}
  \cup {"preparing"} \X {"leased", "blocked", "failed", "cancel_requested"}
  \cup {"leased"} \X {"running", "failed", "cancel_requested"}
  \cup {"running"} \X {"result_received", "retry_wait", "blocked", "failed",
                       "cancel_requested"}
  \cup {"result_received"} \X {"verifying", "blocked", "failed"}
  \cup {"verifying"} \X {"passed", "retry_wait", "blocked", "failed"}

TerminalStatuses == {"passed", "blocked", "failed", "canceled", "invalidated"}

(* Only these are ever given to a task; "none" before the row exists. *)
Status == {"none", "queued", "preparing", "leased", "running",
           "result_received", "verifying"} \cup TerminalStatuses

VARIABLES
  status,   \* the tasks table
  slots,    \* the process_leases table
  pc,       \* the next statement of each controller
  alive,    \* the tasks whose worker process is running
  files,    \* the changed paths of each worktree
  before,   \* the snapshot a controller took before the launch
  patches,  \* the paths of the patches its worker returned
  original, \* the changed paths when the patches were checked
  applied   \* the patches it has written

tree == <<files, before, patches, original, applied>>
worker == <<alive, tree>>
vars == <<status, slots, pc, worker>>

Control == {"new", "add", "prepare", "reserve", "lease", "start", "snapshot",
            "launch", "working", "receive", "judge", "check", "apply", "undo",
            "compare", "test", "pass", "handle", "release", "ended", "dead"}

TypeOK ==
  /\ status \in [Tasks -> Status]
  /\ slots \subseteq Tasks
  /\ pc \in [Tasks -> Control]
  /\ alive \subseteq Tasks
  /\ files \in [Worktrees -> SUBSET Paths]
  /\ {before, patches, original, applied} \subseteq [Tasks -> SUBSET Paths]

Init ==
  /\ status = [t \in Tasks |-> "none"]
  /\ slots = {}
  /\ pc = [t \in Tasks |-> "new"]
  /\ alive = {}
  /\ files = [d \in Worktrees |-> {}]
  /\ before = [t \in Tasks |-> {}]
  /\ patches = [t \in Tasks |-> {}]
  /\ original = [t \in Tasks |-> {}]
  /\ applied = [t \in Tasks |-> {}]

Goto(t, next) == pc' = [pc EXCEPT ![t] = next]

(* Ledger.transition: reads the status, refuses an edge that is not in the *)
(* table by raising, writes the new one.                                   *)
Transition(t, from, target, next, raised) ==
  /\ pc[t] = from
  /\ IF <<status[t], target>> \in Edges
       THEN status' = [status EXCEPT ![t] = target] /\ Goto(t, next)
       ELSE Goto(t, raised) /\ UNCHANGED status
  /\ UNCHANGED <<slots, worker>>

-----------------------------------------------------------------------------
(* run_task, before its try block: nobody handles what is raised here *)

(* assert_task_preflight: the worktree must be clean. *)
Preflight(t) ==
  /\ pc[t] = "new"
  /\ Goto(t, IF files[Tree[t]] = {} THEN "add" ELSE "ended")
  /\ UNCHANGED <<status, slots, worker>>

AddTask(t) ==
  /\ pc[t] = "add"
  /\ status' = [status EXCEPT ![t] = "queued"]
  /\ Goto(t, "prepare")
  /\ UNCHANGED <<slots, worker>>

Prepare(t) == Transition(t, "prepare", "preparing", "reserve", "ended")

(* Mutant: the limit itself is still admitted. *)
HasSlotOrOneMore(t) == Cardinality(slots) <= Limit[t]

HasSlot(t) == Cardinality(slots) < Limit[t]

(* reserve_slot; at the limit the controller gives up, its task stays      *)
(* "preparing".                                                            *)
ReserveSlot(t) ==
  /\ pc[t] = "reserve"
  /\ IF HasSlot(t) THEN slots' = slots \cup {t} /\ Goto(t, "lease")
                   ELSE Goto(t, "ended") /\ UNCHANGED slots
  /\ UNCHANGED <<status, worker>>

Lease(t) == Transition(t, "lease", "leased", "start", "ended")

-----------------------------------------------------------------------------
(* The try block *)

Start(t) == Transition(t, "start", "running", "snapshot", "handle")

Snapshot(t) ==
  /\ pc[t] = "snapshot"
  /\ before' = [before EXCEPT ![t] = files[Tree[t]]]
  /\ Goto(t, "launch")
  /\ UNCHANGED <<status, slots, alive, files, patches, original, applied>>

(* run_worker starts the process, unless the executable does not verify. *)
Launch(t) ==
  /\ pc[t] = "launch"
  /\ \/ alive' = alive \cup {t} /\ Goto(t, "working")
     \/ Goto(t, "handle") /\ UNCHANGED alive
  /\ UNCHANGED <<status, slots, tree>>

(* The worker has no tool to write files; the controller still checks that  *)
(* it wrote none.                                                          *)
WorkerTouches(t, path) ==
  /\ t \in alive
  /\ files' = [files EXCEPT ![Tree[t]] = @ \cup {path}]
  /\ UNCHANGED <<status, slots, pc, alive, before, patches, original, applied>>

(* run_worker returns when the process is gone: it ended, ran into its      *)
(* timeout or wrote too much and was killed.  A bad exit and an unreadable  *)
(* result raise.                                                           *)
WorkerFails(t) ==
  /\ pc[t] = "working"
  /\ alive' = alive \ {t}
  /\ Goto(t, "handle")
  /\ UNCHANGED <<status, slots, tree>>

WorkerReturns(t, returned) ==
  /\ pc[t] = "working"
  /\ alive' = alive \ {t}
  /\ patches' = [patches EXCEPT ![t] = returned]
  /\ Goto(t, "receive")
  /\ UNCHANGED <<status, slots, files, before, original, applied>>

ReceiveResult(t) == Transition(t, "receive", "result_received", "judge", "handle")

(* The status the worker reported about itself *)
Judge(t, reported) ==
  \/ reported = "completed" /\ Transition(t, "judge", "verifying", "check", "handle")
  \/ reported # "completed" /\ Transition(t, "judge", reported, "handle", "handle")

(* apply_file_patches up to its first write, and the refusal of patches by  *)
(* a read-only task.  All patches must be owned; then the worker's own     *)
(* digests decide: they match the files it found, or those it changed.     *)
CheckPatches(t) ==
  /\ pc[t] = "check"
  /\ original' = [original EXCEPT ![t] = files[Tree[t]]]
  /\ \/ patches[t] \subseteq Owned[t] /\ Goto(t, "apply")
     \/ Goto(t, "handle")
  /\ UNCHANGED <<status, slots, alive, files, before, patches, applied>>

WritePatch(t) ==
  /\ pc[t] = "apply"
  /\ \E path \in patches[t] \ applied[t] :
       /\ files' = [files EXCEPT ![Tree[t]] = @ \cup {path}]
       /\ applied' = [applied EXCEPT ![t] = @ \cup {path}]
  /\ UNCHANGED <<status, slots, pc, alive, before, patches, original>>

(* Writing a file fails: what was written is taken back. *)
WriteFails(t) ==
  /\ pc[t] = "apply" /\ applied[t] # patches[t]
  /\ Goto(t, "undo")
  /\ UNCHANGED <<status, slots, worker>>

Restored(t, path) == (files[Tree[t]] \ {path}) \cup (original[t] \cap {path})

(* Mutant: the file written last is not taken back. *)
UndoAllButOne(t) ==
  /\ pc[t] = "undo"
  /\ \/ Cardinality(applied[t]) <= 1 /\ Goto(t, "handle") /\ UNCHANGED <<files, applied>>
     \/ \E path \in applied[t] :
          /\ files' = [files EXCEPT ![Tree[t]] = Restored(t, path)]
          /\ applied' = [applied EXCEPT ![t] = @ \ {path}]
          /\ UNCHANGED pc
  /\ UNCHANGED <<status, slots, alive, before, patches, original>>

UndoPatch(t) ==
  /\ pc[t] = "undo"
  /\ \/ applied[t] = {} /\ Goto(t, "handle") /\ UNCHANGED <<files, applied>>
     \/ \E path \in applied[t] :
          /\ files' = [files EXCEPT ![Tree[t]] = Restored(t, path)]
          /\ applied' = [applied EXCEPT ![t] = @ \ {path}]
          /\ UNCHANGED pc
  /\ UNCHANGED <<status, slots, alive, before, patches, original>>

(* Taking a file back raises; the others are not tried. *)
UndoFails(t) ==
  /\ t \in Faulty /\ pc[t] = "undo" /\ applied[t] # {}
  /\ Goto(t, "handle")
  /\ UNCHANGED <<status, slots, worker>>

Applied(t) ==
  /\ pc[t] = "apply" /\ applied[t] = patches[t]
  /\ Goto(t, "compare")
  /\ UNCHANGED <<status, slots, worker>>

Changed(t) == {path \in Paths : (path \in before[t]) # (path \in files[Tree[t]])}

(* Mutant: changes beside the patches are accepted when they are owned. *)
VerifiedIfOwned(t) == Changed(t) \subseteq Owned[t]

(* verify_worktree_changes, and the comparison with the applied paths. *)
Verified(t) == Changed(t) \subseteq Owned[t] /\ Changed(t) = applied[t]

VerifyChanges(t) ==
  /\ pc[t] = "compare"
  /\ Goto(t, IF Verified(t) THEN "test" ELSE "handle")
  /\ UNCHANGED <<status, slots, worker>>

RunTests(t) ==
  /\ pc[t] = "test"
  /\ Goto(t, "pass") \/ Goto(t, "handle")
  /\ UNCHANGED <<status, slots, worker>>

Pass(t) == Transition(t, "pass", "passed", "release", "handle")

(* Mutant: a task with a status is left as it is. *)
HandleNothing(t) ==
  /\ pc[t] = "handle"
  /\ Goto(t, "release")
  /\ UNCHANGED <<status, slots, worker>>

(* The except clause: the task fails unless it already has an outcome. *)
Handle(t) ==
  /\ pc[t] = "handle"
  /\ status' = IF /\ status[t] \notin TerminalStatuses
                  /\ <<status[t], "failed">> \in Edges
                 THEN [status EXCEPT ![t] = "failed"] ELSE status
  /\ Goto(t, "release")
  /\ UNCHANGED <<slots, worker>>

ReleaseSlot(t) ==
  /\ pc[t] = "release"
  /\ slots' = slots \ {t}
  /\ Goto(t, "ended")
  /\ UNCHANGED <<status, worker>>

-----------------------------------------------------------------------------
(* Other processes *)

(* invalidate_legacy_task *)
Invalidate(t) ==
  /\ <<status[t], "invalidated">> \in Edges
  /\ status' = [status EXCEPT ![t] = "invalidated"]
  /\ UNCHANGED <<slots, pc, worker>>

(* The controller process is killed and its worker with it; the slot stays. *)
Die(t) ==
  /\ t \in Faulty /\ pc[t] \notin {"new", "ended", "dead"}
  /\ Goto(t, "dead")
  /\ alive' = alive \ {t}
  /\ UNCHANGED <<status, slots, tree>>

Work(t) == \/ WorkerFails(t)
           \/ \E returned \in SUBSET Paths : WorkerReturns(t, returned)

RunTask(t) ==
  \/ Preflight(t) \/ AddTask(t) \/ Prepare(t) \/ ReserveSlot(t) \/ Lease(t)
  \/ Start(t) \/ Snapshot(t) \/ Launch(t) \/ Work(t) \/ ReceiveResult(t)
  \/ \E reported \in {"completed", "blocked", "failed"} : Judge(t, reported)
  \/ CheckPatches(t) \/ WritePatch(t) \/ WriteFails(t) \/ UndoPatch(t)
  \/ UndoFails(t) \/ Applied(t)
  \/ VerifyChanges(t) \/ RunTests(t) \/ Pass(t) \/ Handle(t) \/ ReleaseSlot(t)

Next == \E t \in Tasks : \/ RunTask(t)
                         \/ Invalidate(t)
                         \/ Die(t)
                         \/ \E path \in Paths : WorkerTouches(t, path)

Spec == Init /\ [][Next]_vars

(* A controller runs on; its worker has a timeout. *)
Fairness == \A t \in Tasks \ Faulty : WF_vars(RunTask(t))

FairSpec == Spec /\ Fairness
-----------------------------------------------------------------------------
(* Properties *)

(* The number of Grok processes stays within the limit of the most generous *)
(* controller, however controllers with different limits, deaths and       *)
(* leftover slots interleave: a process runs only under a slot, and slots  *)
(* are counted in the transaction that takes one.                          *)
ProcessesWithinLimit ==
  \E t \in Tasks : Cardinality(slots \cup alive) <= Limit[t]

(* The ledger stays well formed, and its count of slots bounds the workers. *)
LedgerBoundsWorkers == TypeOK /\ ProcessesWithinLimit

(* A task passes only when its worktree holds the patches its worker        *)
(* returned, all of them owned by the task, and no other change: whatever  *)
(* the worker itself wrote is found.                                       *)
PassedIsVerified ==
  [][\A t \in Tasks :
       status[t] # "passed" /\ status'[t] = "passed" =>
          /\ files[Tree[t]] = patches[t]
          /\ patches[t] \subseteq Owned[t]]_vars

(* apply_file_patches returns with all patches written, or raises with the  *)
(* worktree as it found it, when writing any of the files fails.           *)
PatchesAllOrNothing ==
  [][\A t \in Tasks \ Faulty :
       /\ pc[t] \in {"apply", "undo"} /\ pc'[t] = "compare"
            => files[Tree[t]] = original[t] \cup patches[t]
       /\ pc[t] \in {"apply", "undo"} /\ pc'[t] = "handle"
            => files[Tree[t]] = original[t]]_vars

(* A controller that got a slot ends with its task decided and gives the    *)
(* slot back.                                                              *)
SlotIsReturned ==
  \A t \in Tasks \ Faulty :
     t \in slots ~> t \notin slots /\ status[t] \in TerminalStatuses
=============================================================================
