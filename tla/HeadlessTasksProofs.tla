------------------------- MODULE HeadlessTasksProofs -------------------------
(***************************************************************************)
(* Proofs about the headless orchestrator, for any number of tasks, files  *)
(* and controllers with any limits, with deaths anywhere: the ledger       *)
(* bounds the workers; and if every task has a worktree of its own, only   *)
(* verified patches pass, and a failed write takes back what was written.  *)
(***************************************************************************)
EXTENDS HeadlessTasks, FiniteSetTheorems, TLAPS

(* The statements of run_task after it got its slot. *)
Held == {"lease", "start", "snapshot", "launch", "working", "receive", "judge",
         "check", "apply", "undo", "compare", "test", "pass", "handle", "release"}

(* A worker runs only while its controller waits for it, ... *)
WorkersAwaited == \A t \in alive : pc[t] = "working"

(* ... a controller in its try block has its slot, ... *)
SlotHeld == \A t \in Tasks : pc[t] \in Held => t \in slots

(* ... and some controller has found room for all the slots there are. *)
SlotsCounted == slots = {} \/ \E t \in Tasks : Cardinality(slots) <= Limit[t]

LedgerInv == TypeOK /\ WorkersAwaited /\ SlotHeld /\ SlotsCounted

-----------------------------------------------------------------------------
(* Types *)

LEMMA TypeInit == Init => TypeOK
BY DEF Init, TypeOK, Status, Control

LEMMA TypeTransition ==
  ASSUME TypeOK, NEW t \in Tasks, NEW from, NEW target \in Status, NEW next \in Control,
         NEW raised \in Control, Transition(t, from, target, next, raised)
  PROVE  TypeOK'
BY DEF TypeOK, Transition, Goto, worker, tree

LEMMA TypeStep ==
  ASSUME TypeOK, [Next]_vars
  PROVE  TypeOK'
<1>1. CASE UNCHANGED vars
  BY <1>1 DEF TypeOK, vars, worker, tree
<1>2. ASSUME NEW t \in Tasks, RunTask(t)
      PROVE  TypeOK'
  <2> USE TasksAssumption
  <2>1. CASE Preflight(t)
    BY <2>1 DEF Preflight, TypeOK, Control, Goto, worker, tree
  <2>2. CASE AddTask(t)
    BY <2>2 DEF AddTask, TypeOK, Control, Status, Goto, worker, tree
  <2>3. CASE Prepare(t)
    BY <2>3, TypeTransition DEF Prepare, Control, Status
  <2>4. CASE ReserveSlot(t)
    BY <2>4 DEF ReserveSlot, TypeOK, Control, Goto, worker, tree
  <2>5. CASE Lease(t)
    BY <2>5, TypeTransition DEF Lease, Control, Status
  <2>6. CASE Start(t)
    BY <2>6, TypeTransition DEF Start, Control, Status
  <2>7. CASE Snapshot(t)
    BY <2>7 DEF Snapshot, TypeOK, Control, Goto
  <2>8. CASE Launch(t)
    BY <2>8 DEF Launch, TypeOK, Control, Goto, tree
  <2>9. CASE WorkerFails(t)
    BY <2>9 DEF WorkerFails, TypeOK, Control, Goto, tree
  <2>10. ASSUME NEW returned \in SUBSET Paths, WorkerReturns(t, returned)
         PROVE  TypeOK'
    BY <2>10 DEF WorkerReturns, TypeOK, Control, Goto
  <2>11. CASE ReceiveResult(t)
    BY <2>11, TypeTransition DEF ReceiveResult, Control, Status
  <2>12. ASSUME NEW reported \in {"completed", "blocked", "failed"}, Judge(t, reported)
         PROVE  TypeOK'
    <3>1. reported \in Status \/ reported = "completed"
      BY DEF Status, TerminalStatuses
    <3>2. {"handle", "check"} \subseteq Control /\ "verifying" \in Status
      BY DEF Control, Status
    <3>3. QED BY <2>12, <3>1, <3>2, TypeTransition DEF Judge
  <2>13. CASE CheckPatches(t)
    BY <2>13 DEF CheckPatches, TypeOK, Control, Goto
  <2>14. CASE WritePatch(t)
    BY <2>14 DEF WritePatch, TypeOK
  <2>15. CASE WriteFails(t) \/ UndoFails(t) \/ Applied(t)
    BY <2>15 DEF WriteFails, UndoFails, Applied, TypeOK, Control, Goto, worker, tree
  <2>16. CASE UndoPatch(t)
    BY <2>16 DEF UndoPatch, Restored, TypeOK, Control, Goto
  <2>17. CASE VerifyChanges(t) \/ RunTests(t)
    BY <2>17 DEF VerifyChanges, RunTests, TypeOK, Control, Goto, worker, tree
  <2>18. CASE Pass(t)
    BY <2>18, TypeTransition DEF Pass, Control, Status, TerminalStatuses
  <2>19. CASE Handle(t)
    BY <2>19 DEF Handle, TypeOK, Control, Status, TerminalStatuses, Goto, worker, tree
  <2>20. CASE ReleaseSlot(t)
    BY <2>20 DEF ReleaseSlot, TypeOK, Control, Goto, worker, tree
  <2>21. QED
    BY <1>2, <2>1, <2>2, <2>3, <2>4, <2>5, <2>6, <2>7, <2>8, <2>9, <2>10, <2>11, <2>12,
       <2>13, <2>14, <2>15, <2>16, <2>17, <2>18, <2>19, <2>20 DEF RunTask, Work
<1>3. ASSUME NEW t \in Tasks, Invalidate(t)
      PROVE  TypeOK'
  BY <1>3 DEF Invalidate, TypeOK, Status, TerminalStatuses, worker, tree
<1>4. ASSUME NEW t \in Tasks, Die(t)
      PROVE  TypeOK'
  BY <1>4 DEF Die, TypeOK, Control, Goto, tree
<1>5. ASSUME NEW t \in Tasks, NEW path \in Paths, WorkerTouches(t, path)
      PROVE  TypeOK'
  BY <1>5, TasksAssumption DEF WorkerTouches, TypeOK
<1>6. QED BY <1>1, <1>2, <1>3, <1>4, <1>5 DEF Next

-----------------------------------------------------------------------------
(* The ledger *)

LEMMA LedgerInit == Init => LedgerInv
BY TypeInit DEF Init, LedgerInv, WorkersAwaited, SlotHeld, SlotsCounted, Held

(* Steps of a controller that take no slot and start no worker. *)
LEMMA Proceeds ==
  ASSUME LedgerInv, NEW t \in Tasks, NEW next \in Control,
         pc' = [pc EXCEPT ![t] = next],
         UNCHANGED slots, alive' \subseteq alive,
         t \in alive' => next = "working",
         next \in Held => pc[t] \in Held
  PROVE  WorkersAwaited' /\ SlotHeld' /\ SlotsCounted'
BY DEF LedgerInv, TypeOK, WorkersAwaited, SlotHeld, SlotsCounted, Held

(* A controller that is elsewhere has no worker running. *)
LEMMA NoWorker ==
  ASSUME LedgerInv, NEW t \in Tasks, pc[t] # "working"
  PROVE  t \notin alive
BY DEF LedgerInv, WorkersAwaited

LEMMA LedgerTransition ==
  ASSUME LedgerInv, NEW t \in Tasks, NEW from \in Control \ {"working"}, NEW target,
         NEW next \in Control, NEW raised \in Control,
         {next, raised} \cap Held # {} => from \in Held,
         Transition(t, from, target, next, raised)
  PROVE  WorkersAwaited' /\ SlotHeld' /\ SlotsCounted'
<1>1. pc[t] = from /\ t \notin alive /\ UNCHANGED <<slots, alive>>
  BY NoWorker DEF Transition, worker
<1>2. PICK n \in {next, raised} : pc' = [pc EXCEPT ![t] = n]
  BY DEF Transition, Goto
<1>3. QED BY <1>1, <1>2, Proceeds

(* reserve_slot counts and inserts in one transaction. *)
LEMMA LedgerReserve ==
  ASSUME LedgerInv, NEW t \in Tasks, ReserveSlot(t)
  PROVE  WorkersAwaited' /\ SlotHeld' /\ SlotsCounted'
<1>1. t \notin alive /\ UNCHANGED alive
  BY NoWorker DEF ReserveSlot, worker
<1>2. CASE HasSlot(t)
  <2>1. slots' = slots \cup {t} /\ pc' = [pc EXCEPT ![t] = "lease"]
    BY <1>2 DEF ReserveSlot, Goto
  <2>2. IsFiniteSet(slots)
    BY TasksAssumption, FS_Subset DEF LedgerInv, TypeOK
  <2>3. Cardinality(slots') <= Limit[t]
    <3>1. Cardinality(slots) \in Nat
      BY <2>2, FS_CardinalityType
    <3>2. Limit[t] \in Nat
      BY TasksAssumption
    <3>3. Cardinality(slots') \in {Cardinality(slots), Cardinality(slots) + 1}
      BY <2>1, <2>2, FS_AddElement
    <3>4. QED BY <1>2, <3>1, <3>2, <3>3 DEF HasSlot
  <2>4. WorkersAwaited'
    BY <1>1, <2>1 DEF LedgerInv, TypeOK, WorkersAwaited
  <2>5. SlotHeld'
    BY <2>1 DEF LedgerInv, TypeOK, SlotHeld
  <2>6. SlotsCounted'
    BY <2>3 DEF SlotsCounted
  <2>7. QED BY <2>4, <2>5, <2>6
<1>3. CASE ~HasSlot(t)
  <2>1. UNCHANGED slots /\ pc' = [pc EXCEPT ![t] = "ended"]
    BY <1>3 DEF ReserveSlot, Goto
  <2>2. QED BY <1>1, <2>1, Proceeds DEF Control, Held
<1>4. QED BY <1>2, <1>3

LEMMA LedgerRelease ==
  ASSUME LedgerInv, NEW t \in Tasks, ReleaseSlot(t)
  PROVE  WorkersAwaited' /\ SlotHeld' /\ SlotsCounted'
<1>1. /\ t \notin alive /\ UNCHANGED alive
      /\ slots' = slots \ {t} /\ pc' = [pc EXCEPT ![t] = "ended"]
  BY NoWorker DEF ReleaseSlot, Goto, worker
<1>2. SlotsCounted'
  <2>1. IsFiniteSet(slots)
    BY TasksAssumption, FS_Subset DEF LedgerInv, TypeOK
  <2>2. Cardinality(slots') <= Cardinality(slots)
    BY <1>1, <2>1, FS_Subset
  <2>3. Cardinality(slots') \in Nat /\ Cardinality(slots) \in Nat
    BY <1>1, <2>1, FS_Subset, FS_CardinalityType
  <2>4. \A s \in Tasks : Limit[s] \in Nat
    BY TasksAssumption
  <2>5. QED BY <1>1, <2>2, <2>3, <2>4 DEF LedgerInv, SlotsCounted
<1>3. QED BY <1>1, <1>2 DEF LedgerInv, TypeOK, WorkersAwaited, SlotHeld, Held

LEMMA LedgerStep ==
  ASSUME LedgerInv, [Next]_vars
  PROVE  LedgerInv'
<1> SUFFICES WorkersAwaited' /\ SlotHeld' /\ SlotsCounted'
  BY TypeStep DEF LedgerInv
<1>1. CASE UNCHANGED vars
  BY <1>1 DEF LedgerInv, WorkersAwaited, SlotHeld, SlotsCounted, vars, worker
<1>2. ASSUME NEW t \in Tasks, RunTask(t)
      PROVE  WorkersAwaited' /\ SlotHeld' /\ SlotsCounted'
  <2>1. CASE Preflight(t) \/ AddTask(t) \/ Snapshot(t) \/ CheckPatches(t) \/ WriteFails(t)
             \/ UndoFails(t) \/ Applied(t) \/ VerifyChanges(t) \/ RunTests(t) \/ Handle(t)
    <3>1. /\ pc[t] # "working" /\ UNCHANGED <<slots, alive>>
          /\ \E next \in Control :
               /\ pc' = [pc EXCEPT ![t] = next]
               /\ next \in Held => pc[t] \in Held
      BY <2>1 DEF Preflight, AddTask, Snapshot, CheckPatches, WriteFails, UndoFails, Applied,
                  VerifyChanges, RunTests, Handle, Goto, Control, Held, worker
    <3>2. QED BY <3>1, NoWorker, Proceeds
  <2>2. CASE Prepare(t)
    BY <2>2, LedgerTransition DEF Prepare, Control, Held
  <2>3. CASE Lease(t)
    BY <2>3, LedgerTransition DEF Lease, Control, Held
  <2>4. CASE Start(t)
    BY <2>4, LedgerTransition DEF Start, Control, Held
  <2>5. CASE ReceiveResult(t)
    BY <2>5, LedgerTransition DEF ReceiveResult, Control, Held
  <2>6. ASSUME NEW reported \in {"completed", "blocked", "failed"}, Judge(t, reported)
        PROVE  WorkersAwaited' /\ SlotHeld' /\ SlotsCounted'
    BY <2>6, LedgerTransition DEF Judge, Control, Held
  <2>7. CASE Pass(t)
    BY <2>7, LedgerTransition DEF Pass, Control, Held
  <2>8. CASE ReserveSlot(t)
    BY <2>8, LedgerReserve
  <2>9. CASE Launch(t)
    BY <2>9 DEF Launch, LedgerInv, TypeOK, WorkersAwaited, SlotHeld, SlotsCounted, Held, Goto
  <2>10. CASE Work(t)
    <3>1. /\ pc[t] = "working" /\ UNCHANGED slots /\ alive' = alive \ {t}
          /\ \E next \in {"handle", "receive"} : pc' = [pc EXCEPT ![t] = next]
      BY <2>10 DEF Work, WorkerFails, WorkerReturns, Goto
    <3>2. QED BY <3>1, Proceeds DEF Control, Held
  <2>11. CASE WritePatch(t)
    BY <2>11 DEF WritePatch, LedgerInv, WorkersAwaited, SlotHeld, SlotsCounted
  <2>12. CASE UndoPatch(t)
    <3>1. CASE UNCHANGED pc
      BY <2>12, <3>1 DEF UndoPatch, LedgerInv, WorkersAwaited, SlotHeld, SlotsCounted
    <3>2. CASE pc' = [pc EXCEPT ![t] = "handle"]
      BY <2>12, <3>2, NoWorker, Proceeds DEF UndoPatch, Control, Held
    <3>3. QED BY <2>12, <3>1, <3>2 DEF UndoPatch, Goto
  <2>13. CASE ReleaseSlot(t)
    BY <2>13, LedgerRelease
  <2>14. QED
    BY <1>2, <2>1, <2>2, <2>3, <2>4, <2>5, <2>6, <2>7, <2>8, <2>9, <2>10, <2>11, <2>12, <2>13
    DEF RunTask
<1>3. ASSUME NEW t \in Tasks, Invalidate(t)
      PROVE  WorkersAwaited' /\ SlotHeld' /\ SlotsCounted'
  BY <1>3 DEF Invalidate, LedgerInv, WorkersAwaited, SlotHeld, SlotsCounted, worker
<1>4. ASSUME NEW t \in Tasks, Die(t)
      PROVE  WorkersAwaited' /\ SlotHeld' /\ SlotsCounted'
  BY <1>4, Proceeds DEF Die, Goto, Control, Held
<1>5. ASSUME NEW t \in Tasks, NEW path \in Paths, WorkerTouches(t, path)
      PROVE  WorkersAwaited' /\ SlotHeld' /\ SlotsCounted'
  BY <1>5 DEF WorkerTouches, LedgerInv, WorkersAwaited, SlotHeld, SlotsCounted
<1>6. QED BY <1>1, <1>2, <1>3, <1>4, <1>5 DEF Next

(* Whatever limits the controllers have and wherever they die, the ledger   *)
(* is well formed and bounds the number of workers: a process runs only     *)
(* under a slot, and slots are counted where they are taken.  (Without any  *)
(* task there is no limit to be within.)                                    *)
THEOREM WorkersAreBounded ==
  ASSUME Tasks # {}
  PROVE  Spec => []LedgerBoundsWorkers
<1>1. Init => LedgerInv
  BY LedgerInit
<1>2. LedgerInv /\ [Next]_vars => LedgerInv'
  BY LedgerStep
<1>3. LedgerInv => LedgerBoundsWorkers
  <2> SUFFICES ASSUME LedgerInv PROVE ProcessesWithinLimit
    BY DEF LedgerInv, LedgerBoundsWorkers
  <2>1. slots \cup alive = slots
    BY DEF LedgerInv, TypeOK, WorkersAwaited, SlotHeld, Held
  <2>2. \A t \in Tasks : 0 <= Limit[t]
    BY TasksAssumption
  <2>3. QED BY <2>1, <2>2, FS_EmptySet DEF LedgerInv, SlotsCounted, ProcessesWithinLimit
<1>4. QED BY <1>1, <1>2, <1>3, PTL DEF Spec

-----------------------------------------------------------------------------
(* The worktrees *)

(* Every task is given a worktree of its own. *)
OwnTrees == \A s, t \in Tasks : Tree[s] = Tree[t] => s = t

(* What is so of the worktree of task t and of its patches when its         *)
(* controller has come to a statement.                                     *)
Sound(t, at) ==
  /\ at \in {"add", "prepare", "reserve", "lease", "start", "snapshot"} => files[Tree[t]] = {}
  /\ at \in Control \ {"apply", "undo", "compare", "test", "pass", "handle", "release",
                        "ended", "dead"} => applied[t] = {}
  /\ at \in {"apply", "undo"} => files[Tree[t]] = original[t] \cup applied[t]
  /\ at \in {"apply", "compare", "test", "pass"} => patches[t] \subseteq Owned[t]
  /\ at = "compare" => applied[t] = patches[t]
  /\ at \in {"test", "pass"} => files[Tree[t]] = patches[t]

(* The snapshot before the launch finds the worktree as the preflight did. *)
TreeInv == \A t \in Tasks : before[t] = {} /\ Sound(t, pc[t])

IInv == LedgerInv /\ TreeInv

LEMMA TreeInit == Init => TreeInv
BY TasksAssumption DEF Init, TreeInv, Sound

(* A step of the controller of t that changes no file and no patch. *)
LEMMA Moves ==
  ASSUME TypeOK, TreeInv, NEW t \in Tasks, NEW next,
         pc' = [pc EXCEPT ![t] = next], UNCHANGED tree, Sound(t, next)
  PROVE  TreeInv'
<1> SUFFICES ASSUME NEW s \in Tasks
             PROVE  before'[s] = {} /\ Sound(s, pc[s])'
  BY DEF TreeInv
<1>1. before'[s] = {} /\ Sound(s, pc[s])
  BY DEF TreeInv, tree
<1>2. CASE s = t
  BY <1>1, <1>2 DEF Sound, TypeOK, tree
<1>3. CASE s # t
  BY <1>1, <1>3 DEF Sound, TypeOK, tree
<1>4. QED BY <1>2, <1>3

(* A step that concerns task t and its worktree only. *)
LEMMA OthersStay ==
  ASSUME TypeOK, OwnTrees, TreeInv, NEW t \in Tasks,
         \A s \in Tasks \ {t} : /\ pc'[s] = pc[s] /\ before'[s] = before[s]
                                /\ patches'[s] = patches[s] /\ original'[s] = original[s]
                                /\ applied'[s] = applied[s],
         \A d \in Worktrees \ {Tree[t]} : files'[d] = files[d],
         before'[t] = {}, Sound(t, pc[t])'
  PROVE  TreeInv'
<1> SUFFICES ASSUME NEW s \in Tasks \ {t}
             PROVE  before'[s] = {} /\ Sound(s, pc[s])'
  BY DEF TreeInv
<1>1. Tree[s] \in Worktrees \ {Tree[t]}
  BY TasksAssumption DEF OwnTrees
<1>2. before[s] = {} /\ Sound(s, pc[s])
  BY DEF TreeInv
<1>3. QED BY <1>1, <1>2 DEF Sound

LEMMA TreeStep ==
  ASSUME OwnTrees, IInv, [Next]_vars
  PROVE  TreeInv'
<1> USE TasksAssumption
<1>1. CASE UNCHANGED vars
  BY <1>1 DEF IInv, TreeInv, Sound, vars, worker, tree
<1>2. ASSUME NEW t \in Tasks, RunTask(t)
      PROVE  TreeInv'
  <2>a. TypeOK /\ TreeInv /\ before[t] = {} /\ Sound(t, pc[t])
    BY DEF IInv, LedgerInv, TreeInv
  <2>b. Tree[t] \in Worktrees
    OBVIOUS
  <2>1. CASE Preflight(t) \/ AddTask(t) \/ Prepare(t) \/ ReserveSlot(t) \/ Lease(t) \/ Start(t)
    <3>1. UNCHANGED tree /\ applied[t] = {}
      BY <2>1, <2>a DEF Preflight, AddTask, Prepare, ReserveSlot, Lease, Start, Transition, Goto,
                        Sound, Control, worker
    <3>2. PICK next \in {"add", "prepare", "reserve", "lease", "start", "snapshot", "handle", "ended"} :
            /\ pc' = [pc EXCEPT ![t] = next]
            /\ next \in {"handle", "ended"} \/ files[Tree[t]] = {}
      <4>1. CASE Preflight(t)
        BY <4>1 DEF Preflight, Goto
      <4>2. CASE AddTask(t) \/ Prepare(t) \/ ReserveSlot(t)
        BY <4>2, <2>a DEF AddTask, Prepare, ReserveSlot, Transition, Goto, Sound
      <4>3. CASE Lease(t) \/ Start(t)
        BY <4>3, <2>a DEF Lease, Start, Transition, Goto, Sound
      <4>4. QED BY <2>1, <4>1, <4>2, <4>3
    <3>3. Sound(t, next)
      BY <3>1, <3>2 DEF Sound
    <3>4. QED BY <3>1, <3>2, <3>3, <2>a, Moves
  <2>2. CASE Snapshot(t)
    <3>1. before'[t] = {} /\ Sound(t, pc[t])'
      BY <2>2, <2>a, <2>b DEF Snapshot, Goto, TypeOK, Sound, Control
    <3>2. QED BY <3>1, <2>2, <2>a, OthersStay DEF Snapshot, Goto, TypeOK, IInv
  <2>3. CASE Launch(t) \/ WorkerFails(t) \/ ReceiveResult(t)
    <3>1. /\ UNCHANGED tree
          /\ \E next : pc' = [pc EXCEPT ![t] = next] /\ Sound(t, next)
      BY <2>3, <2>a DEF Launch, WorkerFails, ReceiveResult, Transition, Goto, Sound, Control, worker
    <3>2. QED BY <3>1, <2>a, Moves
  <2>4. ASSUME NEW returned \in SUBSET Paths, WorkerReturns(t, returned)
        PROVE  TreeInv'
    <3>1. before'[t] = {} /\ Sound(t, pc[t])'
      BY <2>4, <2>a DEF WorkerReturns, Goto, TypeOK, Sound, Control
    <3>2. QED BY <3>1, <2>4, <2>a, OthersStay DEF WorkerReturns, Goto, TypeOK, IInv
  <2>5. ASSUME NEW reported \in {"completed", "blocked", "failed"}, Judge(t, reported)
        PROVE  TreeInv'
    <3>1. /\ UNCHANGED tree
          /\ \E next \in {"check", "handle"} : pc' = [pc EXCEPT ![t] = next] /\ Sound(t, next)
      BY <2>5, <2>a DEF Judge, Transition, Goto, Sound, Control, worker
    <3>2. QED BY <3>1, <2>a, Moves
  <2>6. CASE CheckPatches(t)
    <3>1. before'[t] = {} /\ Sound(t, pc[t])'
      BY <2>6, <2>a, <2>b DEF CheckPatches, Goto, TypeOK, Sound, Control
    <3>2. QED BY <3>1, <2>6, <2>a, OthersStay DEF CheckPatches, Goto, TypeOK, IInv
  <2>7. CASE WritePatch(t)
    <3>1. before'[t] = {} /\ Sound(t, pc[t])'
      BY <2>7, <2>a, <2>b DEF WritePatch, TypeOK, Sound, Control
    <3>2. QED BY <3>1, <2>7, <2>a, OthersStay DEF WritePatch, TypeOK, IInv
  <2>8. CASE WriteFails(t) \/ UndoFails(t) \/ Applied(t) \/ VerifyChanges(t)
    <3>1. /\ UNCHANGED tree
          /\ \E next : pc' = [pc EXCEPT ![t] = next] /\ Sound(t, next)
      <4>1. Changed(t) = files[Tree[t]]
        BY <2>a, <2>b DEF Changed, TypeOK
      <4>2. CASE WriteFails(t) \/ UndoFails(t)
        <5>1. /\ UNCHANGED tree /\ pc[t] \in {"apply", "undo"}
              /\ Goto(t, "handle") \/ (pc[t] = "apply" /\ Goto(t, "undo"))
          BY <4>2 DEF WriteFails, UndoFails, worker, tree
        <5>2. Sound(t, "handle") /\ (pc[t] = "apply" => Sound(t, "undo"))
          BY <5>1, <2>a DEF Sound, Control
        <5>3. QED BY <5>1, <5>2 DEF Goto
      <4>3. CASE Applied(t)
        <5>1. UNCHANGED tree /\ pc[t] = "apply" /\ applied[t] = patches[t] /\ Goto(t, "compare")
          BY <4>3 DEF Applied, worker, tree
        <5>2. Sound(t, "compare")
          BY <5>1, <2>a DEF Sound, Control
        <5>3. QED BY <5>1, <5>2 DEF Goto
      <4>4. CASE VerifyChanges(t)
        <5>1. /\ UNCHANGED tree /\ pc[t] = "compare"
              /\ Goto(t, "handle") \/ (Goto(t, "test") /\ Changed(t) = applied[t])
          BY <4>4 DEF VerifyChanges, Verified, worker, tree
        <5>2. Sound(t, "handle") /\ (Changed(t) = applied[t] => Sound(t, "test"))
          BY <5>1, <4>1, <2>a DEF Sound, Control
        <5>3. QED BY <5>1, <5>2 DEF Goto
      <4>5. QED BY <2>8, <4>2, <4>3, <4>4
    <3>2. QED BY <3>1, <2>a, Moves
  <2>9. CASE UndoPatch(t)
    <3>1. CASE applied[t] = {} /\ Goto(t, "handle") /\ UNCHANGED <<files, applied>>
      <4>1. UNCHANGED tree /\ pc' = [pc EXCEPT ![t] = "handle"] /\ Sound(t, "handle")
        BY <2>9, <3>1 DEF UndoPatch, Goto, Sound, Control, tree
      <4>2. QED BY <4>1, <2>a, Moves
    <3>2. ASSUME NEW path \in applied[t],
                 files' = [files EXCEPT ![Tree[t]] = Restored(t, path)],
                 applied' = [applied EXCEPT ![t] = @ \ {path}],
                 UNCHANGED pc
          PROVE  TreeInv'
      <4>1. files[Tree[t]] = original[t] \cup applied[t] /\ pc[t] = "undo"
        BY <2>9, <2>a DEF UndoPatch, Sound
      <4>2. files'[Tree[t]] = original[t] \cup (applied[t] \ {path})
        BY <4>1, <3>2, <2>a, <2>b DEF Restored, TypeOK
      <4>3. before'[t] = {} /\ Sound(t, pc[t])'
        BY <4>1, <4>2, <3>2, <2>9, <2>a DEF UndoPatch, TypeOK, Sound, Control
      <4>4. QED BY <4>3, <3>2, <2>9, <2>a, OthersStay DEF UndoPatch, TypeOK, IInv
    <3>3. QED BY <2>9, <3>1, <3>2 DEF UndoPatch
  <2>10. CASE RunTests(t) \/ Pass(t) \/ Handle(t) \/ ReleaseSlot(t)
    <3>1. /\ UNCHANGED tree
          /\ \E next : pc' = [pc EXCEPT ![t] = next] /\ Sound(t, next)
      BY <2>10, <2>a DEF RunTests, Pass, Handle, ReleaseSlot, Transition, Goto, Sound, Control, worker
    <3>2. QED BY <3>1, <2>a, Moves
  <2>11. QED
    BY <1>2, <2>1, <2>2, <2>3, <2>4, <2>5, <2>6, <2>7, <2>8, <2>9, <2>10 DEF RunTask, Work
<1>3. ASSUME NEW t \in Tasks, Invalidate(t)
      PROVE  TreeInv'
  BY <1>3 DEF Invalidate, IInv, TreeInv, Sound, worker, tree
<1>4. ASSUME NEW t \in Tasks, Die(t)
      PROVE  TreeInv'
  BY <1>4, Moves DEF Die, Goto, Sound, Control, IInv, LedgerInv
<1>5. ASSUME NEW t \in Tasks, NEW path \in Paths, WorkerTouches(t, path)
      PROVE  TreeInv'
  <2>1. pc[t] = "working" /\ TypeOK /\ TreeInv
    BY <1>5 DEF WorkerTouches, IInv, LedgerInv, WorkersAwaited
  <2>2. before'[t] = {} /\ Sound(t, pc[t])'
    BY <2>1, <1>5 DEF WorkerTouches, TreeInv, Sound, Control
  <2>3. QED BY <2>1, <2>2, <1>5, OthersStay DEF WorkerTouches, TypeOK
<1>6. QED BY <1>1, <1>2, <1>3, <1>4, <1>5 DEF Next

LEMMA TreesAreSound ==
  ASSUME OwnTrees
  PROVE  Spec => []IInv
<1>1. Init => IInv
  BY LedgerInit, TreeInit DEF IInv
<1>2. IInv /\ [Next]_vars => IInv'
  BY LedgerStep, TreeStep DEF IInv
<1>3. QED BY <1>1, <1>2, PTL DEF Spec

(* Only the last statement of the try block lets a task pass. *)
LEMMA OnlyPassPasses ==
  ASSUME TypeOK, [Next]_vars, NEW t \in Tasks, status[t] # "passed", status'[t] = "passed"
  PROVE  Pass(t)
<1>1. \A s \in Tasks : \A from, target, next, raised :
        Transition(s, from, target, next, raised) /\ target # "passed" => status'[t] # "passed"
  BY DEF Transition, TypeOK
<1>2. PICK s \in Tasks : \/ RunTask(s)
                         \/ Invalidate(s)
                         \/ Die(s)
                         \/ \E path \in Paths : WorkerTouches(s, path)
  BY DEF Next, vars
<1>3. ~Invalidate(s) /\ ~Die(s) /\ ~(\E path \in Paths : WorkerTouches(s, path))
  BY DEF Invalidate, Die, WorkerTouches, TypeOK
<1>4. ~Prepare(s) /\ ~Lease(s) /\ ~Start(s) /\ ~ReceiveResult(s)
  BY <1>1 DEF Prepare, Lease, Start, ReceiveResult
<1>5. \A reported \in {"completed", "blocked", "failed"} : ~Judge(s, reported)
  BY <1>1 DEF Judge
<1>6. ~AddTask(s) /\ ~Handle(s)
  BY DEF AddTask, Handle, TypeOK
<1>7. ~Preflight(s) /\ ~ReserveSlot(s) /\ ~Snapshot(s) /\ ~Launch(s) /\ ~Work(s)
  BY DEF Preflight, ReserveSlot, Snapshot, Launch, Work, WorkerFails, WorkerReturns
<1>8. ~CheckPatches(s) /\ ~WritePatch(s) /\ ~WriteFails(s) /\ ~UndoPatch(s) /\ ~UndoFails(s)
      /\ ~Applied(s) /\ ~VerifyChanges(s) /\ ~RunTests(s) /\ ~ReleaseSlot(s)
  BY DEF CheckPatches, WritePatch, WriteFails, UndoPatch, UndoFails, Applied, VerifyChanges,
         RunTests, ReleaseSlot
<1>9. Pass(s)
  BY <1>2, <1>3, <1>4, <1>5, <1>6, <1>7, <1>8 DEF RunTask
<1>10. QED BY <1>9 DEF Pass, Transition, TypeOK

(* If every task has a worktree of its own, then whatever workers write,    *)
(* report and return, and wherever controllers die, a task passes only     *)
(* with its worktree changed by its patches and nothing else, all of them  *)
(* owned: verify_worktree_changes compares both sets before the tests run. *)
THEOREM PassedTasksAreVerified ==
  ASSUME OwnTrees
  PROVE  Spec => PassedIsVerified
<1>1. IInv /\ [Next]_vars
        => [\A t \in Tasks :
              status[t] # "passed" /\ status'[t] = "passed" =>
                 /\ files[Tree[t]] = patches[t]
                 /\ patches[t] \subseteq Owned[t]]_vars
  <2> SUFFICES ASSUME IInv, [Next]_vars, NEW t \in Tasks,
                      status[t] # "passed", status'[t] = "passed"
               PROVE  files[Tree[t]] = patches[t] /\ patches[t] \subseteq Owned[t]
    OBVIOUS
  <2>1. pc[t] = "pass"
    BY OnlyPassPasses DEF Pass, Transition, IInv, LedgerInv
  <2>2. QED BY <2>1 DEF IInv, TreeInv, Sound
<1>2. QED BY <1>1, TreesAreSound, PTL DEF Spec, PassedIsVerified

(* If every task has a worktree of its own, apply_file_patches writes all   *)
(* patches or leaves the worktree as it found it, at whichever file a      *)
(* write fails, unless taking a file back fails too.                       *)
THEOREM PatchesAreAtomic ==
  ASSUME OwnTrees
  PROVE  Spec => PatchesAllOrNothing
<1>1. IInv /\ [Next]_vars
        => [\A t \in Tasks \ Faulty :
              /\ pc[t] \in {"apply", "undo"} /\ pc'[t] = "compare"
                   => files[Tree[t]] = original[t] \cup patches[t]
              /\ pc[t] \in {"apply", "undo"} /\ pc'[t] = "handle"
                   => files[Tree[t]] = original[t]]_vars
  <2> SUFFICES ASSUME IInv, [Next]_vars, NEW t \in Tasks \ Faulty,
                      pc[t] \in {"apply", "undo"}, pc'[t] \in {"compare", "handle"}
               PROVE  /\ pc'[t] = "compare" => files[Tree[t]] = original[t] \cup patches[t]
                      /\ pc'[t] = "handle" => files[Tree[t]] = original[t]
    BY TasksAssumption
  <2>1. files[Tree[t]] = original[t] \cup applied[t]
    BY DEF IInv, TreeInv, Sound
  <2>2. \/ Applied(t)
        \/ UndoPatch(t) /\ applied[t] = {} /\ pc'[t] = "handle"
    <3>1. PICK s \in Tasks : \/ RunTask(s)
                             \/ Invalidate(s)
                             \/ Die(s)
                             \/ \E path \in Paths : WorkerTouches(s, path)
      BY DEF Next, vars
    <3>2. s = t
      BY <3>1 DEF RunTask, Preflight, AddTask, Prepare, ReserveSlot, Lease, Start, Snapshot, Launch,
                  Work, WorkerFails, WorkerReturns, ReceiveResult, Judge, CheckPatches, WritePatch,
                  WriteFails, UndoPatch, UndoFails, Applied, VerifyChanges, RunTests, Pass, Handle,
                  ReleaseSlot, Transition, Goto, Invalidate, Die, WorkerTouches,
                  IInv, LedgerInv, TypeOK
    <3>3. QED
      BY <3>1, <3>2 DEF RunTask, Preflight, AddTask, Prepare, ReserveSlot, Lease, Start, Snapshot, Launch,
                  Work, WorkerFails, WorkerReturns, ReceiveResult, Judge, CheckPatches, WritePatch,
                  WriteFails, UndoPatch, UndoFails, Applied, VerifyChanges, RunTests, Pass, Handle,
                  ReleaseSlot, Transition, Goto, Invalidate, Die, WorkerTouches,
                  IInv, LedgerInv, TypeOK
  <2>3. CASE Applied(t)
    BY <2>1, <2>3 DEF Applied, Goto, IInv, LedgerInv, TypeOK
  <2>4. CASE UndoPatch(t) /\ applied[t] = {} /\ pc'[t] = "handle"
    BY <2>1, <2>4
  <2>5. QED BY <2>2, <2>3, <2>4
<1>2. QED BY <1>1, TreesAreSound, PTL DEF Spec, PatchesAllOrNothing
=============================================================================
