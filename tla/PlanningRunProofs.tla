-------------------------- MODULE PlanningRunProofs --------------------------
(***************************************************************************)
(* Proofs about the planning run, for any number of API processes, users,  *)
(* steps, repairs, escalations and claims, with deaths and cancels         *)
(* anywhere, as long as no lease expires under its worker: what the        *)
(* database says of a run fits together, only the holder of the lease      *)
(* publishes, and a run that has ended stays so.                           *)
(*                                                                         *)
(* The core of the argument: a claim needs a run without a live lease, and *)
(* the lease of a worker lives, so there is never more than one worker.    *)
(* Everything that happens between its reads and its writes is a cancel.   *)
(***************************************************************************)
EXTENDS PlanningRun, SequenceTheorems, TLAPS

(* Where a worker is past its first look, and where it executes a step. *)
Invoking == {"loop", "call", "invoking", "returned", "settle"}
Stepping == {"scan", "step"} \cup Invoking
Begun == Stepping \cup {"publish", "completing", "failing", "unrecorded"}

-----------------------------------------------------------------------------
(* The lease *)

(* A row has its token and its expiry together, and it runs under a token. *)
WellFormed(row) ==
  /\ row.token = NoToken <=> row.lease = "none"
  /\ row.status = "pending" => row.token = NoToken
  /\ row.status = "running" => row.token # NoToken

RowsWellFormed == WellFormed(run) /\ \A s \in Sessions : WellFormed(copy[s].run)

OneWorker == \A p, q \in Processes : pc[p] # "idle" /\ pc[q] # "idle" => p = q

(* Its run may be canceled, but nobody else completes, fails or claims it. *)
WorkerHasLease ==
  \A p \in Processes :
    /\ token[p] = NoToken <=> pc[p] = "idle"
    /\ pc[p] # "idle" => /\ run.status \in {"running", "canceled"}
                         /\ run.token \in {token[p], NoToken}
                         /\ run.lease \in {"live", "none"}
    /\ pc[p] \in Begun => copy[p].run.status \in {"running", "canceled"}

CancelSawItGoing ==
  \A u \in Users : pc[u] = "canceling" => copy[u].run.status \notin RunTerminal

LeaseInv == /\ RowsWellFormed /\ OneWorker /\ WorkerHasLease /\ CancelSawItGoing
            /\ EndedReleasesLease

-----------------------------------------------------------------------------
(* The steps *)

Unstarted(i) == steps[i] \in {<<"pending">>, <<"canceled">>}

(* The head attempt of index i is done. *)
Passed(i) == steps[i][Len(steps[i])] \notin {"pending", "running"}

(* Since these steps were read, some of them may have been canceled. *)
OnlyCanceled(old) ==
  \A i \in Steps : /\ Len(steps[i]) = Len(old[i])
                   /\ \A k \in 1..Len(steps[i]) : steps[i][k] \in {old[i][k], "canceled"}

HeadsExist == \A i \in Steps : Len(steps[i]) >= 1

(* What a worker knows at each of its statements. *)
Informed(p) ==
  /\ pc[p] \in {"idle", "claimed"} => at[p] = 1
  /\ pc[p] \in {"step", "call", "settle"} => OnlyCanceled(copy[p].steps)
  /\ pc[p] \in {"step"} \cup Invoking => at[p] \in Steps
  /\ pc[p] \in Stepping \cup {"publish", "completing"} =>
       \A i \in Steps : i < at[p] => Passed(i)
  /\ pc[p] \in Stepping => \A i \in Steps : i > at[p] => plan[p][i] = Len(steps[i])
  /\ pc[p] \in {"scan", "step"} /\ at[p] \in Steps => plan[p][at[p]] = Len(steps[at[p]])
  /\ pc[p] = "step" /\ copy[p].steps[at[p]][plan[p][at[p]]] \in {"pending", "running"} =>
       \A j \in Steps : j = at[p] + 1 => Unstarted(j)
  /\ pc[p] \in Invoking => /\ attempt[p] = Len(steps[at[p]])
                           /\ \A j \in Steps : j = at[p] + 1 => Unstarted(j)
  /\ pc[p] \in {"publish", "completing"} => at[p] = NumSteps + 1
  /\ pc[p] = "completing" => proposals > 0

StepInv == /\ HeadsExist /\ OneActiveAttempt /\ StepsInOrder /\ CompletedIsDone
           /\ \A p \in Processes : Informed(p)

-----------------------------------------------------------------------------
(* The attempts *)

(* What the claims so far may have escalated, and the repairs so far. *)
Affordable == 1 + Ladder * run.execution_attempt + run.repair_used

(* A worker has its own escalations left for the index it is at and those   *)
(* to come.                                                                *)
Frugal(p) ==
  /\ pc[p] \in {"claimed"} \cup Stepping =>
       \A i \in Steps : i > at[p] => Len(steps[i]) + Ladder <= Affordable
  /\ pc[p] \in {"claimed", "scan", "step"} /\ at[p] \in Steps =>
       Len(steps[at[p]]) + Ladder <= Affordable
  /\ pc[p] \in Invoking => Len(steps[at[p]]) + Ladder <= Affordable + climbed[p]
  /\ pc[p] = "settle" => copy[p].run.repair_used = run.repair_used

CountInv == /\ run.repair_used <= RepairBudget
            /\ \A i \in Steps : Len(steps[i]) <= Affordable
            /\ \A p \in Processes : Frugal(p)

IInv == TypeOK /\ LeaseInv /\ StepInv /\ CountInv

-----------------------------------------------------------------------------
(* Rows *)

LEMMA Terminal ==
  /\ RunTerminal = {"completed", "failed", "canceled"}
  /\ StepTerminal = {"completed", "failed", "canceled", "skipped"}
BY DEF RunTerminal, StepTerminal, RunTransitions, StepTransitions, RunStatus, StepStatus

(* A row as a function of its columns. *)
LEMMA Columns ==
  ASSUME NEW row
  PROVE  row \in Run <=>
           /\ row = [c \in {"status", "token", "lease", "execution_attempt", "repair_used"} |-> row[c]]
           /\ row.status \in RunStatus
           /\ row.token \in Nat
           /\ row.lease \in {"none", "live", "expired"}
           /\ row.execution_attempt \in Nat
           /\ row.repair_used \in Nat
BY DEF Run

LEMMA FlushWrites ==
  ASSUME run \in Run, NEW loaded \in Run, NEW new \in Run, FlushRun(loaded, new)
  PROVE  /\ run' \in Run
         /\ run'.status = IF new.status # loaded.status THEN new.status ELSE run.status
         /\ run'.token = IF new.token # loaded.token THEN new.token ELSE run.token
         /\ run'.lease = IF new.lease # loaded.lease THEN new.lease ELSE run.lease
         /\ run'.execution_attempt = IF new.execution_attempt # loaded.execution_attempt
                                       THEN new.execution_attempt ELSE run.execution_attempt
         /\ run'.repair_used = IF new.repair_used # loaded.repair_used
                                 THEN new.repair_used ELSE run.repair_used
<1>1. DOMAIN run = {"status", "token", "lease", "execution_attempt", "repair_used"}
  BY Columns
<1>2. QED BY <1>1, Columns DEF FlushRun

(* Ending a run that was seen going: the status is written; the lease is    *)
(* cleared if one was seen, and else left alone.                           *)
LEMMA EndWrites ==
  ASSUME run \in Run, NEW seen \in Run, WellFormed(seen), seen.status \notin RunTerminal,
         NEW end \in {"completed", "failed", "canceled"}, FlushRun(seen, Ended(seen, end))
  PROVE  /\ run' \in Run
         /\ run'.status = end
         /\ \/ seen.token # NoToken /\ run'.token = NoToken /\ run'.lease = "none"
            \/ seen.token = NoToken /\ run'.token = run.token /\ run'.lease = run.lease
         /\ run'.execution_attempt = run.execution_attempt
         /\ run'.repair_used = run.repair_used
<1> DEFINE new == Ended(seen, end)
<1>1. /\ new \in Run
      /\ new.status = end /\ new.token = NoToken /\ new.lease = "none"
      /\ new.execution_attempt = seen.execution_attempt /\ new.repair_used = seen.repair_used
  BY DEF Ended, Run, RunStatus, NoToken
<1>2. seen.status # end
  BY Terminal
<1>3. seen.token = NoToken <=> seen.lease = "none"
  BY DEF WellFormed
<1>4. FlushRun(seen, new)
  OBVIOUS
<1> HIDE DEF new
<1>5. QED BY <1>1, <1>2, <1>3, <1>4, FlushWrites

-----------------------------------------------------------------------------
(* Types *)

StoredOK ==
  /\ run \in Run
  /\ steps \in [Steps -> Seq(StepStatus)]
  /\ invocations \subseteq [step : Steps, attempt : Nat \ {0}, repairing : BOOLEAN,
                            status : InvocationStatus]
  /\ proposals \in Nat
  /\ contextChanged \in BOOLEAN

LocalOK ==
  /\ pc \in [Sessions -> Control]
  /\ copy \in [Sessions -> Database]
  /\ token \in [Processes -> Nat]
  /\ at \in [Processes -> 1..NumSteps + 1]
  /\ attempt \in [Processes -> Nat]
  /\ climbed \in [Processes -> 0..Ladder]
  /\ spent \in [Processes -> Nat]
  /\ plan \in [Processes -> [Steps -> Nat]]
  /\ repairing \in [Processes -> BOOLEAN]
  /\ outcome \in [Processes -> {"none", "ok", "bad", "transport"}]

LEMMA TypeParts == TypeOK <=> StoredOK /\ LocalOK
BY DEF TypeOK, StoredOK, LocalOK

LEMMA NewTyped == NewRun \in Run /\ NewSteps \in [Steps -> Seq(StepStatus)]
<1>1. "pending" \in StepStatus /\ "pending" \in RunStatus
  BY DEF StepStatus, RunStatus
<1>2. QED BY <1>1 DEF NewRun, NewSteps, Run, NoToken

LEMMA ViewsTyped ==
  ASSUME TypeOK, NEW s \in Sessions, NEW view \in Views(s)
  PROVE  /\ view \in Database
         /\ view.run \in Run
         /\ view.steps \in [Steps -> Seq(StepStatus)]
BY DEF TypeOK, Views, Now, Database

LEMMA TypeInit == Init => TypeOK
<1> SUFFICES ASSUME Init PROVE TypeOK
  OBVIOUS
<1>1. StoredOK
  BY NewTyped DEF Init, StoredOK
<1>2. [run |-> NewRun, steps |-> NewSteps] \in Database
  BY NewTyped DEF Database
<1>3. LocalOK
  BY <1>2, CountsAssumption DEF Init, LocalOK, Control, Sessions, NoToken, Steps
<1>4. QED BY <1>1, <1>3, TypeParts

(* Writing one attempt leaves the others alone. *)
LEMMA EntryWritten ==
  ASSUME steps \in [Steps -> Seq(StepStatus)], NEW i \in Steps, NEW k, NEW st \in StepStatus,
         steps' = [steps EXCEPT ![i][k] = st]
  PROVE  /\ steps' \in [Steps -> Seq(StepStatus)]
         /\ \A j \in Steps : Len(steps'[j]) = Len(steps[j])
         /\ \A j \in Steps \ {i} : steps'[j] = steps[j]
         /\ \A l \in 1..Len(steps[i]) : steps'[i][l] = IF l = k THEN st ELSE steps[i][l]
<1>1. steps[i] \in [1..Len(steps[i]) -> StepStatus] /\ Len(steps[i]) \in Nat
  BY LenProperties
<1> DEFINE new == [steps[i] EXCEPT ![k] = st]
<1>2. new \in [1..Len(steps[i]) -> StepStatus]
  BY <1>1
<1>3. new \in Seq(StepStatus)
  BY <1>1, <1>2, SeqDef
<1>4. Len(new) = Len(steps[i])
  BY <1>1, <1>2, <1>3, LenProperties
<1>5. \A l \in 1..Len(steps[i]) : new[l] = IF l = k THEN st ELSE steps[i][l]
  BY <1>1
<1>6. steps' = [steps EXCEPT ![i] = new]
  OBVIOUS
<1> HIDE DEF new
<1>7. QED BY <1>3, <1>4, <1>5, <1>6

(* Canceling attempts leaves the others alone. *)
LEMMA StepsCanceled ==
  ASSUME TypeOK, NEW u \in Users, CancelCommit(u)
  PROVE  /\ steps' \in [Steps -> Seq(StepStatus)]
         /\ \A i \in Steps : /\ Len(steps'[i]) = Len(steps[i])
                             /\ \A k \in 1..Len(steps[i]) :
                                  steps'[i][k] \in {steps[i][k], "canceled"}
<1> DEFINE seen == copy[u]
           new(i) == [k \in DOMAIN steps[i] |->
                        IF k \in DOMAIN seen.steps[i] /\ seen.steps[i][k] \notin StepTerminal
                          THEN "canceled" ELSE steps[i][k]]
<1>1. steps' = [i \in Steps |-> new(i)]
  BY DEF CancelCommit
<1>2. ASSUME NEW i \in Steps
      PROVE  /\ new(i) \in Seq(StepStatus)
             /\ Len(new(i)) = Len(steps[i])
             /\ \A k \in 1..Len(steps[i]) : new(i)[k] \in {steps[i][k], "canceled"}
  <2>1. /\ steps[i] \in [1..Len(steps[i]) -> StepStatus] /\ Len(steps[i]) \in Nat
        /\ DOMAIN steps[i] = 1..Len(steps[i])
    BY LenProperties DEF TypeOK
  <2>2. "canceled" \in StepStatus
    BY DEF StepStatus, RunStatus
  <2>3. new(i) \in [1..Len(steps[i]) -> StepStatus]
    BY <2>1, <2>2
  <2>4. new(i) \in Seq(StepStatus)
    BY <2>1, <2>3, SeqDef
  <2>5. Len(new(i)) = Len(steps[i])
    BY <2>1, <2>3, <2>4, LenProperties
  <2>6. QED BY <2>1, <2>4, <2>5
<1> HIDE DEF new
<1>3. QED BY <1>1, <1>2

LEMMA EndTyped ==
  ASSUME run \in Run, NEW seen \in Run, NEW end \in {"completed", "failed", "canceled"},
         FlushRun(seen, Ended(seen, end))
  PROVE  run' \in Run
<1> DEFINE new == Ended(seen, end)
<1>1. new \in Run
  BY DEF Ended, Run, RunStatus, NoToken
<1>2. FlushRun(seen, new)
  OBVIOUS
<1> HIDE DEF new
<1>3. QED BY <1>1, <1>2, FlushWrites

LEMMA ReturnTyped ==
  ASSUME TypeOK, NEW p \in Processes, Return(p)
  PROVE  LocalOK'
<1>1. [run |-> NewRun, steps |-> NewSteps] \in Database
  BY NewTyped DEF Database
<1>2. p \in Sessions /\ "idle" \in Control
  BY DEF Sessions, Control
<1>3. 0 \in Nat /\ 1 \in 1..NumSteps + 1 /\ 0 \in 0..Ladder /\ [i \in Steps |-> 1] \in [Steps -> Nat]
  BY CountsAssumption
<1>4. pc' \in [Sessions -> Control] /\ copy' \in [Sessions -> Database]
  BY <1>1, <1>2 DEF TypeOK, Return, Goto
<1>5. token' \in [Processes -> Nat] /\ at' \in [Processes -> 1..NumSteps + 1]
      /\ attempt' \in [Processes -> Nat]
  BY <1>3 DEF TypeOK, Return, NoToken
<1>6. climbed' \in [Processes -> 0..Ladder] /\ spent' \in [Processes -> Nat]
      /\ plan' \in [Processes -> [Steps -> Nat]]
  BY <1>3 DEF TypeOK, Return
<1>7. repairing' \in [Processes -> BOOLEAN]
      /\ outcome' \in [Processes -> {"none", "ok", "bad", "transport"}]
  BY DEF TypeOK, Return
<1>8. QED BY <1>4, <1>5, <1>6, <1>7 DEF LocalOK

(* A session moves on and may take over what it sees. *)
LEMMA MoveTyped ==
  ASSUME TypeOK, NEW s \in Sessions, NEW next \in Control, Goto(s, next),
         UNCHANGED copy \/ LoadNow(s) \/ \E view \in Views(s) : Keep(s, view)
  PROVE  pc' \in [Sessions -> Control] /\ copy' \in [Sessions -> Database]
<1>1. Now \in Database
  BY DEF TypeOK, Now, Database
<1>2. \A view \in Views(s) : view \in Database
  BY ViewsTyped
<1>3. QED BY <1>1, <1>2 DEF TypeOK, Goto, LoadNow, Keep

(* ... and the rest of what it knows stays. *)
LEMMA MoveOnlyTyped ==
  ASSUME TypeOK, NEW s \in Sessions, NEW next \in Control, Goto(s, next),
         UNCHANGED copy \/ LoadNow(s) \/ \E view \in Views(s) : Keep(s, view),
         UNCHANGED local
  PROVE  LocalOK'
BY MoveTyped, TypeParts DEF LocalOK, local

LEMMA RunLoaded ==
  ASSUME TypeOK, NEW s \in Sessions, run' \in Run, LoadRun(s)
  PROVE  copy' \in [Sessions -> Database]
<1>1. [run |-> run', steps |-> NewSteps] \in Database
  BY NewTyped DEF Database
<1>2. QED BY <1>1 DEF TypeOK, LoadRun

LEMMA AcquireTyped ==
  ASSUME TypeOK, Acquire
  PROVE  /\ run' \in Run
         /\ run'.token = run.execution_attempt + 1
         /\ run'.execution_attempt = run.execution_attempt + 1
         /\ run'.lease = "live" /\ run'.status = "running"
         /\ run'.repair_used = run.repair_used
<1>1. run \in Run /\ run.execution_attempt \in Nat
  BY DEF TypeOK, Run
<1>2. run' = [run EXCEPT !.status = "running", !.lease = "live",
                         !.token = run.execution_attempt + 1,
                         !.execution_attempt = run.execution_attempt + 1]
  BY DEF Acquire
<1>3. /\ DOMAIN run = {"status", "token", "lease", "execution_attempt", "repair_used"}
      /\ run.repair_used \in Nat
  BY <1>1, Columns
<1>4. /\ run'.token = run.execution_attempt + 1
      /\ run'.execution_attempt = run.execution_attempt + 1
      /\ run'.lease = "live" /\ run'.status = "running"
      /\ run'.repair_used = run.repair_used
  BY <1>2, <1>3
<1>5. run' = [c \in DOMAIN run |-> run'[c]]
  BY <1>2
<1>6. run' \in Run
  BY <1>1, <1>3, <1>4, <1>5, Columns DEF RunStatus
<1>7. QED BY <1>4, <1>6

LEMMA StartTyped ==
  ASSUME TypeOK, NEW p \in Processes, Start(p)
  PROVE  TypeOK'
<1>1. Acquire /\ UNCHANGED <<steps, invocations, proposals, contextChanged>>
  BY DEF Start, StartScheduled, StartUnscheduled, StartRefused
<1>2. run' \in Run /\ run'.token \in Nat
  BY <1>1, AcquireTyped DEF Run
<1>3. StoredOK'
  BY <1>1, <1>2, TypeParts DEF StoredOK
<1>4. p \in Sessions /\ {"claimed", "failing"} \subseteq Control
  BY DEF Sessions, Control
<1>5. LocalOK'
  <2>1. CASE StartScheduled(p)
    BY <2>1, <1>2, <1>4, TypeParts DEF StartScheduled, LocalOK, Goto
  <2>2. CASE StartUnscheduled(p)
    BY <2>2, TypeParts DEF StartUnscheduled, LocalOK, local
  <2>3. CASE StartRefused(p)
    <3>1. copy' \in [Sessions -> Database]
      BY <2>3, <1>2, <1>4, RunLoaded DEF StartRefused
    <3>2. QED BY <2>3, <3>1, <1>2, <1>4, TypeParts DEF StartRefused, LocalOK, Goto
  <2>4. QED BY <2>1, <2>2, <2>3 DEF Start
<1>6. QED BY <1>3, <1>5 DEF TypeOK, StoredOK, LocalOK

LEMMA InvocationTyped ==
  ASSUME TypeOK, NEW p \in Processes, at[p] \in Steps, attempt[p] # 0,
         NEW status \in InvocationStatus
  PROVE  SetInvocation(p, status) \subseteq
           [step : Steps, attempt : Nat \ {0}, repairing : BOOLEAN, status : InvocationStatus]
<1>1. [step |-> at[p], attempt |-> attempt[p], repairing |-> repairing[p], status |-> status]
        \in [step : Steps, attempt : Nat \ {0}, repairing : BOOLEAN, status : InvocationStatus]
  BY DEF TypeOK
<1>2. QED BY <1>1 DEF SetInvocation, TypeOK

(* The worker goes on to the next index. *)
LEMMA NextStepTyped ==
  ASSUME TypeOK, NEW p \in Processes, at[p] \in Steps, NextStep(p), UNCHANGED run
  PROVE  LocalOK'
<1>1. p \in Sessions /\ "scan" \in Control
  BY DEF Sessions, Control
<1>2. at[p] + 1 \in 1..NumSteps + 1
  BY CountsAssumption DEF Steps
<1>3. copy' \in [Sessions -> Database]
  BY <1>1, RunLoaded DEF NextStep, TypeOK
<1>4. QED BY <1>1, <1>2, <1>3, TypeParts DEF NextStep, Goto, LocalOK

(* An attempt is replaced when it was seen finished, or fails. *)
LEMMA Replacement ==
  ASSUME TypeOK, NEW p \in Processes, NEW view, at[p] \in Steps,
         attempt[p] \in 1..Len(steps[at[p]])
  PROVE  /\ Replaced(p, view) \in Seq(StepStatus)
         /\ Len(Replaced(p, view)) = Len(steps[at[p]])
         /\ \A k \in 1..Len(steps[at[p]]) \ {attempt[p]} : Replaced(p, view)[k] = steps[at[p]][k]
         /\ \/ Replaced(p, view)[attempt[p]] = "failed"
            \/ /\ Replaced(p, view)[attempt[p]] = steps[at[p]][attempt[p]]
               /\ Active(p, view) \in StepTerminal
<1>1. steps[at[p]] \in Seq(StepStatus)
  BY DEF TypeOK
<1>2. PICK entry \in {"failed", steps[at[p]][attempt[p]]} :
        /\ Replaced(p, view) = [steps[at[p]] EXCEPT ![attempt[p]] = entry]
        /\ entry = "failed" \/ Active(p, view) \in StepTerminal
  BY Terminal DEF Replaced, Superseded
<1>3. entry \in StepStatus
  BY <1>1, <1>2, ElementOfSeq DEF StepStatus, RunStatus
<1>4. QED BY <1>1, <1>2, <1>3, ExceptSeq

LEMMA ExecuteTyped ==
  ASSUME IInv, NEW p \in Processes, Execute(p)
  PROVE  TypeOK'
<1> SUFFICES StoredOK' /\ LocalOK'
  BY DEF TypeOK, StoredOK, LocalOK
<1>a. TypeOK /\ StoredOK /\ LocalOK /\ p \in Sessions
  BY TypeParts DEF IInv, Sessions
<1>b. /\ pc[p] \in {"step"} \cup Invoking => at[p] \in Steps
      /\ pc[p] \in Invoking => attempt[p] \in Nat \ {0}
  <2>1. Informed(p) /\ HeadsExist
    BY DEF IInv, StepInv
  <2>2. pc[p] \in Invoking => attempt[p] \in Nat
    BY <1>a DEF LocalOK
  <2>3. \A i \in Steps : Len(steps[i]) # 0
    BY <2>1 DEF HeadsExist
  <2>4. QED BY <2>1, <2>2, <2>3 DEF Informed, Invoking
<1>c. Begun \cup {"claimed", "idle"} \subseteq Control
  BY DEF Begun, Stepping, Invoking, Control
<1>d. InvocationStatus = {"pending", "succeeded", "failed", "canceled"}
      /\ {"pending", "running", "completed", "failed", "canceled"} \subseteq StepStatus
  BY DEF InvocationStatus, StepStatus, RunStatus
<1>1. CASE Begin(p)
  <2>1. StoredOK'
    BY <1>1, <1>a DEF Begin, stored, StoredOK
  <2>2. CASE Return(p)
    BY <2>1, <2>2, <1>a, ReturnTyped
  <2>3. CASE ~Return(p)
    <3>1. PICK next \in {"scan", "failing"} : Goto(p, next)
      BY <1>1, <2>3 DEF Begin
    <3>2. /\ LoadNow(p)
          /\ plan' = [plan EXCEPT ![p] = [i \in Steps |-> Len(steps[i])]]
          /\ spent' = [spent EXCEPT ![p] = run.repair_used]
          /\ UNCHANGED <<token, at, attempt, climbed, repairing, outcome>>
      BY <1>1, <2>3 DEF Begin
    <3>3. [i \in Steps |-> Len(steps[i])] \in [Steps -> Nat] /\ run.repair_used \in Nat
      BY <1>a, LenProperties DEF StoredOK, Run
    <3>4. next \in Control
      BY <3>1 DEF Control
    <3>5. pc' \in [Sessions -> Control] /\ copy' \in [Sessions -> Database]
      BY <1>a, <3>1, <3>2, <3>4, MoveTyped
    <3>6. QED BY <2>1, <1>a, <3>2, <3>3, <3>5 DEF LocalOK
  <2>4. QED BY <2>2, <2>3
<1>2. CASE Renew(p) \/ Raise(p) \/ FailRunRefused(p)
  <2>1. PICK next \in {"publish", "step", "call", "settle", "failing", "unrecorded"} :
          Goto(p, next) /\ (LoadNow(p) \/ UNCHANGED copy) /\ UNCHANGED <<stored, contextChanged, local>>
    BY <1>2 DEF Renew, Raise, FailRunRefused, AfterRenewal
  <2>2. next \in Control
    BY DEF Control
  <2>3. QED BY <2>1, <2>2, <1>a, MoveOnlyTyped DEF StoredOK, stored
<1>3. CASE StartStep(p)
  <2>1. PICK view \in Views(p) :
          LET i == at[p]
              k == plan[p][i]
              head == view.steps[i][k]
          IN \/ Return(p) /\ UNCHANGED stored
             \/ /\ at' = [at EXCEPT ![p] = i + 1]
                /\ Goto(p, "scan") /\ LoadRun(p)
                /\ UNCHANGED <<stored, token, attempt, climbed, spent, plan, repairing, outcome>>
             \/ /\ Goto(p, "failing")
                /\ Keep(p, view)
                /\ UNCHANGED <<stored, local>>
             \/ /\ steps' = IF head = "pending"
                           THEN [steps EXCEPT ![i][k] = "running"] ELSE steps
                /\ attempt' = [attempt EXCEPT ![p] = k]
                /\ climbed' = [climbed EXCEPT ![p] = 0]
                /\ repairing' = [repairing EXCEPT ![p] = FALSE]
                /\ Goto(p, "loop") /\ LoadRun(p)
                /\ UNCHANGED <<run, invocations, proposals, token, at, spent, plan, outcome>>
    BY <1>3 DEF StartStep
  <2>2. at[p] \in Steps /\ UNCHANGED contextChanged /\ at[p] + 1 \in 1..NumSteps + 1
        /\ plan[p][at[p]] \in Nat
    BY <1>3, <1>a, <1>b, CountsAssumption DEF StartStep, Steps, LocalOK
  <2>3. CASE Return(p) /\ UNCHANGED stored
    BY <2>2, <2>3, <1>a, ReturnTyped DEF stored, StoredOK
  <2>4. CASE /\ at' = [at EXCEPT ![p] = at[p] + 1]
             /\ Goto(p, "scan") /\ LoadRun(p)
             /\ UNCHANGED <<stored, token, attempt, climbed, spent, plan, repairing, outcome>>
    <3>1. copy' \in [Sessions -> Database]
      BY <2>4, <1>a, RunLoaded DEF stored, StoredOK
    <3>2. pc' \in [Sessions -> Control]
      BY <2>4, <1>a DEF Goto, LocalOK, Control
    <3>3. QED BY <2>2, <2>4, <3>1, <3>2, <1>a DEF stored, StoredOK, LocalOK
  <2>5. CASE Goto(p, "failing") /\ Keep(p, view) /\ UNCHANGED <<stored, local>>
    BY <2>2, <2>5, <1>a, MoveOnlyTyped DEF stored, StoredOK, Control
  <2>6. CASE /\ \/ steps' = [steps EXCEPT ![at[p]][plan[p][at[p]]] = "running"]
                \/ steps' = steps
             /\ attempt' = [attempt EXCEPT ![p] = plan[p][at[p]]]
             /\ climbed' = [climbed EXCEPT ![p] = 0]
             /\ repairing' = [repairing EXCEPT ![p] = FALSE]
             /\ Goto(p, "loop") /\ LoadRun(p)
             /\ UNCHANGED <<run, invocations, proposals, token, at, spent, plan, outcome>>
    <3>1. steps' \in [Steps -> Seq(StepStatus)]
      BY <2>6, <2>2, <1>a, <1>d, EntryWritten DEF StoredOK
    <3>2. pc' \in [Sessions -> Control]
      BY <2>6, <1>a, <1>c DEF Goto, LocalOK, Begun, Stepping, Invoking
    <3>3. 0 \in 0..Ladder
      BY CountsAssumption
    <3>4. copy' \in [Sessions -> Database]
      BY <2>6, <1>a, RunLoaded DEF StoredOK
    <3>5. QED BY <2>6, <2>2, <3>1, <3>2, <3>3, <3>4, <1>a DEF StoredOK, LocalOK
  <2>7. QED BY <2>1, <2>3, <2>4, <2>5, <2>6
<1>4. CASE CallProvider(p)
  <2>1. PICK view \in Views(p) :
          \/ Return(p) /\ UNCHANGED stored
          \/ /\ steps' = [steps EXCEPT ![at[p]][attempt[p]] = "completed"]
             /\ NextStep(p)
             /\ UNCHANGED <<run, invocations, proposals>>
          \/ Goto(p, "failing") /\ Keep(p, view) /\ UNCHANGED <<stored, local>>
          \/ /\ invocations' = IF Recorded(p) = {} THEN SetInvocation(p, "pending") ELSE invocations
             /\ Goto(p, "invoking")
             /\ UNCHANGED <<run, steps, proposals, copy, local>>
    BY <1>4 DEF CallProvider
  <2>2. at[p] \in Steps /\ UNCHANGED contextChanged /\ attempt[p] \in Nat \ {0}
    BY <1>4, <1>b DEF CallProvider, Invoking
  <2>3. CASE Return(p) /\ UNCHANGED stored
    BY <2>2, <2>3, <1>a, ReturnTyped DEF stored, StoredOK
  <2>4. CASE /\ steps' = [steps EXCEPT ![at[p]][attempt[p]] = "completed"]
             /\ NextStep(p)
             /\ UNCHANGED <<run, invocations, proposals>>
    BY <2>4, <2>2, <1>a, <1>d, EntryWritten, NextStepTyped DEF StoredOK
  <2>5. CASE Goto(p, "failing") /\ Keep(p, view) /\ UNCHANGED <<stored, local>>
    BY <2>2, <2>5, <1>a, MoveOnlyTyped DEF stored, StoredOK, Control
  <2>6. CASE /\ invocations' = IF Recorded(p) = {} THEN SetInvocation(p, "pending") ELSE invocations
             /\ Goto(p, "invoking")
             /\ UNCHANGED <<run, steps, proposals, copy, local>>
    <3>1. LocalOK'
      BY <2>6, <1>a, MoveOnlyTyped DEF Control
    <3>2. "pending" \in InvocationStatus
      BY <1>d
    <3>3. QED BY <2>6, <2>2, <3>1, <3>2, <1>a, InvocationTyped DEF StoredOK
  <2>7. QED BY <2>1, <2>3, <2>4, <2>5, <2>6
<1>5. ASSUME NEW result \in {"ok", "bad", "transport"}, ProviderReturns(p, result)
      PROVE  StoredOK' /\ LocalOK'
  <2>1. copy' \in [Sessions -> Database]
    BY <1>5, <1>a, RunLoaded DEF ProviderReturns, stored, StoredOK
  <2>2. pc' \in [Sessions -> Control]
    BY <1>5, <1>a DEF ProviderReturns, Goto, LocalOK, Control
  <2>3. QED BY <1>5, <1>a, <2>1, <2>2 DEF ProviderReturns, stored, StoredOK, LocalOK
<1>6. CASE Settle(p)
  <2>1. PICK view \in Views(p) :
          \/ SettleCanceled(p, view)
          \/ SettleSucceeded(p, view)
          \/ SettleFailed(p, view)
          \/ SettleRepaired(p, view)
          \/ SettleRaises(p, view)
    BY <1>6 DEF Settle
  <2>2. at[p] \in Steps /\ UNCHANGED contextChanged /\ attempt[p] \in Nat \ {0} /\ view.run \in Run
    BY <1>6, <1>a, <1>b, ViewsTyped DEF Settle, Invoking
  <2>3. CASE SettleCanceled(p, view)
    BY <2>3, <2>2, <1>a, <1>d, InvocationTyped, ReturnTyped DEF SettleCanceled, StoredOK
  <2>4. CASE SettleSucceeded(p, view)
    <3>1. LocalOK'
      BY <2>4, <2>2, <1>a, NextStepTyped DEF SettleSucceeded
    <3>2. QED BY <2>4, <2>2, <3>1, <1>a, <1>d, InvocationTyped, EntryWritten DEF SettleSucceeded, StoredOK
  <2>5. CASE SettleFailed(p, view)
    <3>1. LocalOK' /\ UNCHANGED proposals
      BY <2>5, <1>a, ReturnTyped DEF SettleFailed
    <3>2. CASE view.run.status \in RunTerminal
      BY <2>5, <2>2, <3>1, <3>2, <1>a DEF SettleFailed, StoredOK
    <3>3. CASE view.run.status \notin RunTerminal
      <4>1. FlushRun(view.run, Ended(view.run, "failed"))
        BY <2>5, <3>3 DEF SettleFailed
      <4>2. run' \in Run
        BY <4>1, <2>2, <1>a, EndTyped DEF StoredOK
      <4>3. steps' \in [Steps -> Seq(StepStatus)]
        <5>1. steps' = [steps EXCEPT ![at[p]][attempt[p]] = "failed"] \/ steps' = steps
          BY <2>5, <3>3 DEF SettleFailed
        <5>2. QED BY <5>1, <2>2, <1>a, <1>d, EntryWritten DEF StoredOK
      <4>4. \E status \in InvocationStatus : invocations' = SetInvocation(p, status)
        BY <2>5, <3>3, <1>d DEF SettleFailed
      <4>5. QED BY <3>1, <4>2, <4>3, <4>4, <2>2, <1>a, InvocationTyped DEF StoredOK
    <3>4. QED BY <3>2, <3>3
  <2>6. CASE SettleRepaired(p, view)
    <3>1. run' \in Run
      <4> DEFINE new == IF CanRepair(p, view) THEN [view.run EXCEPT !.repair_used = @ + 1] ELSE view.run
      <4>1. new \in Run
        BY <2>2 DEF Run
      <4>2. FlushRun(view.run, new)
        BY <2>6 DEF SettleRepaired
      <4> HIDE DEF new
      <4>3. QED BY <4>1, <4>2, <2>2, <1>a, FlushWrites DEF StoredOK
    <3>2. steps' \in [Steps -> Seq(StepStatus)]
      <4> DEFINE last == Replaced(p, view)
      <4>1. steps' = [steps EXCEPT ![at[p]] = Append(last, "running")]
        BY <2>6 DEF SettleRepaired
      <4>2. attempt[p] \in 1..Len(steps[at[p]])
        BY <2>6, <2>2 DEF SettleRepaired
      <4>3. last \in Seq(StepStatus)
        BY <4>2, <2>2, <1>a, Replacement
      <4> HIDE DEF last
      <4>4. Append(last, "running") \in Seq(StepStatus)
        BY <4>3, <1>d, AppendProperties
      <4>5. QED BY <4>1, <4>4, <2>2, <1>a DEF StoredOK
    <3>3. StoredOK'
      BY <2>6, <2>2, <3>1, <3>2, <1>a, <1>d, InvocationTyped DEF SettleRepaired, StoredOK
    <3>4. spent' \in [Processes -> Nat]
      <4>1. view.run.repair_used + 1 \in Nat
        BY <2>2 DEF Run
      <4>2. QED BY <2>6, <4>1, <1>a DEF SettleRepaired, LocalOK
    <3>5. climbed' \in [Processes -> 0..Ladder]
      <4>1. CanEscalate(p) => climbed[p] + 1 \in 0..Ladder
        BY <1>a, CountsAssumption DEF CanEscalate, LocalOK
      <4>2. QED BY <2>6, <4>1, <1>a DEF SettleRepaired, LocalOK
    <3>6. pc' \in [Sessions -> Control]
      BY <2>6, <1>a DEF SettleRepaired, Goto, LocalOK, Control
    <3>7. copy' \in [Sessions -> Database]
      BY <2>6, <3>1, <1>a, RunLoaded DEF SettleRepaired
    <3>8. QED BY <2>6, <2>2, <3>3, <3>4, <3>5, <3>6, <3>7, <1>a DEF SettleRepaired, LocalOK
  <2>7. CASE SettleRaises(p, view)
    BY <2>7, <2>2, <1>a, MoveOnlyTyped DEF SettleRaises, stored, StoredOK, Control
  <2>8. QED BY <2>1, <2>3, <2>4, <2>5, <2>6, <2>7
<1>7. CASE Publish(p)
  <2>1. CASE Return(p) /\ UNCHANGED stored
    BY <1>7, <2>1, <1>a, ReturnTyped DEF Publish, stored, StoredOK
  <2>2. CASE /\ proposals' = proposals + 1
             /\ Goto(p, "completing")
             /\ LoadNow(p)
             /\ UNCHANGED <<run, steps, invocations, local>>
    <3>1. LocalOK'
      BY <2>2, <1>a, MoveOnlyTyped DEF Control
    <3>2. QED BY <1>7, <2>2, <3>1, <1>a DEF Publish, StoredOK
  <2>3. QED BY <1>7, <2>1, <2>2 DEF Publish
<1>8. CASE Complete(p) \/ FailRun(p)
  <2>1. UNCHANGED <<steps, invocations, proposals, contextChanged>>
    BY <1>8 DEF Complete, FailRun
  <2>2. PICK view \in Views(p) :
          \/ Return(p) /\ UNCHANGED run
          \/ Return(p) /\ \E end \in {"completed", "failed"} : FlushRun(view.run, Ended(view.run, end))
          \/ Goto(p, "failing") /\ Keep(p, view) /\ UNCHANGED <<run, local>>
    BY <1>8 DEF Complete, FailRun
  <2>3. run' \in Run
    BY <2>2, <1>a, ViewsTyped, EndTyped DEF StoredOK
  <2>4. LocalOK'
    <3>1. "failing" \in Control
      BY DEF Control
    <3>2. QED BY <2>2, <3>1, <1>a, ReturnTyped, MoveOnlyTyped
  <2>5. QED BY <2>1, <2>3, <2>4, <1>a DEF StoredOK
<1>9. CASE Reread(p) \/ GiveUp(p)
  <2>1. CASE GiveUp(p)
    BY <2>1, <1>a, ReturnTyped DEF GiveUp, stored, StoredOK
  <2>2. CASE Reread(p)
    <3>1. copy' \in [Sessions -> Database]
      BY <2>2, <1>a, RunLoaded DEF Reread, stored, StoredOK
    <3>2. QED BY <2>2, <3>1, <1>a DEF Reread, stored, local, StoredOK, LocalOK
  <2>3. QED BY <1>9, <2>1, <2>2
<1>10. QED BY <1>1, <1>2, <1>3, <1>4, <1>5, <1>6, <1>7, <1>8, <1>9 DEF Execute

LEMMA TypeStep ==
  ASSUME IInv, [Next]_vars
  PROVE  TypeOK'
<1>a. TypeOK
  BY DEF IInv
<1>1. CASE UNCHANGED vars
  BY <1>1, <1>a DEF TypeOK, vars, stored, local
<1>2. ASSUME NEW p \in Processes, Start(p) \/ Execute(p) \/ Die(p)
      PROVE  TypeOK'
  <2>1. CASE Die(p)
    BY <2>1, <1>a, ReturnTyped, TypeParts DEF Die, stored, StoredOK, LocalOK, TypeOK
  <2>2. QED BY <1>2, <1>a, <2>1, StartTyped, ExecuteTyped
<1>3. ASSUME NEW u \in Users, Cancel(u)
      PROVE  TypeOK'
  <2>a. u \in Sessions /\ {"idle", "canceling"} \subseteq Control
    BY DEF Sessions, Control
  <2>1. CASE CancelRead(u)
    <3>1. LocalOK'
      BY <2>1, <2>a, <1>a, MoveOnlyTyped DEF CancelRead
    <3>2. QED BY <2>1, <3>1, <1>a DEF CancelRead, stored, TypeOK, LocalOK
  <2>2. CASE CancelCommit(u)
    <3>1. run' \in Run
      <4>1. PICK seen \in {copy[u]} : FlushRun(seen.run, Ended(seen.run, "canceled"))
        BY <2>2 DEF CancelCommit
      <4>2. seen.run \in Run /\ run \in Run
        BY <2>a, <1>a DEF TypeOK, Database
      <4>3. QED BY <4>1, <4>2, EndTyped
    <3>2. steps' \in [Steps -> Seq(StepStatus)]
      BY <2>2, <1>a, StepsCanceled
    <3>3. copy' \in [Sessions -> Database]
      BY <2>2, <1>a, NewTyped DEF CancelCommit, TypeOK, Database
    <3>4. pc' \in [Sessions -> Control]
      BY <2>2, <2>a, <1>a DEF CancelCommit, Goto, TypeOK
    <3>5. QED BY <2>2, <3>1, <3>2, <3>3, <3>4, <1>a DEF CancelCommit, TypeOK, local
  <2>3. QED BY <1>3, <2>1, <2>2 DEF Cancel
<1>4. CASE LeaseExpires
  <2>1. run' \in Run
    BY <1>4, <1>a DEF LeaseExpires, TypeOK, Run
  <2>2. QED BY <1>4, <2>1, <1>a DEF LeaseExpires, TypeOK, local
<1>5. CASE EditStory
  BY <1>5, <1>a DEF EditStory, TypeOK, stored, local
<1>6. QED BY <1>1, <1>2, <1>3, <1>4, <1>5 DEF Next

-----------------------------------------------------------------------------
(* One worker *)

LEMMA NewRowWellFormed == WellFormed(NewRun)
BY DEF WellFormed, NewRun, NoToken

LEMMA LeaseInit == Init => LeaseInv
BY NewRowWellFormed, Terminal
DEF Init, LeaseInv, RowsWellFormed, OneWorker, WorkerHasLease, CancelSawItGoing,
    EndedReleasesLease, Begun, Stepping, Invoking, Sessions, NewRun, NoToken, Now

(* The worker takes a step and stays: no lease and no status changes. *)
LEMMA LeaseGoesOn ==
  ASSUME TypeOK, LeaseInv, NEW p \in Processes, pc[p] # "idle",
         NEW next \in Begun, Goto(p, next), UNCHANGED token,
         run'.status = run.status, run'.token = run.token, run'.lease = run.lease,
         \/ LoadNow(p) \/ LoadRun(p)
         \/ pc[p] \in Begun /\ (UNCHANGED copy \/ \E view \in Views(p) : Keep(p, view))
  PROVE  LeaseInv'
<1>a. p \in Sessions /\ Processes \subseteq Sessions /\ Users \subseteq Sessions /\ p \notin Users
  BY ProcessesAssumption DEF Sessions
<1>b. next \notin {"idle", "claimed", "canceling"} /\ "idle" \notin Begun
  BY DEF Begun, Stepping, Invoking
<1>c. pc' = [pc EXCEPT ![p] = next] /\ pc \in [Sessions -> Control]
  BY DEF Goto, TypeOK
<1>d. run.status \in {"running", "canceled"}
  BY DEF LeaseInv, WorkerHasLease
<1>1. \E view : /\ copy' = [copy EXCEPT ![p] = view]
                /\ view.run.status \in {"running", "canceled"} /\ WellFormed(view.run)
  <2>1. WellFormed(run) /\ WellFormed(copy[p].run)
    BY <1>a DEF LeaseInv, RowsWellFormed
  <2>2. Now.run = run /\ Now \in Views(p) /\ copy[p] \in Views(p)
    BY DEF Now, Views
  <2>3. CASE LoadNow(p)
    BY <2>1, <2>2, <2>3, <1>d DEF LoadNow
  <2>4. CASE pc[p] \in Begun /\ (UNCHANGED copy \/ \E view \in Views(p) : Keep(p, view))
    <3>1. copy[p].run.status \in {"running", "canceled"} /\ copy = [copy EXCEPT ![p] = copy[p]]
      BY <2>4, <1>a DEF LeaseInv, WorkerHasLease, TypeOK
    <3>2. \A view \in Views(p) : view.run.status \in {"running", "canceled"} /\ WellFormed(view.run)
      BY <3>1, <2>1, <2>2, <1>d DEF Views
    <3>3. QED BY <2>4, <3>1, <3>2, <2>2 DEF Keep
  <2>5. CASE LoadRun(p)
    <3>1. WellFormed(run') /\ run'.status \in {"running", "canceled"}
      BY <2>1, <1>d DEF WellFormed
    <3>2. PICK view \in {[run |-> run', steps |-> NewSteps]} : copy' = [copy EXCEPT ![p] = view]
      BY <2>5 DEF LoadRun
    <3>3. view.run = run'
      BY <3>2
    <3>4. QED BY <3>1, <3>2, <3>3
  <2>6. QED BY <2>3, <2>4, <2>5
<1>2. RowsWellFormed'
  <2>1. WellFormed(run)'
    BY DEF LeaseInv, RowsWellFormed, WellFormed
  <2>2. \A s \in Sessions : WellFormed(copy'[s].run)
    BY <1>1 DEF LeaseInv, RowsWellFormed, TypeOK
  <2>3. QED BY <2>1, <2>2 DEF RowsWellFormed, WellFormed
<1>3. OneWorker'
  BY <1>a, <1>c DEF LeaseInv, OneWorker
<1>4. WorkerHasLease'
  BY <1>a, <1>b, <1>c, <1>1 DEF LeaseInv, WorkerHasLease, TypeOK
<1>5. CancelSawItGoing'
  BY <1>a, <1>c, <1>1 DEF LeaseInv, CancelSawItGoing, TypeOK
<1>6. EndedReleasesLease'
  BY DEF LeaseInv, EndedReleasesLease
<1>7. QED BY <1>2, <1>3, <1>4, <1>5, <1>6 DEF LeaseInv

(* The worker leaves the run as it is, or ends it as it saw it going. *)
LEMMA LeaseReturns ==
  ASSUME TypeOK, LeaseInv, NEW p \in Processes, Return(p), pc[p] # "idle",
         \/ UNCHANGED run
         \/ \E view \in Views(p), end \in {"completed", "failed"} :
              /\ pc[p] \in Begun /\ view.run.status \notin RunTerminal
              /\ FlushRun(view.run, Ended(view.run, end))
  PROVE  /\ LeaseInv'
         /\ \/ UNCHANGED run
            \/ /\ run'.status \in {"completed", "failed"}
               /\ run'.execution_attempt = run.execution_attempt
               /\ run'.repair_used = run.repair_used
<1>a. p \in Sessions /\ Processes \subseteq Sessions /\ Users \subseteq Sessions /\ p \notin Users
  BY ProcessesAssumption DEF Sessions
<1>b. /\ pc' = [pc EXCEPT ![p] = "idle"] /\ pc \in [Sessions -> Control]
      /\ token' = [token EXCEPT ![p] = NoToken] /\ token \in [Processes -> Nat]
      /\ copy' = [copy EXCEPT ![p] = [run |-> NewRun, steps |-> NewSteps]]
  BY DEF Return, Goto, TypeOK
<1>c. \A q \in Processes : pc'[q] = "idle"
  BY <1>a, <1>b DEF LeaseInv, OneWorker
<1>1. \/ UNCHANGED run
      \/ /\ run'.status \in {"completed", "failed"}
         /\ run'.token = NoToken /\ run'.lease = "none"
         /\ run'.execution_attempt = run.execution_attempt
         /\ run'.repair_used = run.repair_used
  <2> SUFFICES ASSUME NEW view \in Views(p), NEW end \in {"completed", "failed"},
                      pc[p] \in Begun, view.run.status \notin RunTerminal,
                      FlushRun(view.run, Ended(view.run, end))
               PROVE  /\ run'.status \in {"completed", "failed"}
                      /\ run'.token = NoToken /\ run'.lease = "none"
                      /\ run'.execution_attempt = run.execution_attempt
                      /\ run'.repair_used = run.repair_used
    OBVIOUS
  <2>1. view.run \in {run, copy[p].run}
    BY DEF Views, Now
  <2>2. WellFormed(view.run) /\ view.run.status # "pending" /\ view.run \in Run
    BY <2>1, <1>a, ViewsTyped DEF LeaseInv, RowsWellFormed, WorkerHasLease
  <2>3. view.run.token # NoToken
    BY <2>2, Terminal DEF WellFormed, Run, RunStatus
  <2>4. run \in Run
    BY DEF TypeOK
  <2>5. QED BY <2>2, <2>3, <2>4, EndWrites
<1>2. RowsWellFormed'
  <2>1. WellFormed(run')
    BY <1>1 DEF LeaseInv, RowsWellFormed, WellFormed
  <2>2. \A s \in Sessions : WellFormed(copy'[s].run)
    BY <1>b, NewRowWellFormed DEF LeaseInv, RowsWellFormed, TypeOK
  <2>3. QED BY <2>1, <2>2 DEF RowsWellFormed, WellFormed
<1>3. OneWorker'
  BY <1>c DEF OneWorker
<1>4. WorkerHasLease'
  <2>1. \A q \in Processes : token'[q] = NoToken
    BY <1>a, <1>b DEF LeaseInv, OneWorker, WorkerHasLease
  <2>2. "idle" \notin Begun
    BY DEF Begun, Stepping, Invoking
  <2>3. QED BY <1>c, <2>1, <2>2 DEF WorkerHasLease
<1>5. CancelSawItGoing'
  BY <1>a, <1>b DEF LeaseInv, CancelSawItGoing, TypeOK
<1>6. EndedReleasesLease'
  BY <1>1 DEF LeaseInv, EndedReleasesLease
<1>7. QED BY <1>1, <1>2, <1>3, <1>4, <1>5, <1>6 DEF LeaseInv

(* Nobody works while a run can be claimed. *)
LEMMA ClaimedWhenIdle ==
  ASSUME TypeOK, LeaseInv, Acquirable
  PROVE  /\ \A p \in Processes : pc[p] = "idle" /\ token[p] = NoToken
         /\ run.status \in {"pending", "running"}
         /\ run.lease # "live"
BY DEF LeaseInv, RowsWellFormed, WellFormed, WorkerHasLease, Acquirable

LEMMA LeaseStart ==
  ASSUME TypeOK, LeaseInv, NEW p \in Processes, Start(p)
  PROVE  LeaseInv'
<1>a. p \in Sessions /\ Processes \subseteq Sessions /\ Users \subseteq Sessions /\ p \notin Users
  BY ProcessesAssumption DEF Sessions
<1>b. Acquire /\ Acquirable
  BY DEF Start, StartScheduled, StartUnscheduled, StartRefused, Acquire
<1>c. \A q \in Processes : pc[q] = "idle" /\ token[q] = NoToken
  BY <1>b, ClaimedWhenIdle
<1>d. /\ run' \in Run
      /\ run'.status = "running" /\ run'.lease = "live"
      /\ run'.token # NoToken /\ run'.token \in Nat
  BY <1>b, AcquireTyped DEF TypeOK, Run, NoToken
<1>e. WellFormed(run') /\ EndedReleasesLease'
  BY <1>d DEF WellFormed, EndedReleasesLease
<1>1. CASE StartUnscheduled(p)
  <2>1. UNCHANGED <<pc, copy, token>>
    BY <1>1 DEF StartUnscheduled, local
  <2>2. RowsWellFormed'
    BY <2>1, <1>e DEF LeaseInv, RowsWellFormed, WellFormed
  <2>3. OneWorker' /\ WorkerHasLease'
    BY <2>1, <1>c DEF OneWorker, WorkerHasLease, Begun, Stepping, Invoking
  <2>4. QED BY <2>1, <2>2, <2>3, <1>e DEF LeaseInv, CancelSawItGoing
<1>2. ASSUME NEW next \in {"claimed", "failing"}, Goto(p, next),
             token' = [token EXCEPT ![p] = run'.token],
             \/ next = "claimed" /\ UNCHANGED copy
             \/ LoadRun(p)
      PROVE  LeaseInv'
  <2>1. pc' = [pc EXCEPT ![p] = next] /\ pc \in [Sessions -> Control] /\ token \in [Processes -> Nat]
    BY <1>2 DEF Goto, TypeOK
  <2>2. \A s \in Sessions : copy'[s].run = copy[s].run \/ (s = p /\ copy'[s].run = run')
    BY <1>2 DEF TypeOK, LoadRun
  <2>3. RowsWellFormed'
    BY <2>2, <1>e DEF LeaseInv, RowsWellFormed, WellFormed
  <2>4. OneWorker'
    BY <2>1, <1>a, <1>c DEF OneWorker
  <2>5. WorkerHasLease'
    <3>1. next = "claimed" \/ copy'[p].run.status = "running"
      BY <1>2, <1>a, <1>d DEF TypeOK, LoadRun
    <3>2. \A q \in Processes \ {p} : pc'[q] = "idle" /\ token'[q] = NoToken
      BY <2>1, <1>2, <1>a, <1>c
    <3>3. pc'[p] = next /\ token'[p] = run'.token
      BY <2>1, <1>2, <1>a
    <3>4. {"idle", "claimed"} \cap Begun = {}
      BY DEF Begun, Stepping, Invoking
    <3>5. QED BY <3>1, <3>2, <3>3, <3>4, <1>d DEF WorkerHasLease
  <2>6. CancelSawItGoing'
    BY <2>1, <2>2, <1>a DEF LeaseInv, CancelSawItGoing
  <2>7. QED BY <2>3, <2>4, <2>5, <2>6, <1>e DEF LeaseInv
<1>3. QED BY <1>1, <1>2 DEF Start, StartScheduled, StartRefused

LEMMA LeaseCancel ==
  ASSUME TypeOK, LeaseInv, NEW u \in Users, Cancel(u)
  PROVE  LeaseInv' /\ (UNCHANGED run \/ run'.status = "canceled")
<1>a. u \in Sessions /\ Processes \subseteq Sessions /\ Users \subseteq Sessions /\ u \notin Processes
  BY ProcessesAssumption DEF Sessions
<1>1. CASE CancelRead(u)
  <2>1. /\ run.status \notin RunTerminal /\ UNCHANGED <<run, token>>
        /\ pc' = [pc EXCEPT ![u] = "canceling"] /\ pc \in [Sessions -> Control]
        /\ copy' = [copy EXCEPT ![u] = Now]
    BY <1>1 DEF CancelRead, LoadNow, Goto, stored, local, TypeOK
  <2>2. Now.run = run
    BY DEF Now
  <2>3. RowsWellFormed'
    BY <2>1, <2>2 DEF LeaseInv, RowsWellFormed, WellFormed, TypeOK
  <2>4. OneWorker' /\ WorkerHasLease'
    BY <2>1, <1>a DEF LeaseInv, OneWorker, WorkerHasLease, TypeOK
  <2>5. CancelSawItGoing'
    BY <2>1, <2>2, <1>a DEF LeaseInv, CancelSawItGoing, TypeOK
  <2>6. QED BY <2>1, <2>3, <2>4, <2>5 DEF LeaseInv, EndedReleasesLease
<1>2. CASE CancelCommit(u)
  <2>1. /\ UNCHANGED token
        /\ pc' = [pc EXCEPT ![u] = "idle"] /\ pc \in [Sessions -> Control]
        /\ copy' = [copy EXCEPT ![u] = [run |-> NewRun, steps |-> NewSteps]]
    BY <1>2 DEF CancelCommit, Goto, local, TypeOK
  <2>2. /\ run'.status = "canceled"
        /\ \/ run'.token = NoToken /\ run'.lease = "none"
           \/ run'.token = run.token /\ run'.lease = run.lease
    <3>1. PICK seen \in {copy[u].run} : FlushRun(seen, Ended(seen, "canceled"))
      BY <1>2 DEF CancelCommit
    <3>2. seen \in Run /\ run \in Run /\ WellFormed(seen) /\ seen.status \notin RunTerminal
      BY <3>1, <1>2, <1>a DEF TypeOK, Database, LeaseInv, RowsWellFormed, CancelSawItGoing, CancelCommit
    <3>3. QED BY <3>1, <3>2, EndWrites
  <2>3. RowsWellFormed'
    <3>1. WellFormed(run')
      BY <2>2 DEF LeaseInv, RowsWellFormed, WellFormed
    <3>2. \A s \in Sessions : WellFormed(copy'[s].run)
      BY <2>1, NewRowWellFormed DEF LeaseInv, RowsWellFormed, TypeOK
    <3>3. QED BY <3>1, <3>2 DEF RowsWellFormed, WellFormed
  <2>4. OneWorker' /\ WorkerHasLease'
    BY <2>1, <2>2, <1>a DEF LeaseInv, OneWorker, WorkerHasLease, TypeOK
  <2>5. CancelSawItGoing'
    BY <2>1, <1>a DEF LeaseInv, CancelSawItGoing, TypeOK
  <2>6. QED BY <2>2, <2>3, <2>4, <2>5 DEF LeaseInv, EndedReleasesLease
<1>3. QED BY <1>1, <1>2 DEF Cancel

LEMMA LeaseExpiry ==
  ASSUME LeasesOutliveWork, TypeOK, LeaseInv, LeaseExpires
  PROVE  /\ LeaseInv'
         /\ \A p \in Processes : pc[p] = "idle"
         /\ run'.status = run.status /\ run'.token = run.token
<1>1. /\ run'.status = run.status /\ run'.token = run.token /\ run'.lease = "expired"
      /\ UNCHANGED <<pc, copy, token>>
  BY DEF LeaseExpires, local, TypeOK, Run
<1>2. run.lease = "live" /\ \A p \in Processes : token[p] # run.token
  BY DEF LeaseExpires
<1>3. \A p \in Processes : pc[p] = "idle"
  BY <1>2 DEF LeaseInv, RowsWellFormed, WellFormed, WorkerHasLease
<1>4. RowsWellFormed'
  BY <1>1, <1>2 DEF LeaseInv, RowsWellFormed, WellFormed
<1>5. "idle" \notin Begun
  BY DEF Begun, Stepping, Invoking
<1>6. QED BY <1>1, <1>2, <1>3, <1>4, <1>5
          DEF LeaseInv, OneWorker, WorkerHasLease, CancelSawItGoing, EndedReleasesLease

(* A worker's step is the step of a worker. *)
LEMMA Executing ==
  ASSUME NEW p \in Processes, Execute(p)
  PROVE  pc[p] # "idle"
<1>1. Begin(p) => pc[p] = "claimed"  BY DEF Begin
<1>2. Reread(p) => pc[p] \in {"scan", "loop", "returned"}  BY DEF Reread
<1>3. Renew(p) => pc[p] \in {"scan", "loop", "returned"}  BY DEF Renew
<1>4. StartStep(p) => pc[p] = "step"  BY DEF StartStep
<1>5. Raise(p) => pc[p] \in {"step", "call", "invoking", "publish"}  BY DEF Raise
<1>6. CallProvider(p) => pc[p] = "call"  BY DEF CallProvider
<1>7. \A result \in {"ok", "bad", "transport"} : ProviderReturns(p, result) => pc[p] = "invoking"
  BY DEF ProviderReturns
<1>8. Settle(p) => pc[p] = "settle"  BY DEF Settle
<1>9. Publish(p) => pc[p] = "publish"  BY DEF Publish
<1>10. Complete(p) => pc[p] = "completing"  BY DEF Complete
<1>11. FailRun(p) => pc[p] = "failing"  BY DEF FailRun
<1>12. FailRunRefused(p) => pc[p] = "failing"  BY DEF FailRunRefused
<1>13. GiveUp(p) => pc[p] = "unrecorded"  BY DEF GiveUp
<1>14. QED BY <1>1, <1>2, <1>3, <1>4, <1>5, <1>6, <1>7, <1>8, <1>9, <1>10, <1>11, <1>12, <1>13
           DEF Execute

(* What a worker's step does to the run and to the lease. *)
LEMMA LeaseExecute ==
  ASSUME IInv, NEW p \in Processes, Execute(p)
  PROVE  /\ LeaseInv'
         /\ run'.execution_attempt = run.execution_attempt
         /\ \/ run'.repair_used = run.repair_used
            \/ \E view \in Views(p) : pc[p] = "settle" /\ SettleRepaired(p, view)
         /\ \/ run'.status = run.status /\ run'.token = run.token
            \/ run'.status \in {"completed", "failed"}
<1>a. TypeOK /\ LeaseInv /\ p \in Sessions
  BY DEF IInv, Sessions
<1>b. pc[p] # "idle"
  BY Executing
<1>1. ASSUME Return(p), UNCHANGED run
      PROVE  LeaseInv'
  BY <1>1, <1>a, <1>b, LeaseReturns
<1>2. ASSUME NEW next \in Begun, Goto(p, next), UNCHANGED <<run, token>>,
             \/ LoadNow(p) \/ LoadRun(p)
             \/ pc[p] \in Begun /\ (UNCHANGED copy \/ \E view \in Views(p) : Keep(p, view))
      PROVE  LeaseInv'
  BY <1>2, <1>a, <1>b, LeaseGoesOn
<1>c. {"scan", "failing", "publish", "step", "call", "settle", "loop", "invoking", "returned",
       "completing", "unrecorded"} = Begun
  BY DEF Begun, Stepping, Invoking
<1>3. CASE Begin(p)
  <2>1. UNCHANGED run
    BY <1>3 DEF Begin, stored
  <2>2. Return(p) \/ \E next \in Begun : Goto(p, next) /\ LoadNow(p) /\ UNCHANGED token
    BY <1>3, <1>c DEF Begin
  <2>3. QED BY <2>1, <2>2, <1>1, <1>2
<1>4. CASE Reread(p) \/ Renew(p) \/ Raise(p) \/ FailRunRefused(p)
  <2>1. UNCHANGED <<run, token>> /\ pc[p] \in Begun
    BY <1>4, <1>c DEF Reread, Renew, Raise, FailRunRefused, stored, local
  <2>2. \E next \in Begun : Goto(p, next) /\ (LoadNow(p) \/ LoadRun(p) \/ UNCHANGED copy)
    <3>1. CASE Reread(p)
      BY <3>1, <2>1, <1>a DEF Reread, Goto, TypeOK
    <3>2. CASE Renew(p)
      <4>1. \/ Goto(p, AfterRenewal(p)) /\ LoadNow(p)
            \/ Goto(p, "failing") /\ UNCHANGED copy
        BY <3>2 DEF Renew
      <4>2. {AfterRenewal(p), "failing"} \subseteq Begun
        BY <3>2, <1>c DEF Renew, AfterRenewal
      <4>3. QED BY <4>1, <4>2
    <3>3. CASE Raise(p) \/ FailRunRefused(p)
      <4>1. \E next \in {"failing", "unrecorded"} : Goto(p, next) /\ UNCHANGED copy
        BY <3>3 DEF Raise, FailRunRefused
      <4>2. QED BY <4>1, <1>c
    <3>4. QED BY <1>4, <3>1, <3>2, <3>3
  <2>3. QED BY <2>1, <2>2, <1>2
<1>5. CASE StartStep(p) \/ CallProvider(p)
  <2>1. UNCHANGED run /\ pc[p] \in Begun
    BY <1>5, <1>c DEF StartStep, CallProvider, stored
  <2>2. PICK view \in Views(p) :
          \/ Return(p)
          \/ \E next \in {"scan", "failing", "loop", "invoking"} :
               Goto(p, next) /\ UNCHANGED token /\ (UNCHANGED copy \/ LoadRun(p) \/ Keep(p, view))
    <3>1. CASE StartStep(p)
      <4>1. PICK view \in Views(p) :
              \/ Return(p)
              \/ Goto(p, "scan") /\ UNCHANGED token /\ LoadRun(p)
              \/ Goto(p, "failing") /\ UNCHANGED token /\ Keep(p, view)
              \/ Goto(p, "loop") /\ UNCHANGED token /\ LoadRun(p)
        BY <3>1 DEF StartStep, local
      <4>2. QED BY <4>1
    <3>2. CASE CallProvider(p)
      <4>1. PICK view \in Views(p) :
              \/ Return(p)
              \/ Goto(p, "scan") /\ UNCHANGED token /\ LoadRun(p)
              \/ Goto(p, "failing") /\ UNCHANGED token /\ Keep(p, view)
              \/ Goto(p, "invoking") /\ UNCHANGED token /\ UNCHANGED copy
        BY <3>2 DEF CallProvider, NextStep, local
      <4>2. QED BY <4>1
    <3>3. QED BY <1>5, <3>1, <3>2
  <2>3. {"scan", "failing", "loop", "invoking"} \subseteq Begun
    BY <1>c
  <2>4. QED BY <2>1, <2>2, <2>3, <1>1, <1>2
<1>6. ASSUME NEW result \in {"ok", "bad", "transport"}, ProviderReturns(p, result)
      PROVE  LeaseInv' /\ UNCHANGED run
  <2>1. Goto(p, "returned") /\ UNCHANGED <<run, token>> /\ LoadRun(p) /\ pc[p] \in Begun
    BY <1>6, <1>c DEF ProviderReturns, stored
  <2>2. QED BY <2>1, <1>2, <1>c
<1>7. CASE Settle(p)
  <2>1. PICK view \in Views(p) :
          \/ SettleCanceled(p, view)
          \/ SettleSucceeded(p, view)
          \/ SettleFailed(p, view)
          \/ SettleRepaired(p, view)
          \/ SettleRaises(p, view)
    BY <1>7 DEF Settle
  <2>2. pc[p] \in Begun /\ view.run \in Run /\ run \in Run
    BY <1>7, <1>a, <1>c, ViewsTyped DEF Settle, TypeOK
  <2>3. CASE SettleCanceled(p, view)
    BY <2>3, <1>1 DEF SettleCanceled
  <2>4. CASE SettleSucceeded(p, view)
    <3>1. Goto(p, "scan") /\ UNCHANGED <<run, token>> /\ LoadRun(p)
      BY <2>4 DEF SettleSucceeded, NextStep
    <3>2. QED BY <3>1, <2>2, <1>2, <1>c
  <2>5. CASE SettleFailed(p, view)
    <3>1. Return(p)
      BY <2>5 DEF SettleFailed
    <3>2. UNCHANGED run \/ (view.run.status \notin RunTerminal
                            /\ FlushRun(view.run, Ended(view.run, "failed")))
      BY <2>5 DEF SettleFailed
    <3>3. QED BY <3>1, <3>2, <2>2, <1>a, <1>b, LeaseReturns
  <2>6. CASE SettleRepaired(p, view)
    <3>1. Goto(p, "loop") /\ UNCHANGED token /\ LoadRun(p)
      BY <2>6 DEF SettleRepaired
    <3>2. /\ run'.status = run.status /\ run'.token = run.token /\ run'.lease = run.lease
          /\ run'.execution_attempt = run.execution_attempt
      <4> DEFINE new == IF CanRepair(p, view) THEN [view.run EXCEPT !.repair_used = @ + 1] ELSE view.run
      <4>1. /\ new \in Run /\ new.status = view.run.status /\ new.token = view.run.token
            /\ new.lease = view.run.lease /\ new.execution_attempt = view.run.execution_attempt
        BY <2>2 DEF Run
      <4>2. FlushRun(view.run, new)
        BY <2>6 DEF SettleRepaired
      <4> HIDE DEF new
      <4>3. QED BY <4>1, <4>2, <2>2, FlushWrites
    <3>3. pc[p] = "settle"
      BY <1>7 DEF Settle
    <3>4. QED BY <2>6, <3>1, <3>2, <3>3, <2>2, <1>a, <1>b, <1>c, LeaseGoesOn
  <2>7. CASE SettleRaises(p, view)
    <3>1. Goto(p, "failing") /\ LoadNow(p) /\ UNCHANGED <<run, token>>
      BY <2>7 DEF SettleRaises, stored, local
    <3>2. QED BY <3>1, <2>2, <1>2, <1>c
  <2>8. QED BY <2>1, <2>3, <2>4, <2>5, <2>6, <2>7
<1>8. CASE Publish(p)
  <2>1. UNCHANGED run /\ pc[p] \in Begun
    BY <1>8, <1>c DEF Publish, stored
  <2>2. Return(p) \/ (Goto(p, "completing") /\ LoadNow(p) /\ UNCHANGED token)
    BY <1>8 DEF Publish, local
  <2>3. QED BY <2>1, <2>2, <1>1, <1>2, <1>c
<1>9. CASE Complete(p) \/ FailRun(p)
  <2>1. pc[p] \in Begun
    BY <1>9, <1>c DEF Complete, FailRun
  <2>2. PICK view \in Views(p) :
          \/ Return(p) /\ UNCHANGED run
          \/ /\ Return(p) /\ view.run.status \notin RunTerminal
             /\ \E end \in {"completed", "failed"} : FlushRun(view.run, Ended(view.run, end))
          \/ /\ Return(p) /\ view.run.status = "completed"
             /\ FlushRun(view.run, Ended(view.run, "completed"))
          \/ Goto(p, "failing") /\ Keep(p, view) /\ UNCHANGED <<run, token>>
    BY <1>9, Terminal DEF Complete, FailRun, local, RunMay, RunTransitions
  <2>3. CASE Return(p) /\ UNCHANGED run
    BY <2>3, <1>1
  <2>4. CASE /\ Return(p) /\ view.run.status \notin RunTerminal
             /\ \E end \in {"completed", "failed"} : FlushRun(view.run, Ended(view.run, end))
    BY <2>1, <2>4, <1>a, <1>b, LeaseReturns
  <2>5. view.run.status # "completed"
    BY <2>1, <1>a, <1>b DEF Views, Now, LeaseInv, WorkerHasLease
  <2>6. CASE Goto(p, "failing") /\ Keep(p, view) /\ UNCHANGED <<run, token>>
    BY <2>1, <2>6, <1>2, <1>c
  <2>7. QED BY <2>2, <2>3, <2>4, <2>5, <2>6
<1>10. CASE GiveUp(p)
  BY <1>10, <1>1 DEF GiveUp, stored
<1>11. QED BY <1>3, <1>4, <1>5, <1>6, <1>7, <1>8, <1>9, <1>10 DEF Execute

-----------------------------------------------------------------------------
(* Steps *)

LEMMA StepInit == Init => StepInv
<1> SUFFICES ASSUME Init PROVE StepInv
  OBVIOUS
<1>1. \A i \in Steps : steps[i] = <<"pending">>
  BY DEF Init, NewSteps
<1>2. Len(<<"pending">>) = 1
  OBVIOUS
<1>3. run.status = "pending" /\ \A p \in Processes : pc[p] = "idle" /\ at[p] = 1
  BY DEF Init, NewRun, Sessions
<1>4. StepsInOrder
  BY <1>1 DEF StepsInOrder
<1>5. HeadsExist /\ OneActiveAttempt
  <2>1. \A i \in Steps : Len(steps[i]) = 1
    BY <1>1, <1>2, Zenon
  <2>2. 1..1-1 = {}
    OBVIOUS
  <2>3. HeadsExist
    BY <2>1 DEF HeadsExist
  <2>4. ASSUME NEW i \in Steps
        PROVE  \A k \in 1..Len(steps[i]) - 1 : steps[i][k] \in StepTerminal
    <3>1. Len(steps[i]) = 1
      BY <2>1
    <3>2. \A n : n = 1 => \A k \in 1..n - 1 : steps[i][k] \in StepTerminal
      OBVIOUS
    <3>3. QED BY <3>1, <3>2, Zenon
  <2>5. QED BY <2>3, <2>4 DEF OneActiveAttempt
<1>6. CompletedIsDone
  BY <1>3 DEF CompletedIsDone
<1>7. \A p \in Processes : Informed(p)
  BY <1>3 DEF Informed, Stepping, Invoking
<1>8. QED BY <1>4, <1>5, <1>6, <1>7 DEF StepInv

LEMMA Singleton ==
  ASSUME NEW q \in Seq(StepStatus), Len(q) = 1, q[1] \in {"pending", "canceled"}
  PROVE  q \in {<<"pending">>, <<"canceled">>}
<1>1. <<q[1]>> \in Seq(StepStatus) /\ Len(<<q[1]>>) = 1 /\ <<q[1]>>[1] = q[1]
  BY DEF StepStatus, RunStatus
<1>2. q = <<q[1]>>
  BY <1>1, SeqEqual
<1>3. QED BY <1>2

(* Only the worker does anything to its steps. *)
LEMMA StepOfOne ==
  ASSUME IInv, NEW p \in Processes,
         \A q \in Processes \ {p} : pc[q] = "idle" /\ pc'[q] = "idle" /\ at'[q] = at[q],
         Informed(p)', HeadsExist', OneActiveAttempt', StepsInOrder', CompletedIsDone'
  PROVE  StepInv'
<1>1. \A q \in Processes \ {p} : Informed(q)'
  BY DEF IInv, StepInv, Informed, Stepping, Invoking
<1>2. QED BY <1>1 DEF StepInv

LEMMA ReturnedInformed ==
  ASSUME TypeOK, NEW p \in Processes, Return(p)
  PROVE  Informed(p)'
<1>1. pc'[p] = "idle" /\ at'[p] = 1
  BY DEF Return, Goto, TypeOK, Sessions
<1>2. QED BY <1>1 DEF Informed, Stepping, Invoking

LEMMA Alone ==
  ASSUME TypeOK, LeaseInv, NEW p \in Processes, pc[p] # "idle",
         Return(p) \/ \E next : Goto(p, next),
         UNCHANGED at \/ \E n : at' = [at EXCEPT ![p] = n]
  PROVE  \A q \in Processes \ {p} : pc[q] = "idle" /\ pc'[q] = "idle" /\ at'[q] = at[q]
<1>1. Processes \subseteq Sessions
  BY DEF Sessions
<1>2. \E next : pc' = [pc EXCEPT ![p] = next]
  BY DEF Return, Goto
<1>3. \E n : at' = [at EXCEPT ![p] = n]
  BY DEF TypeOK
<1>4. pc \in [Sessions -> Control] /\ at \in [Processes -> 1..NumSteps + 1]
  BY DEF TypeOK
<1>5. QED BY <1>1, <1>2, <1>3, <1>4 DEF LeaseInv, OneWorker

(* A step that writes no step attempt and does not complete the run. *)
LEMMA StepMoves ==
  ASSUME IInv, NEW p \in Processes, pc[p] # "idle",
         Return(p) \/ \E next : Goto(p, next),
         UNCHANGED at \/ \E n : at' = [at EXCEPT ![p] = n],
         UNCHANGED steps, run'.status # "completed", Informed(p)'
  PROVE  StepInv'
<1>1. \A q \in Processes \ {p} : pc[q] = "idle" /\ pc'[q] = "idle" /\ at'[q] = at[q]
  BY Alone DEF IInv
<1>2. HeadsExist' /\ OneActiveAttempt' /\ StepsInOrder' /\ CompletedIsDone'
  BY DEF IInv, StepInv, HeadsExist, OneActiveAttempt, StepsInOrder, CompletedIsDone
<1>3. QED BY <1>1, <1>2, StepOfOne

(* Writing the head attempt of an index, all those before being passed. *)
LEMMA HeadWritten ==
  ASSUME IInv, NEW n \in Steps,
         \A i \in Steps : i < n => Passed(i),
         NEW st \in StepStatus,
         steps' = [steps EXCEPT ![n][Len(steps[n])] = st],
         st \in StepTerminal \/ \A j \in Steps : j = n + 1 => Unstarted(j)
  PROVE  /\ HeadsExist' /\ OneActiveAttempt' /\ StepsInOrder'
         /\ \A i \in Steps : Len(steps'[i]) = Len(steps[i])
         /\ \A i \in Steps \ {n} : steps'[i] = steps[i]
         /\ steps'[n][Len(steps'[n])] = st
<1>a. steps \in [Steps -> Seq(StepStatus)] /\ n \in Nat /\ Steps \subseteq Nat
  BY DEF IInv, TypeOK, Steps
<1>b. HeadsExist /\ OneActiveAttempt /\ StepsInOrder
  BY DEF IInv, StepInv
<1>c1. steps' \in [Steps -> Seq(StepStatus)]
  BY <1>a, EntryWritten
<1>c2. \A j \in Steps : Len(steps'[j]) = Len(steps[j])
  BY <1>a, EntryWritten
<1>c3. \A j \in Steps \ {n} : steps'[j] = steps[j]
  BY <1>a, EntryWritten
<1>c4. \A l \in 1..Len(steps[n]) :
           steps'[n][l] = IF l = Len(steps[n]) THEN st ELSE steps[n][l]
  BY <1>a, EntryWritten
<1>1. /\ steps' \in [Steps -> Seq(StepStatus)]
      /\ \A j \in Steps : Len(steps'[j]) = Len(steps[j])
      /\ \A j \in Steps \ {n} : steps'[j] = steps[j]
      /\ \A l \in 1..Len(steps[n]) :
           steps'[n][l] = IF l = Len(steps[n]) THEN st ELSE steps[n][l]
  BY <1>c1, <1>c2, <1>c3, <1>c4
<1>2. \A i \in Steps : Len(steps[i]) \in Nat /\ Len(steps[i]) >= 1
  BY <1>a, <1>b, LenProperties DEF HeadsExist
<1>3. steps'[n][Len(steps'[n])] = st
  BY <1>1, <1>2
<1>4. HeadsExist'
  BY <1>1, <1>b DEF HeadsExist
<1>5. OneActiveAttempt'
  <2> SUFFICES ASSUME NEW i \in Steps, NEW l \in 1..Len(steps'[i]) - 1
               PROVE  steps'[i][l] \in StepTerminal
    BY DEF OneActiveAttempt
  <2>1. l \in 1..Len(steps[i]) - 1 /\ l # Len(steps[i]) /\ l \in 1..Len(steps[i])
    BY <1>1, <1>2
  <2>2. steps'[i][l] = steps[i][l]
    BY <2>1, <1>1
  <2>3. QED BY <2>1, <2>2, <1>b DEF OneActiveAttempt
<1>6. StepsInOrder'
  <2> SUFFICES ASSUME NEW i \in Steps \ {1}, steps'[i] # <<"pending">>, steps'[i] # <<"canceled">>
               PROVE  steps'[i-1][Len(steps'[i-1])] \notin {"pending", "running"}
    BY DEF StepsInOrder
  <2>1. i - 1 \in Steps /\ (i - 1 = n <=> i = n + 1) /\ (i = n => i - 1 < n)
    BY <1>a, CountsAssumption DEF Steps
  <2>2. CASE i = n + 1
    <3>1. steps'[i] = steps[i]
      BY <2>2, <1>a, <1>1
    <3>2. st \in StepTerminal
      BY <3>1, <2>2 DEF Unstarted
    <3>3. QED BY <3>2, <2>1, <2>2, <1>3, Terminal
  <2>3. CASE i = n
    <3>1. steps'[i-1] = steps[i-1] /\ Passed(i-1)
      BY <2>3, <2>1, <1>a, <1>1
    <3>2. QED BY <3>1 DEF Passed
  <2>4. CASE i # n /\ i # n + 1
    BY <2>4, <2>1, <1>1, <1>b DEF StepsInOrder
  <2>5. QED BY <2>2, <2>3, <2>4
<1>7. QED BY <1>1, <1>3, <1>4, <1>5, <1>6

(* Canceling attempts. *)
LEMMA StepCancel ==
  ASSUME IInv, NEW u \in Users, Cancel(u)
  PROVE  StepInv'
<1>a. /\ steps \in [Steps -> Seq(StepStatus)] /\ Steps \subseteq Nat
      /\ u \in Sessions /\ u \notin Processes /\ Processes \subseteq Sessions
      /\ pc \in [Sessions -> Control] /\ copy \in [Sessions -> Database]
  BY ProcessesAssumption DEF IInv, TypeOK, Steps, Sessions
<1>b. HeadsExist /\ OneActiveAttempt /\ StepsInOrder /\ CompletedIsDone
      /\ \A p \in Processes : Informed(p)
  BY DEF IInv, StepInv
<1>c. UNCHANGED <<at, plan, attempt, proposals>>
      /\ \A p \in Processes : pc'[p] = pc[p] /\ copy'[p] = copy[p]
  BY <1>a DEF Cancel, CancelRead, CancelCommit, Goto, LoadNow, stored, local
<1>1. CASE CancelRead(u)
  <2>1. UNCHANGED <<run, steps>>
    BY <1>1 DEF CancelRead, stored
  <2>2. ASSUME NEW p \in Processes
        PROVE  Informed(p)'
    <3>1. /\ Informed(p) /\ pc'[p] = pc[p] /\ copy'[p] = copy[p]
          /\ steps' = steps /\ at' = at /\ plan' = plan /\ attempt' = attempt
          /\ proposals' = proposals
      BY <2>1, <1>b, <1>c
    <3>2. QED BY <3>1 DEF Informed, OnlyCanceled, Passed, Unstarted
  <2>3. QED BY <2>1, <2>2, <1>b, <1>c
            DEF StepInv, HeadsExist, OneActiveAttempt, StepsInOrder, CompletedIsDone
<1>2. CASE CancelCommit(u)
  <2>1. /\ steps' \in [Steps -> Seq(StepStatus)]
        /\ \A i \in Steps : /\ Len(steps'[i]) = Len(steps[i])
                            /\ \A k \in 1..Len(steps[i]) :
                                 steps'[i][k] \in {steps[i][k], "canceled"}
    BY <1>2, StepsCanceled DEF IInv
  <2>2. \A i \in Steps : Len(steps[i]) \in Nat /\ Len(steps[i]) \in 1..Len(steps[i])
    BY <1>a, <1>b, LenProperties DEF HeadsExist
  <2>3. \A i \in Steps : Passed(i) => Passed(i)'
    BY <2>1, <2>2 DEF Passed
  <2>4. ASSUME NEW i \in Steps, Unstarted(i)
        PROVE  Unstarted(i)'
    <3>1. Len(steps[i]) = 1 /\ steps[i][1] \in {"pending", "canceled"}
      BY <2>4 DEF Unstarted
    <3>2. Len(steps'[i]) = 1 /\ steps'[i][1] \in {"pending", "canceled"}
      BY <3>1, <2>1
    <3>3. QED BY <3>2, <2>1, Singleton DEF Unstarted
  <2>5. HeadsExist'
    BY <2>1, <1>b DEF HeadsExist
  <2>6. OneActiveAttempt'
    BY <2>1, <2>2, <1>b, Terminal DEF OneActiveAttempt
  <2>7. StepsInOrder'
    <3> SUFFICES ASSUME NEW i \in Steps \ {1}, ~Unstarted(i)'
                 PROVE  Passed(i-1)'
      BY DEF StepsInOrder, Passed, Unstarted
    <3>1. i - 1 \in Steps
      BY CountsAssumption DEF Steps
    <3>2. ~Unstarted(i)
      BY <2>4
    <3>3. Passed(i-1)
      BY <3>2, <1>b DEF StepsInOrder, Unstarted, Passed
    <3>4. QED BY <3>1, <3>3, <2>3
  <2>8. CompletedIsDone'
    <3>1. run'.status # "completed" \/ run'.status = run.status
      BY <1>2, LeaseCancel DEF IInv, Cancel
    <3>2. QED BY <3>1, <2>1, <2>2, <1>b, <1>c DEF CompletedIsDone
  <2>9. ASSUME NEW p \in Processes
        PROVE  Informed(p)'
    <3>1. ASSUME NEW old, OnlyCanceled(old)
          PROVE  OnlyCanceled(old)'
      BY <3>1, <2>1, <2>2 DEF OnlyCanceled
    <3>2. pc[p] \in {"step", "call", "settle"} => OnlyCanceled(copy[p].steps)'
      <4> SUFFICES ASSUME pc[p] \in {"step", "call", "settle"}
                   PROVE  OnlyCanceled(copy[p].steps)'
        OBVIOUS
      <4>1. OnlyCanceled(copy[p].steps) /\ copy'[p].steps = copy[p].steps
        BY <1>b, <1>c DEF Informed
      <4>2. QED BY <4>1, <2>1, <2>2 DEF OnlyCanceled
    <3>3. QED BY <3>2, <2>1, <2>3, <2>4, <1>b, <1>c DEF Informed
  <2>10. QED BY <2>5, <2>6, <2>7, <2>8, <2>9 DEF StepInv
<1>3. QED BY <1>1, <1>2 DEF Cancel

(* The steps as a worker sees them are those of the database, but that some *)
(* may have been canceled.                                                 *)
LEMMA SeesSteps ==
  ASSUME IInv, NEW p \in Processes, pc[p] \in {"step", "call", "settle"}, NEW view \in Views(p)
  PROVE  OnlyCanceled(view.steps)
<1>1. OnlyCanceled(copy[p].steps)
  BY DEF IInv, StepInv, Informed
<1>2. OnlyCanceled(Now.steps)
  BY DEF OnlyCanceled, Now
<1>3. QED BY <1>1, <1>2 DEF Views

LEMMA StepBegin ==
  ASSUME IInv, NEW p \in Processes, Begin(p)
  PROVE  StepInv'
<1>a. /\ pc[p] = "claimed" /\ UNCHANGED <<run, steps>>
      /\ run.status # "completed" /\ at[p] = 1 /\ TypeOK
  BY DEF Begin, stored, IInv, LeaseInv, WorkerHasLease, StepInv, Informed
<1>1. CASE Return(p)
  <2>1. \E n : at' = [at EXCEPT ![p] = n]
    BY <1>1 DEF Return
  <2>2. QED BY <1>a, <1>1, <2>1, ReturnedInformed, StepMoves
<1>2. CASE ~Return(p)
  <2>1. /\ Goto(p, "scan") \/ Goto(p, "failing")
        /\ UNCHANGED at
        /\ plan' = [plan EXCEPT ![p] = [i \in Steps |-> Len(steps[i])]]
    BY <1>2 DEF Begin
  <2>2. pc'[p] \in {"scan", "failing"} /\ plan'[p] = [i \in Steps |-> Len(steps[i])]
    BY <2>1, <1>a DEF Goto, TypeOK, Sessions
  <2>3. \A i \in Steps : ~(i < 1)
    BY DEF Steps
  <2>4. Informed(p)'
    BY <1>a, <2>1, <2>2, <2>3 DEF Informed, Stepping, Invoking
  <2>5. QED BY <1>a, <2>1, <2>4, StepMoves
<1>3. QED BY <1>1, <1>2

(* Where the worker gives up, it needs to know nothing. *)
LEMMA StepFailing ==
  ASSUME IInv, NEW p \in Processes, pc[p] # "idle",
         NEW next \in {"failing", "unrecorded"}, Goto(p, next),
         UNCHANGED <<run, steps, at>>
  PROVE  StepInv'
<1>1. pc'[p] = next
  BY DEF Goto, IInv, TypeOK, Sessions
<1>2. Informed(p)'
  BY <1>1 DEF Informed, Stepping, Invoking
<1>3. run.status # "completed"
  BY DEF IInv, LeaseInv, WorkerHasLease
<1>4. QED BY <1>2, <1>3, StepMoves

(* Reading the run again tells the worker nothing about the steps. *)
LEMMA StepReread ==
  ASSUME IInv, NEW p \in Processes, Reread(p)
  PROVE  StepInv'
<1>1. /\ pc[p] \in {"scan", "loop", "returned"} /\ TypeOK /\ Informed(p)
      /\ UNCHANGED <<run, steps, at, plan, attempt, proposals, pc>>
      /\ run.status # "completed"
  BY DEF Reread, stored, local, IInv, LeaseInv, WorkerHasLease, StepInv
<1>2. Goto(p, pc[p])
  BY <1>1 DEF Goto, TypeOK
<1>3. Informed(p)'
  BY <1>1 DEF Informed, Passed, Unstarted
<1>4. QED BY <1>1, <1>2, <1>3, StepMoves

LEMMA StepRenew ==
  ASSUME IInv, NEW p \in Processes, Renew(p)
  PROVE  StepInv'
<1>a. /\ pc[p] \in {"scan", "loop", "returned"}
      /\ UNCHANGED <<run, steps, at, plan, attempt, proposals>>
      /\ run.status # "completed" /\ TypeOK /\ Informed(p) /\ StepsInOrder
  BY DEF Renew, stored, local, IInv, LeaseInv, WorkerHasLease, StepInv
<1>b. /\ p \in Sessions /\ Now.steps = steps
      /\ at[p] \in 1..NumSteps + 1 /\ NumSteps \in Nat /\ Steps = 1..NumSteps
  BY <1>a, CountsAssumption DEF Now, Sessions, Steps, TypeOK
<1>1. CASE Owns(p)
  <2>0. copy' = [copy EXCEPT ![p] = Now]
    BY <1>1 DEF Renew, LoadNow
  <2>1. PICK next \in {"publish", "step", "call", "settle"} :
          /\ pc' = [pc EXCEPT ![p] = next]
          /\ next = "publish" => pc[p] = "scan" /\ at[p] > NumSteps
          /\ next = "step" => pc[p] = "scan" /\ ~(at[p] > NumSteps)
          /\ next \in {"call", "settle"} => pc[p] \in Invoking
    BY <1>a, <1>1 DEF Renew, Goto, AfterRenewal, Invoking
  <2>2. pc'[p] = next /\ copy'[p].steps = steps
    BY <2>1, <1>a, <1>b, <2>0 DEF TypeOK
  <2>3. OnlyCanceled(steps)'
    BY <1>a DEF OnlyCanceled
  <2>4. Informed(p)'
    <3>1. next \in {"step", "call", "settle"} => OnlyCanceled(copy[p].steps)'
      BY <2>2, <1>a, <2>0 DEF OnlyCanceled
    <3>2. CASE next = "publish"
      BY <3>2, <1>a, <1>b, <2>1, <2>2 DEF Informed, Stepping, Invoking, Passed
    <3>3. CASE next = "step"
      <4>1. at[p] \in Steps /\ plan[p][at[p]] = Len(steps[at[p]])
        BY <3>3, <1>a, <1>b, <2>1 DEF Informed
      <4>2. ASSUME steps[at[p]][plan[p][at[p]]] \in {"pending", "running"},
                   NEW j \in Steps, j = at[p] + 1
            PROVE  Unstarted(j)
        <5>1. j \in Steps \ {1} /\ j - 1 = at[p]
          BY <4>1, <4>2, <1>b
        <5>2. ~(steps[j-1][Len(steps[j-1])] \notin {"pending", "running"})
          BY <5>1, <4>1, <4>2
        <5>3. QED BY <5>1, <5>2, <1>a DEF StepsInOrder, Unstarted
      <4>3. \A i \in Steps : i < at[p] => Passed(i)
        BY <3>3, <1>a, <2>1 DEF Informed, Stepping
      <4>4. \A i \in Steps : i > at[p] => plan[p][i] = Len(steps[i])
        BY <3>3, <1>a, <2>1 DEF Informed, Stepping
      <4>5. QED BY <3>1, <3>3, <4>1, <4>2, <4>3, <4>4, <1>a, <2>2
                DEF Informed, Stepping, Invoking, Passed, Unstarted
    <3>4. CASE next \in {"call", "settle"}
      <4>1. pc[p] \in Invoking
        BY <3>4, <2>1
      <4>2. /\ at[p] \in Steps
            /\ \A i \in Steps : i < at[p] => Passed(i)
            /\ \A i \in Steps : i > at[p] => plan[p][i] = Len(steps[i])
            /\ attempt[p] = Len(steps[at[p]])
            /\ \A j \in Steps : j = at[p] + 1 => Unstarted(j)
        BY <4>1, <1>a DEF Informed, Stepping
      <4>3. QED BY <3>1, <3>4, <4>2, <1>a, <2>2 DEF Informed, Stepping, Invoking, Passed, Unstarted
    <3>5. QED BY <3>2, <3>3, <3>4
  <2>5. \E n : Goto(p, n)
    BY <2>1 DEF Goto
  <2>6. QED BY <1>a, <2>4, <2>5, StepMoves
<1>2. CASE ~Owns(p)
  <2>1. Goto(p, "failing") /\ pc[p] # "idle"
    BY <1>2, <1>a DEF Renew
  <2>2. QED BY <2>1, <1>a, StepFailing
<1>3. QED BY <1>1, <1>2

(* Where the worker returns without touching a step. *)
LEMMA StepReturns ==
  ASSUME IInv, NEW p \in Processes, pc[p] # "idle", Return(p), UNCHANGED steps,
         run'.status # "completed"
  PROVE  StepInv'
<1>1. \E n : at' = [at EXCEPT ![p] = n]
  BY DEF Return
<1>2. Informed(p)'
  BY ReturnedInformed DEF IInv
<1>3. QED BY <1>1, <1>2, StepMoves

(* The index is done: the worker goes on to the next. *)
LEMMA NextInformed ==
  ASSUME IInv, NEW p \in Processes, pc[p] \in {"step"} \cup Invoking,
         pc' = [pc EXCEPT ![p] = "scan"], at' = [at EXCEPT ![p] = at[p] + 1], UNCHANGED plan,
         \A i \in Steps : Len(steps'[i]) = Len(steps[i]),
         NEW n \in Steps, n = at[p], Passed(n)',
         \A i \in Steps \ {n} : steps'[i] = steps[i]
  PROVE  Informed(p)'
<1>a. Informed(p) /\ TypeOK /\ p \in Sessions /\ Steps \subseteq Nat /\ at[p] \in Nat
  BY DEF IInv, StepInv, Sessions, Steps, TypeOK
<1>1. pc'[p] = "scan" /\ at'[p] = at[p] + 1
  BY <1>a DEF TypeOK
<1>2. /\ at[p] \in Steps
      /\ \A i \in Steps : i < at[p] => Passed(i)
      /\ \A i \in Steps : i > at[p] => plan[p][i] = Len(steps[i])
  BY <1>a DEF Informed, Stepping
<1>3. ASSUME NEW i \in Steps, i < at[p] + 1
      PROVE  Passed(i)'
  <2>1. CASE i = n
    BY <2>1
  <2>2. CASE i # n
    <3>1. i < at[p]
      BY <2>2, <1>3, <1>a
    <3>2. QED BY <2>2, <3>1, <1>2 DEF Passed
  <2>3. QED BY <2>1, <2>2
<1>4. \A i \in Steps : i >= at[p] + 1 => plan'[p][i] = Len(steps'[i])
  BY <1>2, <1>a
<1>5. \A i \in Steps : i < at'[p] => Passed(i)'
  BY <1>1, <1>3
<1>6. /\ \A i \in Steps : i > at'[p] => plan'[p][i] = Len(steps'[i])
      /\ at'[p] \in Steps => plan'[p][at'[p]] = Len(steps'[at'[p]])
  BY <1>1, <1>4, <1>a
<1>7. QED BY <1>1, <1>5, <1>6 DEF Informed, Stepping, Invoking

(* The head attempt completes. *)
LEMMA StepCompletes ==
  ASSUME IInv, NEW p \in Processes, pc[p] \in Invoking, NextStep(p), UNCHANGED <<run, proposals>>,
         steps' = [steps EXCEPT ![at[p]][attempt[p]] = "completed"]
  PROVE  StepInv'
<1>a. Informed(p) /\ TypeOK /\ pc[p] # "idle" /\ run.status # "completed"
  BY DEF IInv, StepInv, LeaseInv, WorkerHasLease, Invoking
<1>b. PICK n \in Steps : n = at[p]
  BY <1>a DEF Informed
<1>c. /\ attempt[p] = Len(steps[n])
      /\ \A i \in Steps : i < n => Passed(i)
  BY <1>a, <1>b DEF Informed, Stepping
<1>1. "completed" \in StepStatus /\ "completed" \in StepTerminal
  BY Terminal DEF StepStatus, RunStatus
<1>2. steps' = [steps EXCEPT ![n][Len(steps[n])] = "completed"]
  BY <1>b, <1>c
<1>3. /\ HeadsExist' /\ OneActiveAttempt' /\ StepsInOrder'
      /\ \A i \in Steps : Len(steps'[i]) = Len(steps[i])
      /\ \A i \in Steps \ {n} : steps'[i] = steps[i]
      /\ steps'[n][Len(steps'[n])] = "completed"
  BY <1>1, <1>2, <1>c, HeadWritten
<1>4. /\ pc' = [pc EXCEPT ![p] = "scan"] /\ at' = [at EXCEPT ![p] = at[p] + 1] /\ UNCHANGED plan
  BY DEF NextStep, Goto
<1>5. Passed(n)'
  BY <1>3 DEF Passed
<1>6. Informed(p)'
  BY <1>3, <1>4, <1>5, <1>b, NextInformed
<1>7. CompletedIsDone'
  BY <1>a DEF CompletedIsDone
<1>8. \A q \in Processes \ {p} : pc[q] = "idle" /\ pc'[q] = "idle" /\ at'[q] = at[q]
  <2>1. \E next : Goto(p, next)
    BY DEF NextStep
  <2>2. \E m : at' = [at EXCEPT ![p] = m]
    BY <1>4
  <2>3. QED BY <1>a, <2>1, <2>2, Alone DEF IInv
<1>9. QED BY <1>3, <1>6, <1>7, <1>8, StepOfOne

LEMMA StepStart ==
  ASSUME IInv, NEW p \in Processes, StartStep(p)
  PROVE  StepInv'
<1>a. /\ pc[p] = "step" /\ pc[p] # "idle" /\ Informed(p) /\ TypeOK /\ StepsInOrder
      /\ run.status # "completed" /\ p \in Sessions /\ HeadsExist
  BY DEF StartStep, IInv, StepInv, LeaseInv, WorkerHasLease, Sessions
<1>b. PICK n \in Steps : n = at[p]
  BY <1>a DEF Informed
<1>c. /\ plan[p][n] = Len(steps[n]) /\ Len(steps[n]) \in 1..Len(steps[n])
      /\ \A i \in Steps : i < n => Passed(i)
      /\ \A i \in Steps : i > n => plan[p][i] = Len(steps[i])
  <2>1. Len(steps[n]) \in Nat /\ Len(steps[n]) >= 1
    BY <1>a, LenProperties DEF TypeOK, HeadsExist
  <2>2. QED BY <2>1, <1>a, <1>b DEF Informed, Stepping
<1>1. PICK view \in Views(p) :
        \/ Return(p) /\ UNCHANGED stored
        \/ /\ view.steps[n][plan[p][n]] \in Finished
           /\ at' = [at EXCEPT ![p] = n + 1]
           /\ Goto(p, "scan")
           /\ UNCHANGED <<stored, plan>>
        \/ Goto(p, "failing") /\ UNCHANGED <<stored, local>>
        \/ /\ view.steps[n][plan[p][n]] \in {"pending", "running"}
           /\ \/ steps' = [steps EXCEPT ![n][plan[p][n]] = "running"]
              \/ steps' = steps
           /\ attempt' = [attempt EXCEPT ![p] = plan[p][n]]
           /\ Goto(p, "loop")
           /\ UNCHANGED <<run, proposals, at, plan>>
  BY <1>b DEF StartStep
<1>2. OnlyCanceled(view.steps)
  BY <1>a, SeesSteps
<1>3. steps[n][Len(steps[n])] \in {view.steps[n][plan[p][n]], "canceled"}
  BY <1>2, <1>c DEF OnlyCanceled
<1>4. CASE Return(p) /\ UNCHANGED stored
  BY <1>4, <1>a, StepReturns DEF stored
<1>5. CASE /\ view.steps[n][plan[p][n]] \in Finished
           /\ at' = [at EXCEPT ![p] = n + 1]
           /\ Goto(p, "scan")
           /\ UNCHANGED <<stored, plan>>
  <2>1. UNCHANGED <<run, steps>> /\ pc' = [pc EXCEPT ![p] = "scan"] /\ at' = [at EXCEPT ![p] = at[p] + 1]
    BY <1>5, <1>b DEF stored, Goto
  <2>2. Passed(n)
    BY <1>5, <1>3 DEF Finished, Passed
  <2>3. Passed(n)'
    BY <2>1, <2>2 DEF Passed
  <2>4. Informed(p)'
    BY <2>1, <2>3, <1>5, <1>a, <1>b, NextInformed
  <2>5. \E m : at' = [at EXCEPT ![p] = m]
    BY <1>5
  <2>6. QED BY <2>1, <2>4, <2>5, <1>5, <1>a, StepMoves
<1>6. CASE Goto(p, "failing") /\ UNCHANGED <<stored, local>>
  BY <1>6, <1>a, StepFailing DEF stored, local
<1>7. CASE /\ view.steps[n][plan[p][n]] \in {"pending", "running"}
           /\ \/ steps' = [steps EXCEPT ![n][plan[p][n]] = "running"]
              \/ steps' = steps
           /\ attempt' = [attempt EXCEPT ![p] = plan[p][n]]
           /\ Goto(p, "loop")
           /\ UNCHANGED <<run, proposals, at, plan>>
  <2>1. ASSUME NEW j \in Steps, j = n + 1
        PROVE  Unstarted(j)
    <3>1. CASE view.steps = copy[p].steps
      BY <3>1, <2>1, <1>7, <1>a, <1>b DEF Informed
    <3>2. CASE view.steps = steps
      <4>1. j \in Steps \ {1} /\ j - 1 = n
        BY <2>1 DEF Steps
      <4>2. ~(steps[j-1][Len(steps[j-1])] \notin {"pending", "running"})
        BY <4>1, <3>2, <1>7, <1>c
      <4>3. QED BY <4>1, <4>2, <1>a DEF StepsInOrder, Unstarted
    <3>3. QED BY <3>1, <3>2 DEF Views, Now
  <2>2. /\ HeadsExist' /\ OneActiveAttempt' /\ StepsInOrder'
        /\ \A i \in Steps : Len(steps'[i]) = Len(steps[i])
        /\ \A i \in Steps \ {n} : steps'[i] = steps[i]
    <3>1. CASE steps' = [steps EXCEPT ![n][plan[p][n]] = "running"]
      <4>1. steps' = [steps EXCEPT ![n][Len(steps[n])] = "running"] /\ "running" \in StepStatus
        BY <3>1, <1>c DEF StepStatus, RunStatus
      <4>2. QED BY <4>1, <2>1, <1>c, HeadWritten
    <3>2. CASE steps' = steps
      BY <3>2 DEF IInv, StepInv, HeadsExist, OneActiveAttempt, StepsInOrder
    <3>3. QED BY <1>7, <3>1, <3>2
  <2>3. pc'[p] = "loop" /\ attempt'[p] = Len(steps[n])
    BY <1>7, <1>a, <1>c DEF Goto, TypeOK
  <2>4. \A i \in Steps : i < n => Passed(i)'
    BY <2>2, <1>c DEF Passed, Steps
  <2>5. \A j \in Steps : j = n + 1 => Unstarted(j)'
    BY <2>1, <2>2 DEF Unstarted, Steps
  <2>6. at'[p] = n /\ plan' = plan
    BY <1>7, <1>b
  <2>7. Informed(p)'
    BY <2>2, <2>3, <2>4, <2>5, <2>6, <1>c DEF Informed, Stepping, Invoking
  <2>8. CompletedIsDone'
    BY <1>7, <1>a DEF CompletedIsDone
  <2>9. \A q \in Processes \ {p} : pc[q] = "idle" /\ pc'[q] = "idle" /\ at'[q] = at[q]
    BY <1>7, <1>a, Alone DEF IInv
  <2>10. QED BY <2>2, <2>7, <2>8, <2>9, StepOfOne
<1>8. QED BY <1>1, <1>4, <1>5, <1>6, <1>7

(* The worker waits for the provider; it knows what it knew. *)
LEMMA StepInvokes ==
  ASSUME IInv, NEW p \in Processes, pc[p] \in Invoking,
         NEW next \in {"invoking", "returned"}, Goto(p, next),
         UNCHANGED <<run, steps, proposals, at, plan, attempt>>
  PROVE  StepInv'
<1>1. pc'[p] = next
  BY DEF Goto, IInv, TypeOK, Sessions
<1>2. Informed(p) /\ run.status # "completed" /\ pc[p] # "idle"
  BY DEF IInv, StepInv, LeaseInv, WorkerHasLease, Invoking
<1>3. Informed(p)'
  BY <1>1, <1>2 DEF Informed, Stepping, Invoking, Passed, Unstarted
<1>4. QED BY <1>2, <1>3, StepMoves

LEMMA StepCall ==
  ASSUME IInv, NEW p \in Processes, CallProvider(p)
  PROVE  StepInv'
<1>a. pc[p] \in Invoking /\ pc[p] # "idle" /\ run.status # "completed"
  BY DEF CallProvider, Invoking, IInv, LeaseInv, WorkerHasLease
<1>1. PICK view \in Views(p) :
        \/ Return(p) /\ UNCHANGED stored
        \/ /\ steps' = [steps EXCEPT ![at[p]][attempt[p]] = "completed"]
           /\ NextStep(p)
           /\ UNCHANGED <<run, invocations, proposals>>
        \/ Goto(p, "failing") /\ UNCHANGED <<stored, local>>
        \/ Goto(p, "invoking") /\ UNCHANGED <<run, steps, proposals, local>>
  BY DEF CallProvider
<1>2. CASE Return(p) /\ UNCHANGED stored
  BY <1>2, <1>a, StepReturns DEF stored
<1>3. CASE /\ steps' = [steps EXCEPT ![at[p]][attempt[p]] = "completed"]
           /\ NextStep(p)
           /\ UNCHANGED <<run, invocations, proposals>>
  BY <1>3, <1>a, StepCompletes
<1>4. CASE Goto(p, "failing") /\ UNCHANGED <<stored, local>>
  BY <1>4, <1>a, StepFailing DEF stored, local
<1>5. CASE Goto(p, "invoking") /\ UNCHANGED <<run, steps, proposals, local>>
  BY <1>5, <1>a, StepInvokes DEF local
<1>6. QED BY <1>1, <1>2, <1>3, <1>4, <1>5

(* A worker that fails the run fails its attempt with it. *)
LEMMA StepFails ==
  ASSUME IInv, NEW p \in Processes, pc[p] = "settle", NEW view \in Views(p),
         SettleFailed(p, view), run'.status # "completed"
  PROVE  StepInv'
<1>a. Informed(p) /\ TypeOK /\ pc[p] # "idle" /\ Return(p)
  BY DEF IInv, StepInv, SettleFailed
<1>b. PICK n \in Steps : n = at[p]
  BY <1>a DEF Informed, Invoking
<1>c. attempt[p] = Len(steps[n]) /\ \A i \in Steps : i < n => Passed(i)
  BY <1>a, <1>b DEF Informed, Stepping, Invoking
<1>1. steps' = steps \/ steps' = [steps EXCEPT ![n][Len(steps[n])] = "failed"]
  BY <1>b, <1>c DEF SettleFailed
<1>2. CASE steps' = steps
  BY <1>2, <1>a, StepReturns
<1>3. CASE steps' = [steps EXCEPT ![n][Len(steps[n])] = "failed"]
  <2>1. "failed" \in StepStatus /\ "failed" \in StepTerminal
    BY Terminal DEF StepStatus, RunStatus
  <2>2. HeadsExist' /\ OneActiveAttempt' /\ StepsInOrder'
    BY <1>3, <1>c, <2>1, HeadWritten
  <2>3. Informed(p)'
    BY <1>a, ReturnedInformed
  <2>4. \A q \in Processes \ {p} : pc[q] = "idle" /\ pc'[q] = "idle" /\ at'[q] = at[q]
    <3>1. \E m : at' = [at EXCEPT ![p] = m]
      BY <1>a DEF Return
    <3>2. QED BY <3>1, <1>a, Alone DEF IInv
  <2>5. QED BY <2>2, <2>3, <2>4, StepOfOne DEF CompletedIsDone
<1>4. QED BY <1>1, <1>2, <1>3

(* A repaired attempt is replaced by a running one. *)
LEMMA StepRepairs ==
  ASSUME IInv, NEW p \in Processes, pc[p] = "settle", NEW view \in Views(p),
         SettleRepaired(p, view), run'.status # "completed"
  PROVE  StepInv'
<1>a. Informed(p) /\ TypeOK /\ pc[p] # "idle" /\ p \in Sessions
      /\ HeadsExist /\ OneActiveAttempt /\ StepsInOrder
  BY DEF IInv, StepInv, Sessions
<1>b. PICK n \in Steps : n = at[p]
  BY <1>a DEF Informed, Invoking
<1>c. /\ attempt[p] = Len(steps[n])
      /\ \A i \in Steps : i < n => Passed(i)
      /\ \A i \in Steps : i > n => plan[p][i] = Len(steps[i])
      /\ \A j \in Steps : j = n + 1 => Unstarted(j)
  BY <1>a, <1>b DEF Informed, Stepping, Invoking
<1>d. Len(steps[n]) \in Nat /\ Len(steps[n]) >= 1 /\ steps \in [Steps -> Seq(StepStatus)]
      /\ Steps \subseteq Nat
  BY <1>a, LenProperties DEF TypeOK, HeadsExist, Steps
<1>e. PICK last : last = Replaced(p, view)
  OBVIOUS
<1>1. steps' = [steps EXCEPT ![n] = Append(last, "running")]
  BY <1>b, <1>e DEF SettleRepaired
<1>2. /\ last \in Seq(StepStatus) /\ Len(last) = Len(steps[n])
      /\ \A k \in 1..Len(steps[n]) \ {Len(steps[n])} : last[k] = steps[n][k]
      /\ \/ last[Len(steps[n])] = "failed"
         \/ last[Len(steps[n])] = steps[n][Len(steps[n])] /\ Active(p, view) \in StepTerminal
  <2>1. at[p] \in Steps /\ attempt[p] \in 1..Len(steps[at[p]])
    BY <1>b, <1>c, <1>d
  <2>2. QED BY <2>1, <1>a, <1>b, <1>c, <1>e, Replacement
<1>3. last[Len(steps[n])] \in StepTerminal
  <2>1. steps[n][Len(steps[n])] \in {view.steps[n][Len(steps[n])], "canceled"}
    <3>1. OnlyCanceled(view.steps)
      BY SeesSteps
    <3>2. Len(steps[n]) \in 1..Len(steps[n])
      BY <1>d
    <3>3. QED BY <3>1, <3>2 DEF OnlyCanceled
  <2>2. Active(p, view) = view.steps[n][Len(steps[n])]
    BY <1>b, <1>c DEF Active
  <2>3. QED BY <2>1, <2>2, <1>2, Terminal
<1>4. "running" \in StepStatus
  BY DEF StepStatus, RunStatus
<1>5. /\ steps'[n] = Append(last, "running")
      /\ Len(steps'[n]) = Len(steps[n]) + 1
      /\ \A k \in 1..Len(steps[n]) : steps'[n][k] = last[k]
      /\ \A i \in Steps \ {n} : steps'[i] = steps[i]
  BY <1>1, <1>2, <1>4, <1>d, AppendProperties
<1>6. HeadsExist'
  BY <1>5, <1>a, <1>d DEF HeadsExist
<1>7. OneActiveAttempt'
  <2> SUFFICES ASSUME NEW i \in Steps
               PROVE  \A k \in 1..Len(steps'[i]) - 1 : steps'[i][k] \in StepTerminal
    BY DEF OneActiveAttempt
  <2>1. CASE i # n
    BY <2>1, <1>5, <1>a DEF OneActiveAttempt
  <2>2. CASE i = n
    <3> SUFFICES ASSUME NEW k \in 1..Len(steps[n]) PROVE last[k] \in StepTerminal
      BY <2>2, <1>5, <1>d
    <3>1. CASE k = Len(steps[n])
      BY <3>1, <1>3
    <3>2. CASE k # Len(steps[n])
      <4>1. k \in 1..Len(steps[n]) - 1
        BY <3>2, <1>d
      <4>2. QED BY <4>1, <3>2, <1>2, <1>a DEF OneActiveAttempt
    <3>3. QED BY <3>1, <3>2
  <2>3. QED BY <2>1, <2>2
<1>8. StepsInOrder'
  <2> SUFFICES ASSUME NEW i \in Steps \ {1}, steps'[i] # <<"pending">>, steps'[i] # <<"canceled">>
               PROVE  steps'[i-1][Len(steps'[i-1])] \notin {"pending", "running"}
    BY DEF StepsInOrder
  <2>1. i - 1 \in Steps /\ (i - 1 = n <=> i = n + 1) /\ (i = n => i - 1 < n)
    BY <1>d, CountsAssumption DEF Steps
  <2>2. i # n + 1
    BY <1>5, <1>c, <1>d DEF Unstarted
  <2>3. CASE i = n
    <3>1. steps'[i-1] = steps[i-1] /\ Passed(i-1)
      BY <2>3, <2>1, <1>c, <1>d, <1>5
    <3>2. QED BY <3>1 DEF Passed
  <2>4. CASE i # n
    BY <2>1, <2>2, <2>4, <1>5, <1>a DEF StepsInOrder
  <2>5. QED BY <2>3, <2>4
<1>9. /\ Goto(p, "loop") /\ UNCHANGED <<at, plan>>
      /\ attempt' = [attempt EXCEPT ![p] = @ + 1]
  BY DEF SettleRepaired
<1>10. Informed(p)'
  <2>1. pc'[p] = "loop" /\ attempt'[p] = Len(steps'[n]) /\ at'[p] = n /\ plan' = plan
    BY <1>9, <1>5, <1>a, <1>b, <1>c DEF Goto, TypeOK
  <2>2. ASSUME NEW i \in Steps, i < n
        PROVE  Passed(i)'
    <3>1. i # n
      BY <2>2, <1>d
    <3>2. steps'[i] = steps[i] /\ Passed(i)
      BY <2>2, <3>1, <1>5, <1>c
    <3>3. QED BY <3>2 DEF Passed
  <2>a. \A i \in Steps : i > n => steps'[i] = steps[i]
    <3>1. \A i \in Steps : i > n => i # n
      BY <1>d
    <3>2. QED BY <3>1, <1>5
  <2>3. \A j \in Steps : j = n + 1 => Unstarted(j)'
    <3>1. \A j \in Steps : j = n + 1 => j > n
      BY <1>d
    <3>2. QED BY <3>1, <2>a, <1>c DEF Unstarted
  <2>4. \A i \in Steps : i > n => plan[p][i] = Len(steps'[i])
    BY <2>a, <1>c, Zenon
  <2>5. QED BY <2>1, <2>2, <2>3, <2>4 DEF Informed, Stepping, Invoking
<1>11. \A q \in Processes \ {p} : pc[q] = "idle" /\ pc'[q] = "idle" /\ at'[q] = at[q]
  BY <1>9, <1>a, Alone DEF IInv
<1>12. QED BY <1>6, <1>7, <1>8, <1>10, <1>11, StepOfOne DEF CompletedIsDone

LEMMA StepSettle ==
  ASSUME IInv, NEW p \in Processes, Settle(p), LeaseInv'
  PROVE  StepInv'
<1>a. pc[p] = "settle" /\ pc[p] \in Invoking /\ pc[p] # "idle" /\ run.status # "completed"
  BY DEF Settle, Invoking, IInv, LeaseInv, WorkerHasLease
<1>1. PICK view \in Views(p) :
        \/ SettleCanceled(p, view)
        \/ SettleSucceeded(p, view)
        \/ SettleFailed(p, view)
        \/ SettleRepaired(p, view)
        \/ SettleRaises(p, view)
  BY DEF Settle
<1>2. CASE SettleCanceled(p, view)
  BY <1>2, <1>a, StepReturns DEF SettleCanceled
<1>3. CASE SettleSucceeded(p, view)
  BY <1>3, <1>a, StepCompletes DEF SettleSucceeded
<1>b. view.run \in Run /\ run \in Run
  BY ViewsTyped DEF IInv, TypeOK, Sessions
<1>4. CASE SettleFailed(p, view)
  <2>1. run'.status # "completed"
    <3>1. CASE FlushRun(view.run, Ended(view.run, "failed")) /\ view.run.status \notin RunTerminal
      <4>1. WellFormed(view.run)
        BY DEF IInv, LeaseInv, RowsWellFormed, Views, Now, Sessions
      <4>2. QED BY <3>1, <4>1, <1>b, EndWrites
    <3>2. QED BY <3>1, <1>4, <1>a DEF SettleFailed
  <2>2. QED BY <2>1, <1>4, <1>a, StepFails
<1>5. CASE SettleRepaired(p, view)
  <2>1. run'.status # "completed"
    <3>1. pc'[p] = "loop"
      BY <1>5 DEF SettleRepaired, Goto, IInv, TypeOK, Sessions
    <3>2. QED BY <3>1 DEF LeaseInv, WorkerHasLease
  <2>2. QED BY <2>1, <1>5, <1>a, StepRepairs
<1>6. CASE SettleRaises(p, view)
  BY <1>6, <1>a, StepFailing DEF SettleRaises, stored, local
<1>7. QED BY <1>1, <1>2, <1>3, <1>4, <1>5, <1>6

LEMMA StepEnds ==
  ASSUME IInv, NEW p \in Processes, Publish(p) \/ Complete(p) \/ FailRun(p) \/ Raise(p),
         LeaseInv'
  PROVE  StepInv'
<1>a. /\ pc[p] # "idle" /\ run.status # "completed" /\ run.status \in {"running", "canceled"}
      /\ UNCHANGED steps /\ Informed(p) /\ TypeOK /\ p \in Sessions
  BY DEF Publish, Complete, FailRun, Raise, stored, IInv, LeaseInv, WorkerHasLease, StepInv, Sessions
<1>1. CASE Publish(p)
  <2>1. CASE Return(p) /\ UNCHANGED stored
    BY <2>1, <1>a, StepReturns DEF stored
  <2>2. CASE proposals' = proposals + 1 /\ Goto(p, "completing") /\ UNCHANGED <<run, steps, invocations, local>>
    <3>1. pc'[p] = "completing" /\ proposals' > 0
      BY <2>2, <1>a DEF Goto, TypeOK
    <3>2. /\ at[p] = NumSteps + 1 /\ at' = at
          /\ \A i \in Steps : i < at[p] => Passed(i)
      BY <2>2, <1>1, <1>a DEF Publish, Informed, local
    <3>3. Informed(p)'
      BY <3>1, <3>2, <1>a DEF Informed, Stepping, Invoking, Passed
    <3>4. QED BY <2>2, <3>2, <3>3, <1>a, StepMoves
  <2>3. QED BY <1>1, <2>1, <2>2 DEF Publish
<1>2. CASE Raise(p)
  BY <1>2, <1>a, StepFailing DEF Raise, stored, local
<1>3. CASE (Complete(p) \/ FailRun(p)) /\ ~Return(p)
  BY <1>3, <1>a, StepFailing DEF Complete, FailRun, local
<1>4. CASE FailRun(p) /\ Return(p)
  <2>1. run'.status # "completed"
    <3>1. PICK view \in Views(p) :
            UNCHANGED run \/ (view.run.status \notin RunTerminal
                              /\ FlushRun(view.run, Ended(view.run, "failed")))
      BY <1>4 DEF FailRun
    <3>2. view.run \in Run /\ run \in Run /\ WellFormed(view.run)
      BY <1>a, ViewsTyped DEF TypeOK, IInv, LeaseInv, RowsWellFormed, Views, Now
    <3>3. QED BY <3>1, <3>2, <1>a, EndWrites
  <2>2. QED BY <2>1, <1>4, <1>a, StepReturns
<1>5. CASE Complete(p) /\ Return(p)
  <2>1. at[p] = NumSteps + 1 /\ proposals > 0 /\ UNCHANGED proposals
        /\ \A i \in Steps : i < at[p] => Passed(i)
    BY <1>5, <1>a DEF Complete, Informed
  <2>2. \A i \in Steps : Passed(i)
    BY <2>1, CountsAssumption DEF Steps
  <2>3. CompletedIsDone'
    BY <2>1, <2>2, <1>a DEF CompletedIsDone, Passed
  <2>4. HeadsExist' /\ OneActiveAttempt' /\ StepsInOrder'
    BY <1>a DEF IInv, StepInv, HeadsExist, OneActiveAttempt, StepsInOrder
  <2>5. Informed(p)'
    BY <1>5, <1>a, ReturnedInformed
  <2>6. \A q \in Processes \ {p} : pc[q] = "idle" /\ pc'[q] = "idle" /\ at'[q] = at[q]
    <3>1. \E m : at' = [at EXCEPT ![p] = m]
      BY <1>5 DEF Return
    <3>2. QED BY <3>1, <1>5, <1>a, Alone DEF IInv
  <2>7. QED BY <2>3, <2>4, <2>5, <2>6, StepOfOne
<1>6. QED BY <1>1, <1>2, <1>3, <1>4, <1>5

LEMMA StepExecute ==
  ASSUME IInv, NEW p \in Processes, Execute(p)
  PROVE  StepInv'
<1>1. LeaseInv'
  BY LeaseExecute
<1>2. ASSUME NEW result \in {"ok", "bad", "transport"}, ProviderReturns(p, result)
      PROVE  StepInv'
  <2>1. pc[p] \in Invoking /\ Goto(p, "returned") /\ UNCHANGED <<run, steps, proposals, at, plan, attempt>>
    BY <1>2 DEF ProviderReturns, stored, Invoking
  <2>2. QED BY <2>1, StepInvokes
<1>3. CASE FailRunRefused(p)
  <2>1. pc[p] # "idle" /\ Goto(p, "unrecorded") /\ UNCHANGED <<run, steps, at>>
    BY <1>3 DEF FailRunRefused, stored, local
  <2>2. QED BY <2>1, StepFailing
<1>4. CASE GiveUp(p)
  <2>1. pc[p] # "idle" /\ Return(p) /\ UNCHANGED <<run, steps>>
    BY <1>4 DEF GiveUp, stored
  <2>2. run.status # "completed"
    BY <2>1 DEF IInv, LeaseInv, WorkerHasLease
  <2>3. QED BY <2>1, <2>2, StepReturns
<1>5. QED BY <1>1, <1>2, <1>3, <1>4, StepBegin, StepReread, StepRenew, StepStart, StepCall,
             StepSettle, StepEnds DEF Execute

(* The claim of a run finds nobody at work. *)
LEMMA StepClaims ==
  ASSUME IInv, NEW p \in Processes, Start(p)
  PROVE  StepInv'
<1>a. Acquire /\ Acquirable /\ UNCHANGED <<steps, proposals, at>> /\ TypeOK
  BY DEF Start, StartScheduled, StartUnscheduled, StartRefused, Acquire, local, IInv
<1>b. \A q \in Processes : pc[q] = "idle" /\ at[q] = 1
  BY <1>a, ClaimedWhenIdle DEF IInv, StepInv, Informed
<1>1. \A q \in Processes : pc'[q] \in {"idle", "claimed", "failing"} /\ at'[q] = 1
  BY <1>a, <1>b DEF Start, StartScheduled, StartUnscheduled, StartRefused, Goto, TypeOK, Sessions
<1>2. \A q \in Processes : Informed(q)'
  BY <1>1 DEF Informed, Stepping, Invoking
<1>3. run'.status = "running"
  BY <1>a, AcquireTyped
<1>4. QED BY <1>a, <1>2, <1>3
          DEF IInv, StepInv, HeadsExist, OneActiveAttempt, StepsInOrder, CompletedIsDone

-----------------------------------------------------------------------------
(* Attempts *)

LEMMA Afforded ==
  ASSUME TypeOK
  PROVE  /\ Affordable \in Nat /\ Ladder * run.execution_attempt \in Nat
         /\ run.repair_used \in Nat /\ RepairBudget \in Nat /\ Ladder \in Nat
         /\ \A i \in Steps : Len(steps[i]) \in Nat
         /\ \A p \in Processes : climbed[p] \in 0..Ladder
<1>1. run.repair_used \in Nat /\ run.execution_attempt \in Nat
  BY DEF TypeOK, Run
<1>2. Ladder * run.execution_attempt \in Nat
  BY <1>1, CountsAssumption
<1>3. \A i \in Steps : Len(steps[i]) \in Nat
  BY LenProperties DEF TypeOK
<1>4. QED BY <1>1, <1>2, <1>3, CountsAssumption DEF TypeOK, Affordable

LEMMA CountInit == Init => CountInv
<1> SUFFICES ASSUME Init PROVE CountInv
  OBVIOUS
<1>1. TypeOK /\ run.repair_used = 0 /\ run.execution_attempt = 0
  BY TypeInit DEF Init, NewRun
<1>2. \A i \in Steps : Len(steps[i]) = 1
  <2>1. \A i \in Steps : steps[i] = <<"pending">>
    BY DEF Init, NewSteps
  <2>2. Len(<<"pending">>) = 1
    OBVIOUS
  <2>3. QED BY <2>1, <2>2, Zenon
<1>3. Affordable = 1
  BY <1>1, CountsAssumption DEF Affordable
<1>4. \A p \in Processes : pc[p] = "idle"
  BY DEF Init, Sessions
<1>5. \A p \in Processes : Frugal(p)
  BY <1>4 DEF Frugal, Stepping, Invoking
<1>6. \A i \in Steps : Len(steps[i]) <= Affordable
  <2>1. \A n : n = 1 => n <= Affordable
    BY <1>3
  <2>2. QED BY <1>2, <2>1, Zenon
<1>7. run.repair_used <= RepairBudget
  BY <1>1, CountsAssumption
<1>8. QED BY <1>5, <1>6, <1>7 DEF CountInv

(* Steps that create no attempt, claim nothing and repair nothing. *)
LEMMA CountKept ==
  ASSUME IInv, run'.repair_used = run.repair_used,
         run'.execution_attempt = run.execution_attempt,
         \A i \in Steps : Len(steps'[i]) = Len(steps[i]),
         \A p \in Processes : Frugal(p)'
  PROVE  CountInv' /\ Affordable' = Affordable
BY DEF IInv, CountInv, Affordable

LEMMA IdleFrugal ==
  ASSUME NEW p \in Processes, pc'[p] \in {"idle", "failing", "unrecorded", "publish", "completing"}
  PROVE  Frugal(p)'
BY DEF Frugal, Stepping, Invoking

(* ... and keep the worker at its index, ... *)
LEMMA FrugalStays ==
  ASSUME IInv, NEW p \in Processes,
         run'.repair_used = run.repair_used,
         run'.execution_attempt = run.execution_attempt,
         \A i \in Steps : Len(steps'[i]) = Len(steps[i]),
         pc[p] \in Invoking => at[p] \in Steps,
         at'[p] = at[p],
         \/ /\ pc[p] \in {"claimed", "scan", "step"}
            /\ \/ pc'[p] \in {"claimed", "scan", "step"}
               \/ pc'[p] = "loop" /\ at[p] \in Steps /\ climbed'[p] \in Nat
         \/ /\ pc[p] \in Invoking /\ pc'[p] \in Invoking /\ climbed'[p] = climbed[p]
            /\ pc'[p] = "settle" => \/ pc[p] = "settle" /\ copy'[p] = copy[p]
                                    \/ copy'[p].run = run
  PROVE  Frugal(p)'
<1>a. Frugal(p) /\ TypeOK
  BY DEF IInv, CountInv
<1>b. Affordable' = Affordable
  BY DEF Affordable
<1>c. /\ Affordable \in Nat /\ Ladder \in Nat /\ \A i \in Steps : Len(steps[i]) \in Nat
      /\ climbed[p] \in Nat
  BY <1>a, Afforded
<1>1. CASE pc[p] \in {"claimed", "scan", "step"}
  <2>1. /\ \A i \in Steps : i > at[p] => Len(steps[i]) + Ladder <= Affordable
        /\ at[p] \in Steps => Len(steps[at[p]]) + Ladder <= Affordable
    BY <1>1, <1>a DEF Frugal, Stepping
  <2>2. /\ \A i \in Steps : i > at'[p] => Len(steps'[i]) + Ladder <= Affordable'
        /\ at'[p] \in Steps => Len(steps'[at'[p]]) + Ladder <= Affordable'
    BY <2>1, <1>b
  <2>3. CASE pc'[p] \in {"claimed", "scan", "step"}
    BY <2>2, <2>3 DEF Frugal, Invoking
  <2>4. CASE pc'[p] = "loop" /\ at[p] \in Steps /\ climbed'[p] \in Nat
    <3>1. Len(steps'[at'[p]]) + Ladder <= Affordable' + climbed'[p]
      <4>1. Len(steps[at[p]]) + Ladder <= Affordable /\ Len(steps[at[p]]) \in Nat
        BY <2>1, <2>4, <1>c
      <4>2. Len(steps[at[p]]) + Ladder <= Affordable + climbed'[p]
        BY <4>1, <2>4, <1>c
      <4>3. QED BY <4>2, <2>4, <1>b
    <3>2. QED BY <2>2, <2>4, <3>1 DEF Frugal, Stepping, Invoking
  <2>5. QED BY <1>1, <2>3, <2>4 DEF Invoking
<1>2. CASE pc[p] \in Invoking
  <2>1. /\ \A i \in Steps : i > at[p] => Len(steps[i]) + Ladder <= Affordable
        /\ Len(steps[at[p]]) + Ladder <= Affordable + climbed[p]
        /\ pc[p] = "settle" => copy[p].run.repair_used = run.repair_used
    BY <1>2, <1>a DEF Frugal, Stepping
  <2>2. pc'[p] \in Invoking /\ climbed'[p] = climbed[p]
        /\ (pc'[p] = "settle" => copy'[p].run.repair_used = run'.repair_used)
    BY <1>2, <2>1 DEF Invoking
  <2>3. /\ \A i \in Steps : i > at'[p] => Len(steps'[i]) + Ladder <= Affordable'
        /\ Len(steps'[at'[p]]) + Ladder <= Affordable' + climbed'[p]
    BY <1>2, <2>1, <2>2, <1>b
  <2>4. QED BY <2>2, <2>3 DEF Frugal, Stepping, Invoking
<1>3. QED BY <1>1, <1>2

(* ... or bring it to the next. *)
LEMMA FrugalNext ==
  ASSUME IInv, NEW p \in Processes,
         run'.repair_used = run.repair_used,
         run'.execution_attempt = run.execution_attempt,
         \A i \in Steps : Len(steps'[i]) = Len(steps[i]),
         pc[p] \in Stepping, pc'[p] = "scan", at'[p] = at[p] + 1
  PROVE  Frugal(p)'
<1>1. \A i \in Steps : i > at[p] => Len(steps[i]) + Ladder <= Affordable
  BY DEF IInv, CountInv, Frugal
<1>2. Affordable' = Affordable
  BY DEF Affordable
<1>3. at[p] \in Nat /\ Steps \subseteq Nat
  BY DEF IInv, TypeOK, Steps
<1>4. \A i \in Steps : i >= at'[p] => Len(steps'[i]) + Ladder <= Affordable'
  BY <1>1, <1>2, <1>3
<1>5. /\ \A i \in Steps : i > at'[p] => Len(steps'[i]) + Ladder <= Affordable'
      /\ at'[p] \in Steps => Len(steps'[at'[p]]) + Ladder <= Affordable'
  BY <1>4, <1>3
<1>6. QED BY <1>5 DEF Frugal, Stepping, Invoking

LEMMA LengthsKept ==
  ASSUME IInv, NEW p \in Processes, Execute(p)
  PROVE  \/ \A i \in Steps : Len(steps'[i]) = Len(steps[i])
         \/ \E view \in Views(p) : pc[p] = "settle" /\ SettleRepaired(p, view)
<1>a. /\ steps \in [Steps -> Seq(StepStatus)]
      /\ pc[p] \in {"step"} \cup Invoking => at[p] \in Steps
      /\ {"completed", "running", "failed"} \subseteq StepStatus
  BY DEF IInv, TypeOK, StepInv, Informed, StepStatus, RunStatus
<1>1. CASE UNCHANGED steps
  BY <1>1
<1>2. ASSUME at[p] \in Steps, NEW k, NEW st \in {"completed", "running", "failed"},
             steps' = [steps EXCEPT ![at[p]][k] = st]
      PROVE  \A i \in Steps : Len(steps'[i]) = Len(steps[i])
  BY <1>2, <1>a, EntryWritten
<1>3. CASE \/ Begin(p) \/ Reread(p) \/ Renew(p) \/ Raise(p) \/ Publish(p) \/ Complete(p)
           \/ FailRun(p) \/ FailRunRefused(p) \/ GiveUp(p)
           \/ \E result \in {"ok", "bad", "transport"} : ProviderReturns(p, result)
  <2>1. Begin(p) \/ Reread(p) \/ Renew(p) \/ Raise(p) => UNCHANGED steps
    BY DEF Begin, Reread, Renew, Raise, stored
  <2>2. Publish(p) \/ Complete(p) => UNCHANGED steps
    BY DEF Publish, Complete, stored
  <2>3. FailRun(p) \/ FailRunRefused(p) \/ GiveUp(p) => UNCHANGED steps
    BY DEF FailRun, FailRunRefused, GiveUp, stored
  <2>4. (\E result \in {"ok", "bad", "transport"} : ProviderReturns(p, result)) => UNCHANGED steps
    BY DEF ProviderReturns, stored
  <2>5. QED BY <1>3, <2>1, <2>2, <2>3, <2>4, <1>1
<1>4. CASE StartStep(p)
  <2>1. at[p] \in Steps
    BY <1>4, <1>a DEF StartStep
  <2>2. UNCHANGED steps \/ \E k : steps' = [steps EXCEPT ![at[p]][k] = "running"]
    BY <1>4 DEF StartStep, stored
  <2>3. QED BY <2>1, <2>2, <1>1, <1>2
<1>5. CASE CallProvider(p)
  <2>1. at[p] \in Steps
    BY <1>5, <1>a DEF CallProvider, Invoking
  <2>2. UNCHANGED steps \/ steps' = [steps EXCEPT ![at[p]][attempt[p]] = "completed"]
    BY <1>5 DEF CallProvider, stored
  <2>3. QED BY <2>1, <2>2, <1>1, <1>2
<1>6. CASE Settle(p)
  <2>1. at[p] \in Steps /\ pc[p] = "settle"
    BY <1>6, <1>a DEF Settle, Invoking
  <2>2. PICK view \in Views(p) :
          \/ SettleCanceled(p, view)
          \/ SettleSucceeded(p, view)
          \/ SettleFailed(p, view)
          \/ SettleRepaired(p, view)
          \/ SettleRaises(p, view)
    BY <1>6 DEF Settle
  <2>3. \/ UNCHANGED steps
        \/ \E st \in {"completed", "failed"} : steps' = [steps EXCEPT ![at[p]][attempt[p]] = st]
        \/ SettleRepaired(p, view)
    BY <2>2 DEF SettleCanceled, SettleSucceeded, SettleFailed, SettleRaises, stored
  <2>4. QED BY <2>1, <2>3, <1>1, <1>2
<1>7. QED BY <1>3, <1>4, <1>5, <1>6 DEF Execute

(* The effect of a repair or an escalation on what has been spent. *)
LEMMA CountRepair ==
  ASSUME IInv, TypeOK', NEW p \in Processes, NEW view \in Views(p), pc[p] = "settle",
         SettleRepaired(p, view), run'.execution_attempt = run.execution_attempt
  PROVE  CountInv'
<1>a. /\ TypeOK /\ Informed(p) /\ p \in Sessions /\ Frugal(p) /\ pc[p] # "idle"
      /\ run.repair_used <= RepairBudget
      /\ \A i \in Steps : Len(steps[i]) <= Affordable
  BY DEF IInv, StepInv, CountInv, Sessions
<1>b. PICK n \in Steps : n = at[p]
  BY <1>a DEF Informed, Invoking
<1>c. /\ Affordable \in Nat /\ Affordable' \in Nat /\ Ladder \in Nat /\ RepairBudget \in Nat
      /\ run.repair_used \in Nat
      /\ \A i \in Steps : Len(steps[i]) \in Nat
      /\ climbed[p] \in 0..Ladder
  <2>1. run'.repair_used \in Nat
    BY DEF TypeOK, Run
  <2>2. Ladder * run.execution_attempt \in Nat
    BY <1>a, Afforded
  <2>3. Affordable' = 1 + Ladder * run.execution_attempt + run'.repair_used
    BY DEF Affordable
  <2>4. Affordable' \in Nat
    BY <2>1, <2>2, <2>3
  <2>5. QED BY <2>4, <1>a, Afforded
<1>d. view.run.repair_used = run.repair_used
  BY <1>a DEF Frugal, Views, Now
<1>1. /\ run'.repair_used = run.repair_used + (IF CanRepair(p, view) THEN 1 ELSE 0)
      /\ CanRepair(p, view) => run.repair_used < RepairBudget
  <2> DEFINE new == IF CanRepair(p, view) THEN [view.run EXCEPT !.repair_used = @ + 1] ELSE view.run
  <2>1. view.run \in Run /\ run \in Run
    BY <1>a, ViewsTyped DEF TypeOK
  <2>2. /\ new \in Run
        /\ new.repair_used = view.run.repair_used + (IF CanRepair(p, view) THEN 1 ELSE 0)
    BY <2>1 DEF Run
  <2>3. FlushRun(view.run, new)
    BY DEF SettleRepaired
  <2> HIDE DEF new
  <2>4. run'.repair_used = IF new.repair_used # view.run.repair_used
                             THEN new.repair_used ELSE run.repair_used
    BY <2>1, <2>2, <2>3, FlushWrites
  <2>5. QED BY <2>2, <2>4, <1>c, <1>d DEF CanRepair
<1>2. Affordable' = Affordable + (IF CanRepair(p, view) THEN 1 ELSE 0)
  <2>1. Ladder * run.execution_attempt \in Nat
    BY <1>a, Afforded
  <2>2. QED BY <2>1, <1>1, <1>c, SMTT(30) DEF Affordable
<1>3. /\ climbed'[p] \in 0..Ladder
      /\ climbed'[p] = climbed[p] + (IF CanEscalate(p) THEN 1 ELSE 0)
      /\ CanRepair(p, view) \/ CanEscalate(p)
  BY <1>a, <1>c DEF SettleRepaired, CanEscalate, TypeOK
<1>4. /\ Len(steps'[n]) = Len(steps[n]) + 1
      /\ \A i \in Steps \ {n} : steps'[i] = steps[i]
  <2>1. PICK last : last = Replaced(p, view)
    OBVIOUS
  <2>2. attempt[p] = Len(steps[n]) /\ attempt[p] \in 1..Len(steps[n])
    <3>1. attempt[p] = Len(steps[n])
      BY <1>a, <1>b DEF Informed, Invoking
    <3>2. Len(steps[n]) >= 1
      BY DEF IInv, StepInv, HeadsExist
    <3>3. QED BY <3>1, <3>2, <1>c
  <2>3. last \in Seq(StepStatus) /\ Len(last) = Len(steps[n])
    BY <2>1, <2>2, <1>a, <1>b, Replacement
  <2>4. steps' = [steps EXCEPT ![n] = Append(last, "running")] /\ "running" \in StepStatus
    BY <2>1, <1>b DEF SettleRepaired, StepStatus, RunStatus
  <2>5. Len(Append(last, "running")) = Len(last) + 1
    BY <2>3, <2>4, AppendProperties
  <2>6. steps \in [Steps -> Seq(StepStatus)]
    BY <1>a DEF TypeOK
  <2>7. steps'[n] = Append(last, "running") /\ \A i \in Steps \ {n} : steps'[i] = steps[i]
    BY <2>4, <2>6
  <2>8. QED BY <2>3, <2>5, <2>7
<1>5. Len(steps[n]) + Ladder <= Affordable + climbed[p]
      /\ \A i \in Steps : i > n => Len(steps[i]) + Ladder <= Affordable
  BY <1>a, <1>b DEF Frugal, Stepping, Invoking
<1>6. Len(steps'[n]) + Ladder <= Affordable' + climbed'[p]
  <2>1. Affordable' + climbed'[p] >= Affordable + climbed[p] + 1
    <3>1. CASE CanRepair(p, view)
      BY <3>1, <1>2, <1>3, <1>c
    <3>2. CASE ~CanRepair(p, view)
      BY <3>2, <1>2, <1>3, <1>c
    <3>3. QED BY <3>1, <3>2
  <2>2. Len(steps'[n]) = Len(steps[n]) + 1 /\ Len(steps[n]) + Ladder <= Affordable + climbed[p]
    BY <1>4, <1>5
  <2>3. /\ Affordable \in Nat /\ Affordable' \in Nat /\ Ladder \in Nat /\ Len(steps[n]) \in Nat
        /\ climbed[p] \in Nat /\ climbed'[p] \in Nat
    BY <1>c, <1>3
  <2>4. QED BY <2>1, <2>2, <2>3, SMTT(30)
<1>7. \A i \in Steps : Len(steps'[i]) <= Affordable'
  <2>1. Len(steps'[n]) <= Affordable'
    BY <1>3, <1>4, <1>6, <1>c
  <2>2. \A i \in Steps \ {n} : Len(steps'[i]) <= Affordable'
    BY <1>2, <1>4, <1>a, <1>c
  <2>3. QED BY <2>1, <2>2
<1>8. run'.repair_used <= RepairBudget
  BY <1>1, <1>a, <1>c
<1>9. pc'[p] = "loop" /\ at'[p] = n
  BY <1>a, <1>b DEF SettleRepaired, Goto, TypeOK
<1>10. \A i \in Steps : i > n => Len(steps'[i]) + Ladder <= Affordable'
  <2> SUFFICES ASSUME NEW i \in Steps, i > n
               PROVE  Len(steps'[i]) + Ladder <= Affordable'
    OBVIOUS
  <2>1. i # n
    BY DEF Steps
  <2>2. QED BY <2>1, <1>2, <1>4, <1>5, <1>c
<1>11. Frugal(p)'
  BY <1>6, <1>9, <1>10 DEF Frugal, Stepping, Invoking
<1>12. \A q \in Processes \ {p} : pc'[q] = "idle"
  <2>1. Goto(p, "loop") /\ UNCHANGED at
    BY DEF SettleRepaired
  <2>2. QED BY <2>1, <1>a, Alone DEF IInv
<1>13. QED BY <1>7, <1>8, <1>11, <1>12, IdleFrugal DEF CountInv

(* A worker moves on in one of three ways, or repairs. *)
LEMMA WorkerMoves ==
  ASSUME IInv, NEW p \in Processes, Execute(p),
         ~ \E view \in Views(p) : pc[p] = "settle" /\ SettleRepaired(p, view)
  PROVE  /\ pc[p] # "idle"
         /\ Return(p) \/ \E next : Goto(p, next)
         /\ UNCHANGED at \/ \E n : at' = [at EXCEPT ![p] = n]
         /\ \/ pc'[p] \in {"idle", "failing", "unrecorded", "publish", "completing"}
            \/ /\ at'[p] = at[p] /\ pc[p] \in {"claimed", "scan", "step"}
               /\ \/ pc'[p] \in {"claimed", "scan", "step"}
                  \/ pc'[p] = "loop" /\ at[p] \in Steps /\ climbed'[p] \in Nat
            \/ /\ at'[p] = at[p] /\ pc[p] \in Invoking /\ pc'[p] \in Invoking
               /\ climbed'[p] = climbed[p]
               /\ pc'[p] = "settle" => copy'[p].run = run
            \/ pc[p] \in Stepping /\ pc'[p] = "scan" /\ at'[p] = at[p] + 1
<1>a. p \in Sessions /\ TypeOK /\ (pc[p] = "step" => at[p] \in Steps)
  BY DEF IInv, StepInv, Informed, Sessions
<1>b. pc \in [Sessions -> Control] /\ at \in [Processes -> 1..NumSteps + 1]
      /\ climbed \in [Processes -> 0..Ladder] /\ copy \in [Sessions -> Database]
  BY <1>a DEF TypeOK
<1>c. ASSUME NEW next, Goto(p, next)
      PROVE  pc'[p] = next
  BY <1>c, <1>a, <1>b DEF Goto
<1>d. Return(p) => pc'[p] = "idle" /\ \E n : at' = [at EXCEPT ![p] = n]
  BY <1>a, <1>b DEF Return, Goto
<1>e. NextStep(p) => /\ pc'[p] = "scan" /\ at'[p] = at[p] + 1
                     /\ Goto(p, "scan") /\ at' = [at EXCEPT ![p] = at[p] + 1]
  BY <1>a, <1>b DEF NextStep, Goto
<1>f. Invoking \subseteq Stepping /\ "step" \in Stepping
  BY DEF Stepping
<1>1. CASE Begin(p)
  <2>1. pc[p] = "claimed"
        /\ (Return(p) \/ (UNCHANGED at /\ (Goto(p, "scan") \/ Goto(p, "failing"))))
    BY <1>1 DEF Begin
  <2>2. QED BY <2>1, <1>c, <1>d
<1>2. CASE Renew(p)
  <2>1. UNCHANGED <<at, climbed>> /\ pc[p] # "idle"
    BY <1>2 DEF Renew, local
  <2>2. CASE Owns(p)
    <3>1. copy'[p].run = run
      BY <1>2, <2>2, <1>a, <1>b DEF Renew, LoadNow, Now
    <3>2. \/ pc[p] = "scan" /\ (Goto(p, "publish") \/ Goto(p, "step"))
          \/ pc[p] = "loop" /\ Goto(p, "call")
          \/ pc[p] = "returned" /\ Goto(p, "settle")
      BY <1>2, <2>2 DEF Renew, AfterRenewal
    <3>3. QED BY <2>1, <3>1, <3>2, <1>c DEF Invoking
  <2>3. CASE ~Owns(p)
    <3>1. Goto(p, "failing")
      BY <1>2, <2>3 DEF Renew
    <3>2. QED BY <2>1, <3>1, <1>c
  <2>4. QED BY <2>2, <2>3
<1>3. CASE Raise(p)
  <2>1. pc[p] # "idle" /\ Goto(p, "failing") /\ UNCHANGED at
    BY <1>3 DEF Raise, local
  <2>2. QED BY <2>1, <1>c
<1>4. CASE StartStep(p)
  <2>1. /\ pc[p] = "step"
        /\ \/ Return(p)
           \/ at' = [at EXCEPT ![p] = at[p] + 1] /\ Goto(p, "scan")
           \/ Goto(p, "failing") /\ UNCHANGED at
           \/ Goto(p, "loop") /\ UNCHANGED at /\ climbed' = [climbed EXCEPT ![p] = 0]
    BY <1>4 DEF StartStep, local
  <2>2. at' = [at EXCEPT ![p] = at[p] + 1] => at'[p] = at[p] + 1
    BY <1>b
  <2>3. climbed' = [climbed EXCEPT ![p] = 0] => climbed'[p] \in Nat
    BY <1>b
  <2>4. QED BY <2>1, <2>2, <2>3, <1>a, <1>c, <1>d, <1>f
<1>5. CASE CallProvider(p)
  <2>1. /\ pc[p] = "call"
        /\ \/ Return(p)
           \/ NextStep(p)
           \/ Goto(p, "failing") /\ UNCHANGED at
           \/ Goto(p, "invoking") /\ UNCHANGED <<at, climbed>>
    BY <1>5 DEF CallProvider, local
  <2>2. QED BY <2>1, <1>c, <1>d, <1>e, <1>f DEF Invoking
<1>6. ASSUME NEW result \in {"ok", "bad", "transport"}, ProviderReturns(p, result)
      PROVE  pc[p] = "invoking" /\ Goto(p, "returned") /\ UNCHANGED <<at, climbed>>
  BY <1>6 DEF ProviderReturns
<1>7. CASE Settle(p)
  <2>1. PICK view \in Views(p) :
          \/ SettleCanceled(p, view)
          \/ SettleSucceeded(p, view)
          \/ SettleFailed(p, view)
          \/ SettleRepaired(p, view)
          \/ SettleRaises(p, view)
    BY <1>7 DEF Settle
  <2>2. pc[p] = "settle"
    BY <1>7 DEF Settle
  <2>3. ~SettleRepaired(p, view)
    BY <2>2
  <2>4. Return(p) \/ NextStep(p) \/ (Goto(p, "failing") /\ UNCHANGED at)
    BY <2>1, <2>3 DEF SettleCanceled, SettleSucceeded, SettleFailed, SettleRaises, local
  <2>5. QED BY <2>2, <2>4, <1>c, <1>d, <1>e, <1>f DEF Invoking
<1>8. CASE Publish(p) \/ Complete(p) \/ FailRun(p) \/ FailRunRefused(p) \/ GiveUp(p)
  <2>1. /\ pc[p] # "idle"
        /\ \/ Return(p)
           \/ UNCHANGED at /\ \E next \in {"completing", "failing", "unrecorded"} : Goto(p, next)
    <3>1. CASE Publish(p) \/ Complete(p)
      BY <3>1 DEF Publish, Complete, local
    <3>2. CASE FailRun(p) \/ FailRunRefused(p) \/ GiveUp(p)
      BY <3>2 DEF FailRun, FailRunRefused, GiveUp, local
    <3>3. QED BY <1>8, <3>1, <3>2
  <2>2. QED BY <2>1, <1>c, <1>d
<1>9. ASSUME NEW result \in {"ok", "bad", "transport"}, ProviderReturns(p, result)
      PROVE  /\ pc[p] \in Invoking /\ pc'[p] \in Invoking /\ pc'[p] # "settle"
             /\ at'[p] = at[p] /\ climbed'[p] = climbed[p] /\ UNCHANGED at
             /\ Goto(p, "returned") /\ pc[p] # "idle"
  BY <1>6, <1>9, <1>c DEF Invoking
<1>10. CASE Reread(p)
  <2>1. UNCHANGED <<pc, at, climbed>> /\ pc[p] \in {"scan", "loop", "returned"}
    BY <1>10 DEF Reread, local
  <2>2. Goto(p, pc[p])
    BY <2>1, <1>b DEF Goto
  <2>3. QED BY <2>1, <2>2 DEF Invoking
<1>11. QED BY <1>1, <1>2, <1>3, <1>4, <1>5, <1>7, <1>8, <1>9, <1>10 DEF Execute

LEMMA CountExecute ==
  ASSUME IInv, NEW p \in Processes, Execute(p)
  PROVE  CountInv'
<1>a. run'.execution_attempt = run.execution_attempt /\ TypeOK'
  BY LeaseExecute, ExecuteTyped
<1>1. CASE \E view \in Views(p) : pc[p] = "settle" /\ SettleRepaired(p, view)
  BY <1>1, <1>a, CountRepair
<1>2. CASE ~ \E view \in Views(p) : pc[p] = "settle" /\ SettleRepaired(p, view)
  <2>1. run'.repair_used = run.repair_used
    BY <1>2, LeaseExecute
  <2>2. \A i \in Steps : Len(steps'[i]) = Len(steps[i])
    BY <1>2, LengthsKept
  <2>3. pc[p] \in Invoking => at[p] \in Steps
    BY DEF IInv, StepInv, Informed
  <2>4. Frugal(p)'
    <3>1. CASE pc'[p] \in {"idle", "failing", "unrecorded", "publish", "completing"}
      BY <3>1, IdleFrugal
    <3>2. CASE /\ at'[p] = at[p] /\ pc[p] \in {"claimed", "scan", "step"}
               /\ \/ pc'[p] \in {"claimed", "scan", "step"}
                  \/ pc'[p] = "loop" /\ at[p] \in Steps /\ climbed'[p] \in Nat
      BY <3>2, <2>1, <2>2, <2>3, <1>a, FrugalStays
    <3>3. CASE /\ at'[p] = at[p] /\ pc[p] \in Invoking /\ pc'[p] \in Invoking
               /\ climbed'[p] = climbed[p]
               /\ pc'[p] = "settle" => copy'[p].run = run
      BY <3>3, <2>1, <2>2, <2>3, <1>a, FrugalStays
    <3>4. CASE pc[p] \in Stepping /\ pc'[p] = "scan" /\ at'[p] = at[p] + 1
      BY <3>4, <2>1, <2>2, <1>a, FrugalNext
    <3>5. QED BY <1>2, <3>1, <3>2, <3>3, <3>4, WorkerMoves
  <2>5. \A q \in Processes \ {p} : pc'[q] = "idle"
    BY <1>2, WorkerMoves, Alone DEF IInv
  <2>6. \A q \in Processes : Frugal(q)'
    BY <2>4, <2>5, IdleFrugal
  <2>7. QED BY <2>1, <2>2, <2>6, <1>a, CountKept
<1>3. QED BY <1>1, <1>2

(* A claim lets its worker escalate once more all the way. *)
LEMMA CountClaims ==
  ASSUME IInv, NEW p \in Processes, Start(p)
  PROVE  CountInv'
<1>a. Acquire /\ Acquirable /\ UNCHANGED <<steps, at>> /\ TypeOK
  BY DEF Start, StartScheduled, StartUnscheduled, StartRefused, Acquire, local, IInv
<1>b. /\ Ladder \in Nat /\ run.repair_used \in Nat /\ run.execution_attempt \in Nat
      /\ Affordable \in Nat /\ \A i \in Steps : Len(steps[i]) \in Nat
  BY <1>a, Afforded DEF TypeOK, Run
<1>1. /\ run'.repair_used = run.repair_used
      /\ run'.execution_attempt = run.execution_attempt + 1
  BY <1>a, AcquireTyped
<1>2. Affordable' = Affordable + Ladder
  <2>1. PICK climbs \in Nat : climbs = Ladder * run.execution_attempt
    BY <1>a, Afforded
  <2>2. Ladder * (run.execution_attempt + 1) = climbs + Ladder
    BY <2>1, <1>b
  <2>3. Affordable = 1 + climbs + run.repair_used
    BY <2>1 DEF Affordable
  <2>4. Affordable' = 1 + (climbs + Ladder) + run.repair_used
    BY <1>1, <2>2 DEF Affordable
  <2>5. QED BY <2>3, <2>4, <1>b
<1>3. \A i \in Steps : Len(steps'[i]) + Ladder <= Affordable'
  <2>1. \A i \in Steps : Len(steps[i]) <= Affordable
    BY DEF IInv, CountInv
  <2>2. QED BY <2>1, <1>2, <1>a, <1>b
<1>4. \A i \in Steps : Len(steps'[i]) <= Affordable'
  BY <1>2, <1>3, <1>a, <1>b
<1>5. \A q \in Processes : pc'[q] \in {"idle", "claimed", "failing"}
  <2>1. \A q \in Processes : pc[q] = "idle"
    BY <1>a, ClaimedWhenIdle DEF IInv
  <2>2. QED BY <2>1, <1>a DEF Start, StartScheduled, StartUnscheduled, StartRefused, Goto, TypeOK, Sessions
<1>6. \A q \in Processes : Frugal(q)'
  BY <1>3, <1>5 DEF Frugal, Stepping, Invoking
<1>7. QED BY <1>1, <1>4, <1>6 DEF IInv, CountInv

(* A cancel spends nothing. *)
LEMMA CountCancel ==
  ASSUME IInv, NEW u \in Users, Cancel(u)
  PROVE  CountInv'
<1>a. u \in Sessions /\ u \notin Processes /\ Processes \subseteq Sessions /\ TypeOK
  BY ProcessesAssumption DEF IInv, Sessions
<1>1. UNCHANGED <<at, climbed>>
      /\ \A p \in Processes : pc'[p] = pc[p] /\ copy'[p] = copy[p]
  BY <1>a DEF Cancel, CancelRead, CancelCommit, Goto, LoadNow, local, TypeOK
<1>2. /\ run'.repair_used = run.repair_used /\ run'.execution_attempt = run.execution_attempt
      /\ \A i \in Steps : Len(steps'[i]) = Len(steps[i])
  <2>1. CASE CancelRead(u)
    BY <2>1 DEF CancelRead, stored
  <2>2. CASE CancelCommit(u)
    <3>1. PICK seen \in {copy[u].run} : FlushRun(seen, Ended(seen, "canceled"))
      BY <2>2 DEF CancelCommit
    <3>2. seen \in Run /\ run \in Run /\ WellFormed(seen) /\ seen.status \notin RunTerminal
      BY <2>2, <3>1, <1>a DEF TypeOK, Database, IInv, LeaseInv, RowsWellFormed, CancelSawItGoing, CancelCommit
    <3>3. QED BY <2>2, <3>1, <3>2, <1>a, EndWrites, StepsCanceled
  <2>3. QED BY <2>1, <2>2 DEF Cancel
<1>3. Affordable' = Affordable
  BY <1>2 DEF Affordable
<1>4. ASSUME NEW p \in Processes
      PROVE  Frugal(p)'
  <2>1. Frugal(p) /\ (pc[p] \in Invoking => at[p] \in Steps)
    BY DEF IInv, CountInv, StepInv, Informed
  <2>2. QED BY <2>1, <1>1, <1>2, <1>3 DEF Frugal, Invoking
<1>5. QED BY <1>2, <1>4, CountKept

-----------------------------------------------------------------------------
(* The inductive invariant *)

(* Steps that touch neither the sessions nor the steps nor what a claim may *)
(* spend: time passing and the story being edited.                         *)
LEMMA Elsewhere ==
  ASSUME LeasesOutliveWork, IInv, LeaseExpires \/ EditStory \/ UNCHANGED vars
  PROVE  /\ UNCHANGED <<steps, proposals, pc, copy, local>>
         /\ run'.status = run.status /\ run'.token = run.token
         /\ run'.execution_attempt = run.execution_attempt /\ run'.repair_used = run.repair_used
         /\ LeaseInv' /\ StepInv' /\ CountInv'
<1>a. TypeOK /\ LeaseInv
  BY DEF IInv
<1>1. /\ UNCHANGED <<steps, proposals, pc, copy, local>>
      /\ run'.status = run.status /\ run'.token = run.token
      /\ run'.execution_attempt = run.execution_attempt /\ run'.repair_used = run.repair_used
      /\ LeaseExpires \/ UNCHANGED run
  <2>1. CASE LeaseExpires
    BY <2>1, <1>a DEF LeaseExpires, TypeOK, Run
  <2>2. CASE EditStory \/ UNCHANGED vars
    BY <2>2 DEF EditStory, vars, stored
  <2>3. QED BY <2>1, <2>2
<1>2. LeaseInv'
  <2>1. CASE UNCHANGED run
    BY <2>1, <1>1, <1>a
       DEF local, LeaseInv, RowsWellFormed, WellFormed, OneWorker, WorkerHasLease, CancelSawItGoing,
           EndedReleasesLease
  <2>2. CASE LeaseExpires
    BY <2>2, <1>a, LeaseExpiry
  <2>3. QED BY <1>1, <2>1, <2>2
<1>3. \A p \in Processes : Informed(p)' /\ Frugal(p)'
  <2> SUFFICES ASSUME NEW p \in Processes
               PROVE  Informed(p)' /\ Frugal(p)'
    OBVIOUS
  <2>1. Informed(p) /\ Frugal(p)
    BY DEF IInv, StepInv, CountInv
  <2>2. Affordable' = Affordable
    BY <1>1 DEF Affordable
  <2>3. Informed(p)'
    BY <2>1, <1>1 DEF local, Informed, OnlyCanceled, Passed, Unstarted
  <2>4. Frugal(p)'
    BY <2>1, <2>2, <1>1 DEF local, Frugal
  <2>5. QED BY <2>3, <2>4
<1>4. StepInv'
  BY <1>1, <1>3 DEF IInv, StepInv, HeadsExist, OneActiveAttempt, StepsInOrder, CompletedIsDone
<1>5. CountInv'
  BY <1>1, <1>3, CountKept
<1>6. QED BY <1>1, <1>2, <1>4, <1>5

(* A worker that dies leaves the run as it is. *)
LEMMA Death ==
  ASSUME IInv, NEW p \in Processes, Die(p)
  PROVE  UNCHANGED stored /\ LeaseInv' /\ StepInv' /\ CountInv'
<1>a. /\ TypeOK /\ LeaseInv /\ pc[p] # "idle" /\ Return(p) /\ UNCHANGED <<run, steps, proposals>>
      /\ UNCHANGED stored
  BY DEF Die, stored, IInv
<1>b. \E n : at' = [at EXCEPT ![p] = n]
  BY <1>a DEF Return
<1>1. LeaseInv'
  BY <1>a, LeaseReturns
<1>2. StepInv'
  <2>1. run'.status # "completed"
    BY <1>a DEF LeaseInv, WorkerHasLease
  <2>2. QED BY <2>1, <1>a, <1>b, ReturnedInformed, StepMoves
<1>3. CountInv'
  <2>1. pc'[p] = "idle"
    BY <1>a DEF Return, Goto, TypeOK, Sessions
  <2>2. \A q \in Processes \ {p} : pc'[q] = "idle"
    BY <1>a, <1>b, Alone
  <2>3. \A q \in Processes : Frugal(q)'
    BY <2>1, <2>2, IdleFrugal
  <2>4. QED BY <2>3, <1>a, CountKept
<1>4. QED BY <1>a, <1>1, <1>2, <1>3

LEMMA Inductive ==
  ASSUME LeasesOutliveWork, IInv, [Next]_vars
  PROVE  IInv'
<1>1. TypeOK'
  BY TypeStep
<1>2. LeaseInv' /\ StepInv' /\ CountInv'
  <2>1. ASSUME NEW p \in Processes, Start(p)
        PROVE  LeaseInv' /\ StepInv' /\ CountInv'
    BY <2>1, LeaseStart, StepClaims, CountClaims DEF IInv
  <2>2. ASSUME NEW p \in Processes, Execute(p)
        PROVE  LeaseInv' /\ StepInv' /\ CountInv'
    BY <2>2, LeaseExecute, StepExecute, CountExecute
  <2>3. ASSUME NEW p \in Processes, Die(p)
        PROVE  LeaseInv' /\ StepInv' /\ CountInv'
    BY <2>3, Death
  <2>4. ASSUME NEW u \in Users, Cancel(u)
        PROVE  LeaseInv' /\ StepInv' /\ CountInv'
    BY <2>4, LeaseCancel, StepCancel, CountCancel DEF IInv
  <2>5. CASE LeaseExpires \/ EditStory \/ UNCHANGED vars
    BY <2>5, Elsewhere
  <2>6. QED BY <2>1, <2>2, <2>3, <2>4, <2>5 DEF Next
<1>3. QED BY <1>1, <1>2 DEF IInv

LEMMA Invariant ==
  ASSUME LeasesOutliveWork
  PROVE  Spec => []IInv
<1>1. Init => IInv
  BY TypeInit, LeaseInit, StepInit, CountInit DEF IInv
<1>2. IInv /\ [Next]_vars => IInv'
  BY Inductive
<1>3. QED BY <1>1, <1>2, PTL DEF Spec

-----------------------------------------------------------------------------
(* What follows *)

LEMMA AttemptsAreAfforded ==
  ASSUME LeasesOutliveWork, IInv
  PROVE  AttemptsBounded
<1>1. /\ run.repair_used <= RepairBudget
      /\ \A i \in Steps : Len(steps[i]) <= Affordable
  BY DEF IInv, CountInv
<1>2. /\ Ladder * run.execution_attempt \in Nat /\ RepairBudget \in Nat
      /\ run.repair_used \in Nat /\ \A i \in Steps : Len(steps[i]) \in Nat
  BY Afforded DEF IInv
<1>3. \A i \in Steps : Len(steps[i]) <= 1 + Ladder * run.execution_attempt + RepairBudget
  BY <1>1, <1>2 DEF Affordable
<1>4. QED BY <1>1, <1>2, <1>3 DEF AttemptsBounded

(* While no lease expires under its worker, an index never gets more        *)
(* attempts than one, the repairs of the run's budget and an escalation per *)
(* rung and claim, whichever _run_step and whichever resumption adds them.  *)
THEOREM AttemptsAreBounded ==
  ASSUME LeasesOutliveWork
  PROVE  Spec => []AttemptsBounded
<1>1. IInv => AttemptsBounded  BY AttemptsAreAfforded
<1>2. QED BY <1>1, Invariant, PTL

(* Whatever starts, workers, cancels, deaths and expiries interleave, what  *)
(* the database says of a run fits together: a completed run has a proposal *)
(* and no step that waits, an index has one active attempt, the steps went *)
(* in order, no index has more attempts than its repairs and the claims'   *)
(* escalations allow, and a run that a worker ended holds no lease.        *)
THEOREM RunsAreConsistent ==
  ASSUME LeasesOutliveWork
  PROVE  Spec => []RunIsConsistent
<1>1. IInv => RunIsConsistent
  BY AttemptsAreAfforded DEF IInv, LeaseInv, StepInv, RunIsConsistent
<1>2. QED BY <1>1, Invariant, PTL

(* How a run ended changes only by a cancel that had read it before: no     *)
(* claim finds a run that has ended, and no worker is left when one has    *)
(* completed or failed.                                                    *)
THEOREM EndedRunsStayEnded ==
  ASSUME LeasesOutliveWork
  PROVE  Spec => EndedStaysEnded
<1>1. ASSUME IInv, [Next]_vars, run.status \in RunTerminal
      PROVE  /\ run'.status \in RunTerminal
             /\ run.status # "canceled" => run'.status \in {run.status, "canceled"}
  <2>a. TypeOK /\ LeaseInv
    BY <1>1 DEF IInv
  <2>1. ASSUME NEW p \in Processes
        PROVE  ~Start(p)
    <3>1. Start(p) => Acquirable
      BY DEF Start, StartScheduled, StartUnscheduled, StartRefused, Acquire
    <3>2. QED BY <3>1, <2>a, <1>1, Terminal, ClaimedWhenIdle
  <2>2. ASSUME NEW p \in Processes, Execute(p)
        PROVE  /\ run'.status \in RunTerminal
               /\ run.status # "canceled" => run'.status \in {run.status, "canceled"}
    <3>1. run'.status = run.status \/ run'.status \in {"completed", "failed"}
      BY <2>2, <1>1, LeaseExecute
    <3>2. pc[p] # "idle"
      BY <2>2, Executing
    <3>3. run.status \in {"running", "canceled"}
      BY <3>2, <2>a DEF LeaseInv, WorkerHasLease
    <3>4. QED BY <3>1, <3>3, <1>1, Terminal
  <2>3. ASSUME NEW p \in Processes, Die(p)
        PROVE  run'.status = run.status
    BY <2>3 DEF Die, stored
  <2>4. ASSUME NEW u \in Users, Cancel(u)
        PROVE  run'.status = run.status \/ run'.status = "canceled"
    BY <2>4, <2>a, LeaseCancel
  <2>5. CASE LeaseExpires \/ EditStory \/ UNCHANGED vars
    BY <2>5, <1>1, Elsewhere
  <2>6. QED BY <1>1, <2>1, <2>2, <2>3, <2>4, <2>5, Terminal DEF Next
<1>2. IInv /\ [Next]_vars =>
        [run.status \in RunTerminal =>
           /\ run'.status \in RunTerminal
           /\ run.status # "canceled" => run'.status \in {run.status, "canceled"}]_vars
  BY <1>1
<1>3. QED BY <1>2, Invariant, PTL DEF Spec, EndedStaysEnded

(* A proposal is recorded by the worker that holds the lease, or on a run   *)
(* that has been canceled since that worker looked.                        *)
THEOREM HoldersPublish ==
  ASSUME LeasesOutliveWork
  PROVE  Spec => HolderPublishes
<1>1. ASSUME IInv, [Next]_vars, proposals' # proposals
      PROVE  \/ \E p \in Processes : pc[p] = "publish" /\ Owns(p) /\ pc'[p] = "completing"
             \/ run.status = "canceled"
  <2>a. TypeOK /\ LeaseInv
    BY <1>1 DEF IInv
  <2>1. PICK p \in Processes : Execute(p)
    <3>1. \A p \in Processes : ~Start(p) /\ ~Die(p)
      BY <1>1 DEF Start, StartScheduled, StartUnscheduled, StartRefused, Die, stored
    <3>2. \A u \in Users : ~Cancel(u)
      BY <1>1 DEF Cancel, CancelRead, CancelCommit, stored
    <3>3. ~(LeaseExpires \/ EditStory \/ UNCHANGED vars)
      BY <1>1, Elsewhere
    <3>4. QED BY <1>1, <3>1, <3>2, <3>3 DEF Next
  <2>2. Publish(p)
    <3>1. ~Begin(p) /\ ~Reread(p) /\ ~Renew(p) /\ ~StartStep(p) /\ ~Raise(p) /\ ~CallProvider(p)
      BY <1>1 DEF Begin, Reread, Renew, StartStep, Raise, CallProvider, stored
    <3>2. ~(\E result \in {"ok", "bad", "transport"} : ProviderReturns(p, result))
      BY <1>1 DEF ProviderReturns, stored
    <3>3. ~Settle(p)
      BY <1>1 DEF Settle, SettleCanceled, SettleSucceeded, SettleFailed, SettleRepaired,
                  SettleRaises, stored
    <3>4. ~Complete(p) /\ ~FailRun(p) /\ ~FailRunRefused(p) /\ ~GiveUp(p)
      BY <1>1 DEF Complete, FailRun, FailRunRefused, GiveUp, stored
    <3>5. QED BY <2>1, <3>1, <3>2, <3>3, <3>4 DEF Execute
  <2>3. pc[p] = "publish" /\ pc'[p] = "completing"
    BY <2>2, <2>a, <1>1 DEF Publish, Goto, stored, TypeOK, Sessions
  <2>4. /\ run.status \in {"running", "canceled"} /\ run.token \in {token[p], NoToken}
        /\ run.lease \in {"live", "none"} /\ WellFormed(run)
    BY <2>3, <2>a DEF LeaseInv, WorkerHasLease, RowsWellFormed
  <2>5. QED BY <2>3, <2>4 DEF WellFormed, Owns
<1>2. IInv /\ [Next]_vars =>
        [proposals' # proposals =>
           \/ \E p \in Processes : pc[p] = "publish" /\ Owns(p) /\ pc'[p] = "completing"
           \/ run.status = "canceled"]_vars
  BY <1>1
<1>3. QED BY <1>2, Invariant, PTL DEF Spec, HolderPublishes
=============================================================================
