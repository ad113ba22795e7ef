# CIneForge: TLA+ models, model checks and proofs

This directory is the formal-methods side of CIneForge. It holds TLA+ modules
translated from the Python source, TLC configurations that check them on small
instances, and theorems proved with TLAPS for every value of the constants.
`PROJECT.json` lists the components, the runs, one mutant per checked property,
the source lines each definition stands for, the findings, the hazards and the
theorems.

    tlc -workers 2 -config queue_postgres.cfg MCJobQueue    # a run
    tlapm JobQueueProofs.tla                                # the proofs of a module

## 1. Inventory of the system

CIneForge is a FastAPI/SQLAlchemy backend (`backend/app`), a React front end, a
migration tree and a command-line orchestrator (`scripts/headless_orchestrator`).
All durable state is in one SQL database: SQLite by default
(`core/config.py:22`), PostgreSQL in production. Sessions are made by
`db/session.py` with `autoflush=False`; a flush writes only the columns that
changed, in an `UPDATE ... WHERE id = :id` without any version check. Nearly
everything that can go wrong comes from that: a service reads rows, decides,
and commits while other sessions have committed in between. Row locks
(`FOR UPDATE`, PostgreSQL only) are taken late, after the rows a request is
about have been looked up, and re-read only the row they lock.

| Component | State | Operations | Interacts with | Hard part | Correct when |
|---|---|---|---|---|---|
| Render queue (`queue/state_machine.py`, `services/queue`) | `comfy_jobs` rows | claim, heartbeat, recover, transition | submission, operators | two sessions on one row; stale reservations | claims are exclusive and counted, nothing submitted is requeued |
| ComfyUI submission (`services/comfy/submission.py`) | the same rows, `workflow_runs` | readiness, validating, POST, outcome | ComfyUI over HTTP | an await between check and write; crash after the POST | one claim, at most one prompt; submitted means posted |
| Planning runs (`services/planning`) | `orchestration_runs`, steps, invocations, proposals | create, claim, execute, cancel, retry | providers, the story | leases, cancels and crashes around long provider calls | one executor, steps in order, an ended run stays ended, the lease holder publishes |
| Execution controller (`planning/executor.py`) | in-process registry of futures | submit, discard, record failure | start route | capacity after claim; failures outside the engine | every scheduled run ends |
| Plan assembly (`planning/contracts.py`) | none | merge the answers of all tasks into one plan | engine, validator | answers with gaps, duplicates, dangling references; division of the target | whatever the answers lack, the plan passes schema and validator |
| GPU leases, voice preview (`services/runtime/gpu_leases.py`, `workers/voice_preview.py`) | `gpu_resource_leases`, `voice_previews` rows | acquire, heartbeat, release, expire; generate | GPU workers | expiry under a working holder | one holder per resource and group |
| Headless orchestrator (`scripts/headless_orchestrator`) | SQLite ledger of tasks and process slots, the task's git worktree | run-task (slot, worker, result, patches, checks, tests), invalidate | worker processes, git | controllers sharing slots; a failure at any of a dozen places; a worker that writes | processes within the limit, only verified patches pass, failed patches undone, slots returned |
| Proposals (`schemas/proposals.py`, `ai_orchestration/validator.py`, `proposal_service.py`, `proposal_apply.py`, `storyboard_mutations.py`) | `ai_proposal_records`, story and version rows | create, review, reject, apply | planning, hierarchy, versions | three sets of rules for one plan; unlocked reads racing apply | applied to its base; what was recorded can be written, keeps its order and is ready |
| Storyboard versions (`storyboard.py`) | `stories.approval_state`, active pointer, `storyboard_versions` | approve (with retries), every edit reopens | proposals, edits, snapshots | numbers allocated without a lock on SQLite; approving again what is in force | one approved version in force, an approved story says what was approved, history append-only |
| Storyboard hierarchy (`storyboard.py`, `storyboard_mutations.py`) | chapters, scenes, shots | create, edit, archive, reorder, merge of a plan | versions, proposals | order indexes unique over tombstones; rows looked up before the lock | orders distinct at every flush, continuity acyclic and live, a plan is the whole story |
| Characters and voices (`storyboard.py`, `storyboard_crud.py`, `voice_design/service.py`) | characters, voice profiles, links, narrations | create, edit, approve, archive, link, narrate | hierarchy, proposals | archives racing links; plans that archive what they omit | nothing in use is archived, approved assignments stay |
| Reference assets (`reference_assets.py`, `planning_assets.py`) | `planning_media_assets` rows and files | upload, review, archive, delete, link | stories, previews | bytes and rows are two systems; duplicates race; no row locks | rows have their bytes, no race leaks files, approved plans are reopened |
| Runtime catalog, templates, FFmpeg, telemetry, benchmarks, most routes, front end | rows or files | I/O and pure data | | | |

`PROJECT.json` "components" names the files of each and what is left out.

## 2. Plan

Done, in this order:

1. **JobQueue** with the abstract **Reservation**: the queue and the submission. Checked and proved.
2. **PlanningRun**: one run, its lease, its executors, its canceling users. Checked and proved.
3. **GpuLease** with the abstract **Lease**: the leases and the voice preview worker around them. Checked and proved.
4. **HeadlessTasks**: the task ledger, slots, worker processes and patches. Checked and proved.
5. **StoryVersions** with the abstract **History**: approval, proposals and edits of one
   story. Checked and proved, the parts that need row locks for PostgreSQL.
6. **Hierarchy**: the tree of chapters, scenes and shots. Checked and proved.
7. **ReferenceAssets**: files and rows. Checked and proved.
8. **Cast**: characters, voices and the shots that refer to them. Checked and proved.
9. **Durations**, **ProposalRules**, **PlanAssembly** and **Proposals**: from the answers of
   the providers to an applied plan. Checked and proved.

Left, in the order of their worth:

- create_run and the retry route: idempotency keys and the one active run per
  story, both serialised by the story's row lock, and the lineage that is
  committed after the run.
- Previews of voices: selection against approval (section 6).

Every module takes its sizes as CONSTANTS with named assumptions, has one action
per operation (two where another session can run between its read and its
commit), and declares no RECURSIVE operator, so that it can be proved about.

## 3. Modules

### JobQueue (`MCJobQueue`, `Reservation`)

`jobs` is the `comfy_jobs` table, reduced to the columns the code reads back.
Each worker and each other caller of `transition_job` is a session with a
control point `pc`, the rows it has loaded (`copy`) and one argument (`arg`).
A service call is a read step and a commit step; `Flush` writes the changed
columns over whatever the row holds by then. With `RowLocks` (PostgreSQL) claim
and recovery are one step because they select `FOR UPDATE SKIP LOCKED`.
`submit_reserved_job` is SubmitCheck, SubmitReread, EnterValidating, the POST
(`ComfyAnswers`, external) and RecordAnswer. Workers in `Mortal` may die between
any two steps and come back under the same id; heartbeats age at any time.
`grants` and `prompts` count claims and prompts; nothing reads them.
`MaxGrants` bounds the claims of a job: only SQLite, where attempts can be lost,
and direct reservations reach it.

`Reservation` is what the queue promises: a job has one owner, goes through "no
owner" between two owners, and is granted at most MaxAttempts times.
The refinement maps owner to the `worker_id` of a reserved row.

### PlanningRun (`MCPlanningRun`)

One orchestration run. `run`, `steps` (the status of every attempt per sequence
index), `invocations` and `proposals` are rows; `pc`, `copy` and the worker
variables belong to the at most one worker thread of each API process, and to
the sessions of canceling users. The lease is none, live or expired; the token
of the n-th acquisition is n. A worker alternates between a renewal
and committing what it decided from rows it read before or at the commit (`Views`). The renewal
reads the run (`Reread`), then does a compare-and-set on the row as it is (`Renew`); when that
fails, the handler decides on the row as it was read. A repair needs budget both in the run and in the
worker's own count (`spent`, its `budgets.repair_used`). StartUnscheduled stands for a claim that no
worker gets (capacity, or the registry still holds an older execution),
StartRefused for an executor that raises. `Raise` is a PlanningError between two
commits, `FailRun` the handlers that record it, whoever holds the lease by then, and `FailRunRefused` a
database that refuses even that: the controller swallows the error (`GiveUp`) and the run stays
running. `Die` removes a worker.

`LeasesOutliveWork` says that a lease never expires while its worker is still
executing. The code renews a lease of 600 s before each step and around each
provider call and gives a run 300 s, but it does not enforce the relation: a
stalled process breaks it. With it FALSE, a worker that lost its lease can
still write what it had decided (its UPDATEs are not conditional on the lease) and fail or settle the
run another one holds (section 6), and HolderPublishes, EndedStaysEnded and RunIsConsistent
(CompletedIsDone, OneActiveAttempt, StepsInOrder) do not all hold; `planning_run`, which checks them,
sets it to TRUE, and `planning_contended` checks with FALSE what does hold.

A death between Publish and Complete leaves a proposal without a completed run; the
worker that resumes the run records a second one. HolderPublishes therefore says
who may publish, not how often. A cancel whose copy is older than the claim does
not write the lease columns (they have not changed in its copy), so a canceled run
may keep a token; EndedReleasesLease speaks of completed and failed runs.

### GpuLease (`MCGpuLease`, `Lease`)

`leases` is the `gpu_resource_leases` table. A worker runs one voice preview at a
time: AcquireStart, ExpireStale (read the overdue rows, then one commit that
expires them), LookForConflict, Insert (the unique partial indexes on the resource
and on the group of active rows decide), the work with heartbeats, and the
release; the read and the commit of heartbeat and release are separate steps,
since another session may expire the row in between. `WorkEndsUnusable` is a
session that can no longer be used, so that the release is swallowed. `RunsOut` lets any lease
become overdue at any time.

`Lease` is the promise: for each exclusive group there is at most one holder, a lease that was
lost never holds again, and every grant is a new one. It is refined with the id
of the active row of each group as its holder.

### HeadlessTasks (`MCHeadlessTasks`)

`status` and `slots` are the ledger, `pc` is the next statement of each controller
process (`run-task` starts one per task), `alive` the worker processes it launched,
`files` the paths of each worktree that differ from HEAD. Before the try block of
run_task nobody handles an exception, and a task stays where it is; inside it,
Handle and ReleaseSlot are the except and finally clauses. Patches are written one
by one (WritePatch), any write may fail (WriteFails) and is then undone file by
file (UndoPatch). A worker may write to its worktree at any time until it is
gone (WorkerTouches), which verify_worktree_changes must notice. Controllers of
tasks in `Faulty` may die anywhere, and their undo may itself fail.

### StoryVersions (`MCStoryVersions`, `History`)

One story. `plan` is its content, as far as its hash tells contents apart
(`content_hash_for_snapshot` drops the lifecycle columns, and so does `plan`);
`approval` and `active` are those columns, `versions` the rows of
`storyboard_versions`, whose numbers are their places. `session[s]` is what a call
has read. Every call is a read step and a commit step: EditRead/EditCommit
stand for all services that write a part of the story and mark it draft. An edit
of a prompt package, a task assignment or a recommendation is an action of its
own, since each can move the plan elsewhere: a created or deleted row always
changes it (the snapshot holds its id), and only packages and assignments can
make the plan contain a shared profile; UpdateStory is every other edit.
ApproveRead with ApproveAgain, ApproveCommit or ApproveRetry is
`storyboard.approve`, ReviewRead/ReviewCommit and RejectRead/RejectCommit are the
proposal routes, ApplyRead with ApplyInvalid or ApplyCommit is `apply_proposal`.
`Abandon` is any error, refusal or death in between. ProfileLookup, ProfileLock,
UpdateProfile and DeleteProfile are the changes of a row that several stories
share: the stories that contain it are looked up before any is locked, and one
that comes to contain it in between is not reopened, though its plan changes, with
a deleted profile through the foreign keys; `slipped` records that this has
happened. That a profile with assignments is not deleted is one of the refusals.

`database` never changes. On PostgreSQL the calls that select the story
`FOR UPDATE` exclude each other from read to commit (StoryFree), and only apply
locks a proposal (ProposalFree). On SQLite nothing does, except that the number
of a version is unique.

A payload merged into the story may give any plan, revalidation and readiness may
have any outcome, and `asked` is the hash a client may send along. `pending_review`
stands for `needs_review` too (the code treats them alike), and nothing sets
`superseded`. Optional preconditions that only make a call fail are left out.

`History` is the promise: an append-only log of drafts and approvals, of which one
approval is current; approving again what is current adds nothing. The refinement
forgets which rows are superseded and computes the current one from them.

### Hierarchy (`MCHierarchy`)

The chapters, scenes and shots of one story. `row` holds the three tables in one
function: a row is absent, active or archived, and has an `order_index` and, if it is a shot,
the shot its continuity comes from. Archived rows stay as tombstones; orders are unique
among siblings over the tombstones too, which is why archiving sends them below zero
(`Reindexed`), an applied plan sinks the shots it leaves out (`Sunk`), and every
rearrangement first moves its rows out of the way (`Staged`, `StagedActive`).
`CollisionFree` is the unique constraint as the flush meets it, one UPDATE after the other.

A request is `LookUp` and `SlowRequest`: the row it is about is read, then the story is locked,
the tree changed and committed. The lock re-reads only the story, so an edit
starts from the row as it was looked up (`seen`), and to a request the rows above its
own stay active even after they were archived (`stale`). Requests nobody comes between are
one step (`PromptRequest`); `Slow` bounds which rows have slow ones. The operations are those
of the routes (create, edit, archive, reorder at each level, update and patch of shots
with their continuity check) and the merge of a plan (`Apply`), which takes every
full plan the schema lets pass (`Plans`), those with chapters and scenes that hold nothing
included. What the merge does not look at is `LeftOver`: the scenes and shots of a chapter that the plan
names without scenes stay, or come back with the chapter when an earlier plan has left it out.
`leftover` is a history variable, the shots the last plan has left so. `Asked` and `AskedSources`
bound the positions and sources requests name, `MaxDepth` how far repeated applies sink tombstones.

### Cast (`MCCast`)

Characters, voice profiles and the shots that link or narrate them. The requests have
the same two steps, with what they keep of their stale look-up in `request`. `Apply` merges a
full plan: it gives characters their voices, brings back what it names and archives what it does
not, and refuses when that is approved or in use. A shot it does not name is archived only with a
scene the plan omits; if its chapter is left out, it is `hidden` (not archived itself), and if its chapter is named
without scenes, it stays or comes back. `gone` is a history variable: of a shot that has come back or
stayed so, the characters that were archived before. `Plans` are all of them for TLC, except that a
shot has everybody or nobody.

### ReferenceAssets (`MCReferenceAssets`)

`row` is `planning_media_assets`, `files` the managed directory, `uses` what
the plans refer to, in four ways (`Ways`), `approved` the approved stories. An
upload writes its bytes (UploadNew, or half of them: WriteFails), then commits its row (StoreCommit),
or cleans up (StoreFails), then reads the row again (RefreshRow); when that fails, the same handler
removes the bytes of the committed row (RefreshFails). A deletion commits (DeleteCommit), then unlinks
(DeleteBytes). Reviews, archives and
reuploads of archived bytes read the row and the stories that use it (TransitionRead, ArchiveRead,
UploadAgain) and write the columns that changed (ChangeCommit). There are no row
locks on assets. `Die` ends the process between any two of these. `leftover`, `stripped` and `late`
are history variables: files a death or a failed write or unlink left, rows whose bytes that handler took,
and references made after a change has looked for its users, none of which anything in the code
could know.

### Durations, ProposalRules, PlanAssembly, Proposals (`MCProposals`)

`Durations` is the division of the target duration, in ten-thousandths of a second, the unit
the code rounds to. `ProposalRules` is what the pydantic schema and the semantic
validator demand of a plan, as sets of the names of broken rules, so that the two
can be compared: `SharedRules`, `SchemaErrors`, `ValidatorErrors`. `PlanAssembly` is
`build_proposal_payload`: names made unique, references resolved by client id, row id or name,
positions clamped and wrapped, rows of other tasks keyed to shots, everything absent
given a default, shots chained in canonical order. `Proposals` composes them into the life of one plan:
asked, proposed (Assemble, Submit), recorded (Validate), applied or refused (ApplyPlan,
against `WriteErrors`), and judged (`Reasons`, readiness). `WriteRules` is what the mutations
raise and what the database refuses: changed and reassigned approved voices, identities left out that are approved
or in use, positions that are taken, links made twice, sources that are no shots, and foreign keys.
`LeftShots` are the shots below a chapter the plan names without scenes, which stay and are judged
with the plan's.
Identifiers are sequences, so that a suffix makes a new one as in the code; recommendations
of a shot are a set. `InputsAssumption` says what an input is: an answer is lists of rows with
numbers for positions (`Answered`, what the code makes of any JSON), a plan of an author is
a tree (`Shaped`, what its nesting gives), a story has finitely many characters. An id that a
provider or author has made up is `foreign`.

This composition is about whether the parts agree, not about interleavings, so its steps are
few and its initial states many: `MCProposals` defines families of requests (`Aspects`), each of
which varies one aspect of the answers or of an author's plan over small sets: trees, lengths, names,
casts, children, orders and contents.

## 4. Runs

| Run | Instance | Shows |
|---|---|---|
| queue_postgres | 1 job, 2 mortal workers, 1 operator, 2 attempts; symmetry of workers | attempts count claims, submitted was posted, nothing submitted is requeued, refinement of Reservation |
| queue_sqlite | no row locks, 2 workers of which one may die, 2 attempts, fairness | what survives double claims: one prompt per claim; reservations of a dead worker end for a caller that keeps recovering |
| queue_double_submission | violation | the finding of section 6 |
| planning_run | leases outlive work, 2 mortal processes, 1 canceling user, 2 steps, 1 repair, 1 escalation, 3 claims; symmetry of processes | rows are consistent (order of steps, one active attempt, completed is done, ended releases the lease, attempts bounded), an ended run stays ended, nobody publishes beside the holder of a live lease |
| planning_contended | leases may expire under workers, 2 processes, no user, 1 step, 2 repairs, 1 escalation, 2 claims, fairness | attempts bounded, scheduled runs end unless even the failure cannot be written |
| gpu_leases | 2 workers (one mortal), 2 GPUs, 2 groups, 2 lease rows, fairness | exclusive GPUs and groups, refinement of Lease, leases of dead workers end |
| headless_tasks | 2 tasks (one faulty), limit 1, 2 owned files and one that is not, fairness | the ledger bounds the workers, only verified worktrees pass, patches all or nothing, slots returned |
| story_versions | 2 sessions, 1 proposal, 3 plans of which 2 contain a shared row, 2 attempts, 2 versions, both databases; symmetry of sessions and of linked plans | one approved version in force, approved points at approved and says what it says, proposals apply to their base, refinement of History |
| hierarchy | 2 chapters with a scene each, 1 and 2 shots, 1 slow request (about a shot), tombstones down to -4 | orders distinct at every flush, continuity acyclic and live, a plan replaces the story, but for what it leaves |
| cast | 1 character, 2 voices, 1 shot, 2 slow requests; symmetry of voices and of requests | the cast of a live shot is active unless it came back without it, voices in use stay, approved assignments stay |
| reference_assets | 2 calls, 2 assets of the same bytes, 3 kinds, 1 story, 1 reference; symmetry of calls and of assets | files and rows match but for a failing refresh, no asset changes under an approved plan |
| proposals | 6 stories (empty; a tree; a tree with an archived shot; with a character and a voice, nothing, the voice or both approved, also archived), 7 families of requests | assembled plans are sound and fit the duration policy; what was recorded can be written but for named gaps, keeps its order and is ready |

The bounds. Two workers are what a race needs; one job, because no operation
relates two jobs except the order of the claim and the recovery limit. Two
attempts let a job be recovered, claimed again and timed out. `MaxGrants` cuts
off only SQLite's repeated double claims; at 7 it is not reached in
`queue_sqlite` (9 gives the same states). Two steps are what an order of steps
needs; one repair and one escalation give three attempts; three claims let a run
be resumed twice. Two lease rows are what a conflict needs, and let
the second be granted after the first expired; rows interact only in pairs.
Two tasks under one slot make every slot contended; two files let a patch fail
after another was written. In StoryVersions a race has two parties; two versions let one
supersede the other, three plans let a shared row change within a plan and a story
leave it; two attempts are one retry (the code makes three), and the theorems
hold for any number.

In Hierarchy one slow request meets any number of prompt ones and of plans, which is what a stale
look-up needs; every order in which two requests commit is there. Two chapters let a plan
keep one without scenes and take the sources of its shots from the other (`Links`). Three shots in two
scenes let a chain of continuity cross scenes and shots trade places; each chapter has one scene, so that a
scene omitted beside another is reached by the proof only. A `MaxDepth`
of 4 lets a plan leave out any shots of a scene of two, and repeated ones sink on from there. In
ReferenceAssets two of each kind are what a duplicate needs. In Cast one voice can be exchanged for another, and two
slow requests race each other and plans; its properties speak of one character and one shot at a time, and the
theorems hold for any number. In Proposals the lengths run over 80 targets that no number of shots
divides evenly, with up to 7 listed shots; trees over all answers with up to two chapters, two scenes and three
shots whose positions are missing, right or out of range.

Fairness. Nothing in the repository calls recover_stale_once again and again: `worker.py` has one-shot methods
and docs/SPRINT_1C_PLAN.md:27 leaves out any loop around them. So the specification of the queue has weak
fairness only of finishing a call that was begun, and DeadReservationEnds is conditional: *if* some
caller keeps calling recovery while there is anything to recover (KeepsRecovering, a caller the repository does
not have), a dead worker's reservation ends, whatever the others do in between. Nothing makes
a worker submit or heartbeat. In PlanningRun a thread of the pool,
once started, runs on: weak fairness of Execute(p); nobody has to start or cancel.
In GpuLease time passes (a lease that is not renewed runs out) and an acquisition that was
begun is finished; no worker has to ask for a lease, so AbandonedLeaseEnds is
conditional on somebody asking. In HeadlessTasks a controller that is not faulty runs on, and its
worker ends because run_worker kills it at its timeout.
The other modules state no fairness: no user has to do anything.
story_versions, hierarchy, cast and reference_assets check deadlock (a request can always be
made); the other systems may rest (no pending job, a terminal run, nobody asking for a GPU, all
controllers ended, a plan applied).

## 5. Proofs

Checked by `tlapm` for all Jobs, Workers, MaxAttempts and so on.

- `JobQueueProofs`: **TypeCorrect**, **PromptsAreGranted**, **AttemptsAreCounted**,
  **QueueImplementsReservation**, **SubmittedWerePosted** and **SubmittedStaysOut**. TypeInv strengthens TypeOK
  with what a session has loaded at each control point (exactly one row, with an
  argument of the right kind), without which a flush is not known to give a row.
  PromptsAreGranted holds on both databases; its invariant is an account: every claim gives a
  job the right to one prompt, and PromptInv says that the rights not yet used cover the row being
  reserved plus every session on its way to a POST, summed over the workers
  (hence the finiteness of Workers). CopyInv relates a session's copy to the row.
  AttemptsAreCounted, QueueImplementsReservation and SubmittedStaysOut assume Postgres: row locks, and no direct
  reservation through `transition_job` (nothing in `backend/app` asks for one). On SQLite all three are false.
  The last two theorems also assume that nobody asks `transition_job` for `submitted`
  (NobodyMarksSubmitted; nothing in `backend/app` does). SubmittedWerePosted holds
  on both databases: in PostedInv a prompt_id once in a row stays, a row becomes submitted only together
  with one, by the session that has seen the prompt accepted, and the states after that are reached only from
  a copy that has the prompt_id already. That such a row is not claimable again needs the
  row locks: a flush then starts from the row as it is.
- `PlanningRunProofs`: **RunsAreConsistent**, **AttemptsAreBounded**, **EndedRunsStayEnded**
  and **HoldersPublish**, all assuming `LeasesOutliveWork` (without it a worker whose lease is gone does decide the
  run, section 6), with any number of processes,
  users, steps, repairs, escalations and claims, and deaths and cancels anywhere. A claim
  needs a run without a live lease, and the lease of a worker lives until somebody ends the run, so
  there is at most one worker (OneWorker) and all that comes between its reads and its
  writes is a cancel (WorkerHasLease, OnlyCanceled). IInv adds what a worker knows of the steps
  at each statement (Informed): those before its index are passed, the next is unstarted, its
  attempt is the last. CountInv is a second account: a claim allows each index as many attempts
  as there are escalations, every repair allows one more, and a worker that has climbed k models
  has so many less to use (Frugal).
- `HeadlessTasksProofs`: **WorkersAreBounded**, and, if every task has a worktree of its own (OwnTrees),
  **PassedTasksAreVerified** and **PatchesAreAtomic**. LedgerInv says that a worker runs only while
  its controller waits for it, under a slot that was counted; TreeInv says, for every statement
  between the first write and the tests, which paths of the worktree may differ from HEAD.
- `StoryVersionsProofs`: **TypeCorrectness**, **ExclusiveApproval** and **HistoryRefinement** on both
  databases, **ApprovedPointsAtVersion**, **ApprovedContent** and **AppliesOnBase** on PostgreSQL, for every set of sessions, proposals and plans and any number of attempts.
  IInv is TypeOK with AtMostOneInForce, ReadsHold and ProposalsExist. Versions are only added
  and superseded, so while the number an approval has read is still the last, all it
  has read of the versions still holds (ReadsHold); it commits only then, and hence
  supersedes every version in force, none of which has its plan. Row locks are not
  needed for this, the unique number is. What an approved story says is another matter: LockInv adds that
  at most one session holds the story's row, that what the holder has read of it
  is what it still is, and that an approved story says what the version in force says. The refinement compares the logs entry by
  entry (LogAppend): superseding changes no entry.
- `GpuLeaseProofs`: **LeasesAlwaysExclude** and **LeasesImplementLease**. IInv is TypeOK, what a worker has at
  hand at each statement (AtHand) and OneLeasePerGpu. Every step either ends active rows (Ends)
  or adds one that conflicts with none (Adds); the two cases carry both the
  invariant and, with the holder of a group as the id of its active row, the refinement.
- `CastProofs`: **CastStaysActive**, **VoicesInUseStay** and **ApprovedAssignmentsStay**. IInv adds to the
  property that a shot not yet created has no links, and that a request to link has found
  a shot that exists. A shot that a plan leaves to its chapter may bring archived characters back; `gone` is
  exactly those, and no request and no further plan adds to them. The checks under the lock are what keeps it; no assumption
  is made of what a stale look-up still says.
- `ReferenceAssetsProofs`: **FilesAlwaysMatchRows** and **ApprovedStaysUntouched**. IInv adds that an upload has its name and bytes for itself (StoreOwns), that bytes
  are removed only after their row (UnlinkGone), the foreign keys (UsesExist), and that a
  call knows every user of its asset but the late ones (UsersKnown).
- `StoryboardProofs`, the tree: **OrdersAreDistinct**, **ContinuityHasNoCycle**, **SourcesAreLive** and
  **PlansReplaceTheStory**, for every set of ids, any number of requests, all of them slow,
  and every position and plan. Every step is one of six Changes to the rows, lemmas say
  column by column what each writes, and all rest on TreeInv: a row has rows above
  it, and so has the row a slow request comes back to. *Positions*: the rank of a sibling among finitely
  many different numbers is a number below their count, and ranks are different
  (RanksApart, IdRank); so the staged positions lie above all that was there and the final ones below
  all that was staged, and no UPDATE of a flush meets a taken one. *Cycles*: Origins is the least
  set closed under sources, so a set that is closed and leaves a shot out proves that
  no chain leads to it. A new link to m gives a cycle only through a shot that already goes back to
  itself or through m (NewCycle), which the walk has just excluded, whatever it took for active; in a merged plan
  sources come earlier, and the shots that come no later than a given one are
  closed (MergeNoCycle). *Live sources*: what an archive takes is closed downwards among live
  shots, and Dependents are what is left; a plan takes a source away only from a shot it leaves over.
  *Plans*: what is live afterwards is what is named and what is left over (MergedLive), level by level.
- `StoryboardProofs`, durations: **CountFitsTarget**, **ShareFitsPolicy**, **TargetIsExact** and **EveryShotFits**: for every target
  of at least six seconds and whatever number of shots the providers list, the count chosen
  lets every share lie within 6 to 12 seconds, the shares add up to the target, and the last shot misses
  the range by at most half a ten-thousandth for each shot. The two lemmas about division and
  products are all the arithmetic there is; the run compares these definitions inside whole plans.

- `StoryboardProofs`, plans: **AssembledPlansAreSound**, **AssembledPlansFit**, **RecordedIsWritable**,
  **AppliedIsInOrder** and **AppliedLacksLittle**, every invariant of Proposals, for every story
  before, every answer and every plan of an author that InputsAssumption admits. RecordedIsWritable goes through
  the ways a write can fail one by one: an approved voice that is changed was named by its id (VoiceIsKept), a
  character that is reassigned had an approved voice (ReassignedHadVoice), what is left out and protected was
  approved or referred to (OmittedWasHeld), and in a story without chapters no position is taken
  (PositionsAreFree). PlanInv says what a
  proposal has gone through at each stage; the rest is about data. The sums, names and casts of
  the model are folds, which the community modules define by recursion over finite sets. That such a
  definition has a value is proved without induction (SetRecursion): of the sets for which it has none
  there would be a least one (MinimalExists), and the sets below it give it one. By the same
  argument a fold keeps what its step keeps, so names are fresh and distinct (FreshName, NamesOf), a
  cast lists nobody twice, and the durations sum up to the target (SumOfEqual). Orders are ranks, so
  siblings are numbered without gaps (RanksAreContiguous) and places are ordered strictly;
  then a shot with others before it has one right before it (OneIsRightBefore), the one
  Chain takes. An applied plan without repeated rows keeps all its shots, so what held of the plan holds
  of the story. AssembledPlansAreSound assumes stories shorter than 200 hours; of more than
  120000 shots the rounding could take the last one away (section 6).

Assumptions on constants are named in the modules that declare them and evaluated by
TLC in every run of the module. Only model-checked: what is left of AttemptsBounded when leases do expire
under workers. Liveness (DeadReservationEnds, ScheduledRunEnds,
AbandonedLeaseEnds, SlotIsReturned) and ENABLED are out of the prover's reach,
as are RECURSIVE operators and the induction theorems of the library; where a fold had to be
reasoned about, the argument goes by least sets instead.

## 6. Findings, and what was seen while modelling

The finding of `PROJECT.json`, with a run that shows it: recovery can hand a slow worker's job to
another one, and both post it (queue_double_submission; docs/SPRINT_1C_PLAN.md:64 excludes it).

The rest was seen while modelling. The models contain each of these behaviours, or name the guard or
constant that excludes it; none has a run of its own.

Queue and GPU leases
- A cancel made while the POST is awaited is overwritten with its outcome
  (`submission.py:230`; docs/QUEUE_STATE_MACHINE.md:27).
- A failed POST moves a validating job to comfy_rejected, an edge VALID_TRANSITIONS does not have
  (`submission.py:122`).
- Jobs whose worker dies while they are validating stay there: recovery looks only at
  reserved ones (`submission.py:112`).
- `run_batch` lets one worker reserve several jobs and submits none of them, which docs/SPRINT_1C_PLAN.md:60 excludes
  (`worker.py:86`).
- A preview that takes longer than its GPU lease of 300 s works on beside the next holder: the
  lease is not renewed (`voice_preview.py:140`; the docstring of `gpu_leases.py:3`).
- A heartbeat that commits while another session expires the lease is lost (`gpu_leases.py:50`).

- Nothing in the repository calls recovery again and again; a reservation whose worker died ends only if
  somebody outside does (`worker.py`; docs/SPRINT_1C_PLAN.md:27 says so).

Planning runs
- A worker whose lease has expired fails or settles the run all the same, whoever holds it by then: a renewal that
  is refused raises, and the handler fails the run as it had read it before (`engine.py:779` and 1381), a controller
  records a boundary failure without looking at the lease (`executor.py:193`). With LeasesOutliveWork no lease
  expires under its worker, so the four theorems say nothing of this; `planning_contended` lets it happen.
- A boundary failure that cannot be written is swallowed, and the run stays running until somebody starts it again
  (`executor.py:235`).
- A cancel committed between the check after the provider's answer and the commit is overwritten
  (`engine.py:943`, whose comment at 940-942 wants to prevent it), and a checkpoint writes the whole
  routing snapshot from its copy and can drop `cancel_requested` (`engine.py:1467`).
- A worker that outlived its lease can write its `repair_used` over the count of the next one
  (`engine.py:1116`; each UPDATE sets the column to the worker's own value), so that a later claim repairs
  more than the budget of the run (`repository.py:293`). It follows the lowered count (`engine.py:1117`), so that
  with two steps even one claim can: with a budget of 3, the current worker makes two repairs at index 2, the one
  that lost its lease repairs index 1 and writes 1 over 2, and the current worker makes two more. AttemptsBounded
  says what bound is left.
- A start answered 503 leaves its run claimed, and a retry is told it is already active, until
  the lease expires (`orchestration_runs.py:170`).
- The lineage of a retry is stored after the run was committed. A crash in between, or a worker's
  checkpoint, loses it: the chain of retries counts from one again, and a replay with the default key
  is an idempotency conflict (`orchestration_runs.py:279`).

Proposals and plans
- A review or rejection read before an apply and committed after it writes its own status
  over `applied`; the proposal can be applied again (`proposal_service.py:363` and 390).
- The validator's check that approved voices keep their identity reads `snapshot["voices"]` (`validator.py:400`), but
  stored versions list them as `voice_profiles` (`storyboard_snapshot.py:509`), and `apply_proposal` discards what
  `build_snapshot` returns (`proposal_apply.py:215`). The check never fires, and such a plan is
  refused only when it is applied (`storyboard_mutations.py:125`). A plan of the engine gets there, too,
  when an item names the row of an approved voice by id and calls it something else. RecordedCanBeWritten
  bounds this gap; it does not close it.
  test_proposals_phase1.py:272 passes because it hands in a snapshot with `voices`.
- A listed shot that is used again as a template repeats its `existing_id`, and nothing rejects a plan
  with two items for one row: the second overwrites the first (Repeats).
- A shot that starts from an image may name any source; the validator accepts it and the
  mutation raises. A character linked twice to a shot violates the primary key of the links.
- Neither schema nor validator knows the rows of the story, so a recorded plan may be refused for what it
  would do to them: give a character with an approved voice another one (`storyboard_mutations.py:187`), leave
  out an identity that is approved or in use (313; an answer without voices on a story that has one will do), or put a
  chapter or scene where another row, also an archived one, still is (368 and 392).
- Two ids come from a provider or author unchecked: the source asset of a voice (`contracts.py:385`,
  `storyboard_mutations.py:137`) and the provider profile of a prompt (`contracts.py:699`, 579). One that does not exist
  violates a foreign key. `apply_proposal` turns only a MutationError into an answer; such an IntegrityError, like that of
  a taken position, is rolled back and comes out as it is.
- Of voices that are not approved, `setup_mode` and `source_type` are taken as the provider gave them, even where a
  usual word has just been found; an unusual mode fails the schema and the run.
- The last shot of a plan may miss the range of 6 to 12 s by half a ten-thousandth for each shot.
  Nothing bounds the target (`schemas/storyboard.py:34`): beyond 200 hours the rounding of more
  than 120000 shots can leave the last one no time at all, and the run fails at the schema.
- On SQLite two applies of one proposal, or an edit racing an approval, can leave two versions
  of a proposal or an approved story with other content than its version.

The tree
- Scenes are merged and archived inside the loop over the scenes of the plan (`storyboard_mutations.py:469`). So a
  chapter that a plan names without scenes keeps its old scenes and shots, and one that an earlier plan had left
  out gets them back when its row is un-archived (371; `_archive_missing_chapters` archives the chapter row only).
  Their continuity sources and characters may have been archived meanwhile; readiness counts them, so that
  the duration no longer fits. The models have all of it (`LeftOver`, `LeftShots`, `gone`), and SourceIsLive,
  PlanReplacesStory, CastIsActive and AppliedIsReady name it as an exception.
- `patch_shot` checks the continuity of the shot it moves, not of the shots that continue it
  (`storyboard.py:651`), so a source can come to lie after its target. No cycle results.
- `upsert_hierarchy` moves chapters and scenes to their positions one at a time and can run into
  the unique constraint (Assignable); it archives approved shots; the scenes it archives keep active shots.
- create_shot and create_scene read their parent, and archive_shot its approval, before the lock; an
  archived shot can be patched.
- Prompt packages take the highest version plus one without a lock; the order of the characters
  of a shot has no unique constraint.

Characters, voices, assets
- A narration may name an archived voice, and a voice may be made for an archived character. A plan that
  revives a character keeps its archived voice. `archive_voice_profile` uses the approval read before the lock.
  Nothing sets the approval of a character to approved. CastIsActive needs the row locks of PostgreSQL.
- `select_preview` reads the approval before any lock: a selection can be written over an approved
  profile (`voice_design/service.py:601`).
- An edit of a provider profile that a story got after the lookup changes an approved plan without
  reopening it (`storyboard_crud.py:130`).
- A review read before an archive can commit after it: the row is marked archived and its state says
  approved (`reference_assets.py:738` and 758).
- The refresh after the commit of an upload is inside the try block whose handler removes the file
  (`reference_assets.py:623`): a connection lost just then leaves a row without bytes, the exception FilesMatchRows
  makes (`stripped`). The write itself is before the block (579): one that fails half-way leaves a file that nobody
  removes (`leftover`).
- `register_planning_asset` takes bytes of any kind, archived ones too, for the same asset (`planning_assets.py:61`).

Headless orchestrator
- Two controllers can be started on one worktree: the preflight looks only whether it is a linked one
  (`policy.py:176`).
- A dead controller keeps its slot: heartbeat_at is written and not read (`controller.py:186`). At the limit
  a task is left preparing (`controller.py:93`). A controller that dies between two patches leaves the first one
  applied (`patches.py:46`).

## 7. Not modelled

Audit rows, events, timestamps other than heartbeats and leases, hashes, and payloads beyond what the
rules of a plan tell apart. Of the planning runs, their admission (idempotency keys, the one active run per story, the lineage
of retries); of the voices, previews and recipes; of the providers, adapters, prompts and routing; of
the routes, all that is decoding and status codes. Runtime catalog, workflow
templates, the ComfyUI client and monitor, FFmpeg, telemetry, benchmarks and the front end
are I/O, data or presentation. `PROJECT.json` has the reason for each component.

Assumptions of the models about their surroundings: each headless task is given
a worktree of its own; a
worker process dies with its controller (the Windows job object of runner.py);
git and the fixed tests do not change a worktree; on SQLite an UPDATE sees the
latest committed row; a process that dies loses its whole session; rows are changed by
the modelled services only; and the database takes the textual id of a voice's source asset (PostgreSQL does; by our
reading SQLAlchemy's UUID type refuses it on SQLite, so that every such plan would be refused there).
