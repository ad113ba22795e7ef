---------------------------- MODULE StoryVersions ----------------------------
(***************************************************************************)
(* One story, its immutable versions and the proposals that would change   *)
(* it: backend/app/services/proposal_service.py, proposal_apply.py, the    *)
(* approval in storyboard.py and the edits of storyboard*.py,              *)
(* storyboard_crud.py and reference_assets.py.                             *)
(*                                                                         *)
(* A plan is the content the hash of a story ranges over: two plans are    *)
(* equal when their hashes are.  The plans in Linked contain a row shared  *)
(* by stories and edited on its own: a provider profile or a media asset.  *)
(* Every call is a database session: a step that reads and a step that     *)
(* commits the columns that differ from what was read.  On PostgreSQL the  *)
(* calls that lock the story's row keep it from the read to the commit;    *)
(* SQLite ignores FOR UPDATE.                                              *)
(*                                                                         *)
(* Left out: readiness, revalidation and the merge of a payload into the   *)
(* story (any outcome is possible), audit rows, and the optional           *)
(* preconditions of an edit or of an apply that only make it fail.         *)
(***************************************************************************)
EXTENDS Naturals, Sequences, FiniteSets

CONSTANTS Sessions,    \* calls that can be under way at a time
          Proposals,   \* ai_proposal_records
          Plans,       \* contents of the story, by hash
          Linked,      \* the plans a shared provider profile or asset is part of
          NoPlan,      \* a base_content_hash that was not given
          MaxAttempts, \* attempts of an approval: 3 in storyboard.approve
          MaxVersions  \* bound: storyboard_versions of the story

ASSUME LinkedAssumption == Linked \subseteq Plans
ASSUME NoPlanAssumption == NoPlan \notin Plans
ASSUME MaxAttemptsAssumption == MaxAttempts \in Nat \ {0}
ASSUME MaxVersionsAssumption == MaxVersions \in Nat

Ids == 0..MaxVersions
Approvals == {"draft", "approved"}

(* pending_review stands for needs_review too: every test of a status      *)
(* treats the two alike.  superseded is never set.                         *)
Statuses == {"pending_review", "validated", "applied", "rejected"}

(* A storyboard_versions row; its number is its place in the sequence. *)
Version == [status : Approvals, plan : Plans, superseded : BOOLEAN,
            source : SUBSET Proposals]

(* An ai_proposal_records row.  base 0: no base version; invalid: it has   *)
(* validation errors.                                                      *)
Proposal == [status : Statuses, reviewed : BOOLEAN, invalid : BOOLEAN,
             base : Ids, hash : Plans \cup {NoPlan}]

NoProposal == [status |-> "absent"]

(* What a call has read, by the kind of call. *)
Idle == [op |-> "idle"]
Edit == [op : {"edit"}, approval : Approvals]
Lookup == [op : {"lookup"}, affected : BOOLEAN]
Review == [op : {"review"}, proposal : Proposals, status : Statuses]
Reject == [op : {"reject"}, proposal : Proposals]
Apply == [op : {"apply"}, proposal : Proposals, approval : Approvals]
Approval == [op : {"approve"}, plan : Plans, approval : Approvals, active : Ids,
             number : Ids, same : Ids, previous : SUBSET Ids,
             attempt : 1..MaxAttempts]
Calls == {Idle} \cup Edit \cup Lookup \cup Review \cup Reject \cup Apply \cup Approval

VARIABLES
  database,  \* which database the program runs on
  plan,      \* the story as it is, lifecycle columns apart
  approval,  \* stories.approval_state
  active,    \* stories.active_storyboard_version_id, 0 for NULL
  versions,  \* storyboard_versions
  proposals, \* ai_proposal_records
  session,   \* what each call under way has read
  slipped    \* history: a profile changed or went under a plan not looked up

story == <<plan, approval, active>>
vars == <<database, plan, approval, active, versions, proposals, session, slipped>>

TypeOK ==
  /\ database \in {"postgresql", "sqlite"}
  /\ plan \in Plans
  /\ approval \in Approvals
  /\ active \in 0..Len(versions)
  /\ versions \in Seq(Version)
  /\ Len(versions) <= MaxVersions
  /\ proposals \in [Proposals -> Proposal \cup {NoProposal}]
  /\ session \in [Sessions -> Calls]
  /\ slipped \in BOOLEAN

Init ==
  /\ database \in {"postgresql", "sqlite"}
  /\ plan \in Plans
  /\ approval = "draft"
  /\ active = 0
  /\ versions = <<>>
  /\ proposals = [p \in Proposals |-> NoProposal]
  /\ session = [s \in Sessions |-> Idle]
  /\ slipped = FALSE

-----------------------------------------------------------------------------
(* Sessions *)

Read(s, what) == session' = [session EXCEPT ![s] = what]
Return(s) == Read(s, Idle)

(* The unit of work writes a column only when it differs from the value    *)
(* loaded; otherwise the row keeps what it holds by now.                   *)
Flush(loaded, value, now) == IF value = loaded THEN now ELSE value

(* Mutant: the story is read without FOR UPDATE. *)
StoryUnlocked(s) == TRUE

(* No other session holds the row lock of the story. *)
StoryFree(s) ==
  database = "postgresql" =>
    \A t \in Sessions \ {s} : session[t].op \notin {"edit", "apply", "approve"}

(* apply_proposal is the only call that locks the row of a proposal. *)
ProposalFree(p) ==
  database = "postgresql" =>
    ~ \E t \in Sessions : session[t].op = "apply" /\ session[t].proposal = p

(* A call fails, finds the story not ready, or its process dies: nothing   *)
(* of it is committed and its locks are gone.                              *)
Abandon(s) ==
  /\ session[s].op # "idle"
  /\ Return(s)
  /\ UNCHANGED <<database, story, versions, proposals, slipped>>

-----------------------------------------------------------------------------
(* Edits: every service that writes the story or a part of it *)

EditRead(s) ==
  /\ session[s].op = "idle"
  /\ StoryFree(s)
  /\ Read(s, [op |-> "edit", approval |-> approval])
  /\ UNCHANGED <<database, story, versions, proposals, slipped>>

(* Mutant: an edit of an approved story leaves it approved. *)
KeptApproved(loaded) == approval

(* mark_story_draft *)
Reopened(loaded) == Flush(loaded, "draft", approval)

(* The transaction of an edit ends with one of the plans in after. *)
Edited(s, after) ==
  /\ session[s].op = "edit"
  /\ plan' \in after
  /\ approval' = Reopened(session[s].approval)
  /\ Return(s)
  /\ UNCHANGED <<database, active, versions, proposals, slipped>>

(* The plans with one row more, with one row less, and with the same links *)
(* to shared rows.  The id of a row is part of the plan.                   *)
WithMore == (IF plan \in Linked THEN Linked ELSE Plans) \ {plan}
WithLess == (IF plan \in Linked THEN Plans ELSE Plans \ Linked) \ {plan}
LinkedAlike == IF plan \in Linked THEN Linked ELSE Plans \ Linked

UpdateStory(s) == Edited(s, Plans)

(* A prompt package and a task assignment may name a provider profile. *)
CreatePromptPackage(s) == Edited(s, WithMore)
UpdatePromptPackage(s) == Edited(s, Plans)

CreateTaskAssignment(s) == Edited(s, WithMore)
UpdateTaskAssignment(s) == Edited(s, Plans)
DeleteTaskAssignment(s) == Edited(s, WithLess)

(* A recommendation names neither profiles nor assets. *)
CreateRecommendation(s) == Edited(s, LinkedAlike \ {plan})
UpdateRecommendation(s) == Edited(s, LinkedAlike)
DeleteRecommendation(s) == Edited(s, LinkedAlike \ {plan})

EditCommit(s) ==
  \/ UpdateStory(s)
  \/ CreatePromptPackage(s) \/ UpdatePromptPackage(s)
  \/ CreateTaskAssignment(s) \/ UpdateTaskAssignment(s) \/ DeleteTaskAssignment(s)
  \/ CreateRecommendation(s) \/ UpdateRecommendation(s) \/ DeleteRecommendation(s)

(* Changing or deleting a provider profile, and the same way a media       *)
(* asset, looks up the stories that contain it, with no lock; ...          *)
ProfileLookup(s) ==
  /\ session[s].op = "idle"
  /\ Read(s, [op |-> "lookup", affected |-> plan \in Linked])
  /\ UNCHANGED <<database, story, versions, proposals, slipped>>

(* ... locks this one if it is among them, from where on it is an edit;    *)
ProfileLock(s) ==
  /\ session[s].op = "lookup"
  /\ session[s].affected
  /\ StoryFree(s)
  /\ Read(s, [op |-> "edit", approval |-> approval])
  /\ UNCHANGED <<database, story, versions, proposals, slipped>>

(* and otherwise commits the profile, whatever contains it by now.         *)
ProfileCommit(s, after) ==
  /\ session[s].op = "lookup"
  /\ ~session[s].affected
  /\ plan' \in IF plan \in Linked THEN after ELSE {plan}
  /\ slipped' = (slipped \/ plan' # plan)
  /\ Return(s)
  /\ UNCHANGED <<database, approval, active, versions, proposals>>

UpdateProfile(s) == ProfileCommit(s, Linked)

(* The foreign keys to a deleted profile are cleared or cascade. *)
DeleteProfile(s) == ProfileCommit(s, Plans)

-----------------------------------------------------------------------------
(* storyboard.approve *)

InForce(vs) == {v \in DOMAIN vs : vs[v].status = "approved" /\ ~vs[v].superseded}

(* Mutant: no look for an approved version with the same content. *)
NeverTheSame == {}

SameInForce == {v \in InForce(versions) : versions[v].plan = plan}

LastOf(ids) == IF ids = {} THEN 0 ELSE CHOOSE v \in ids : \A w \in ids : w <= v

(* What _approve_once reads. *)
ApprovalOf(revision, attempt) ==
  [op |-> "approve", plan |-> revision, approval |-> approval, active |-> active,
   number |-> Len(versions), same |-> LastOf(SameInForce),
   previous |-> InForce(versions), attempt |-> attempt]

(* expected_revision is the hash of what the user has reviewed; any other  *)
(* than the story's own is refused.                                        *)
ApproveRead(s) ==
  /\ session[s].op = "idle"
  /\ StoryFree(s)
  /\ Read(s, ApprovalOf(plan, 1))
  /\ UNCHANGED <<database, story, versions, proposals, slipped>>

(* A version with this content is in force: the story points at it again.  *)
ApproveAgain(s) ==
  /\ session[s].op = "approve"
  /\ session[s].same # 0
  /\ active' = Flush(session[s].active, session[s].same, active)
  /\ approval' = Flush(session[s].approval, "approved", approval)
  /\ Return(s)
  /\ UNCHANGED <<database, plan, versions, proposals, slipped>>

(* Mutant: the table has no unique (story_id, version_number). *)
AnyNumber(s) == TRUE

NumberIsFree(s) == Len(versions) = session[s].number

Superseding(ids) ==
  [v \in DOMAIN versions |-> IF v \in ids THEN [versions[v] EXCEPT !.superseded = TRUE]
                                          ELSE versions[v]]

ApproveCommit(s) ==
  /\ session[s].op = "approve"
  /\ session[s].same = 0
  /\ Len(versions) < MaxVersions
  /\ NumberIsFree(s)
  /\ versions' = Append(Superseding(session[s].previous),
                        [status |-> "approved", plan |-> session[s].plan,
                         superseded |-> FALSE, source |-> {}])
  /\ active' = Len(versions) + 1
  /\ approval' = Flush(session[s].approval, "approved", approval)
  /\ Return(s)
  /\ UNCHANGED <<database, plan, proposals, slipped>>

(* The number is taken, or SQLite is locked: roll back and, while attempts *)
(* are left, read everything again; a plan that has changed is refused.    *)
ApproveRetry(s) ==
  /\ session[s].op = "approve"
  /\ session[s].attempt < MaxAttempts
  /\ database = "sqlite" \/ ~NumberIsFree(s)
  /\ session[s].plan = plan
  /\ Read(s, ApprovalOf(plan, session[s].attempt + 1))
  /\ UNCHANGED <<database, story, versions, proposals, slipped>>

-----------------------------------------------------------------------------
(* Proposals *)

(* create_proposal, by a planning run or a client, on what it has seen. *)
Propose(p) ==
  /\ proposals[p] = NoProposal
  /\ \E status \in {"pending_review", "validated"}, invalid \in BOOLEAN,
        base \in {0, active}, hash \in {plan, NoPlan} :
       /\ invalid => status = "pending_review"
       /\ proposals' = [proposals EXCEPT ![p] =
            [status |-> status, reviewed |-> FALSE, invalid |-> invalid,
             base |-> base, hash |-> hash]]
  /\ UNCHANGED <<database, story, versions, session, slipped>>

Undecided(p) == proposals[p].status \in {"pending_review", "validated"}

ReviewRead(s, p) ==
  /\ session[s].op = "idle"
  /\ Undecided(p)
  /\ ~proposals[p].invalid
  /\ Read(s, [op |-> "review", proposal |-> p, status |-> proposals[p].status])
  /\ UNCHANGED <<database, story, versions, proposals, slipped>>

(* Mutant: the review sets a status nobody knows. *)
Acknowledged(p, loaded) == "reviewed"

Reviewed(p, loaded) == Flush(loaded, "validated", proposals[p].status)

ReviewCommit(s) ==
  LET p == session[s].proposal IN
  /\ session[s].op = "review"
  /\ ProposalFree(p)
  /\ proposals' = [proposals EXCEPT ![p].reviewed = TRUE,
                                    ![p].status = Reviewed(p, session[s].status)]
  /\ Return(s)
  /\ UNCHANGED <<database, story, versions, slipped>>

RejectRead(s, p) ==
  /\ session[s].op = "idle"
  /\ Undecided(p)
  /\ Read(s, [op |-> "reject", proposal |-> p])
  /\ UNCHANGED <<database, story, versions, proposals, slipped>>

RejectCommit(s) ==
  LET p == session[s].proposal IN
  /\ session[s].op = "reject"
  /\ ProposalFree(p)
  /\ proposals' = [proposals EXCEPT ![p].reviewed = TRUE, ![p].status = "rejected"]
  /\ Return(s)
  /\ UNCHANGED <<database, story, versions, slipped>>

(* The checks of apply_proposal against the base version and the story.    *)
(* asked is the request's expected_base_content_hash, which comes before   *)
(* the one stored with the proposal.                                       *)
Applicable(p, asked) ==
  LET hash == IF asked # NoPlan THEN asked ELSE proposals[p].hash
      base == proposals[p].base
  IN /\ Undecided(p)
     /\ ~proposals[p].invalid
     /\ proposals[p].status = "validated" \/ proposals[p].reviewed
     /\ base # 0 => active = base
     /\ hash # NoPlan => plan = hash /\ (base # 0 => versions[base].plan = hash)

ApplyRead(s, p) ==
  /\ session[s].op = "idle"
  /\ StoryFree(s)
  /\ \E asked \in Plans \cup {NoPlan} : Applicable(p, asked)
  /\ Read(s, [op |-> "apply", proposal |-> p, approval |-> approval])
  /\ UNCHANGED <<database, story, versions, proposals, slipped>>

(* The catalogs have changed: the payload is no longer valid. *)
ApplyInvalid(s) ==
  /\ session[s].op = "apply"
  /\ proposals' = [proposals EXCEPT ![session[s].proposal].invalid = TRUE]
  /\ Return(s)
  /\ UNCHANGED <<database, story, versions, slipped>>

(* The payload is merged into the story, and the result is versioned.  The *)
(* number is read after the first write, when nobody else can commit.      *)
ApplyCommit(s) ==
  LET p == session[s].proposal IN
  /\ session[s].op = "apply"
  /\ Len(versions) < MaxVersions
  /\ plan' \in Plans
  /\ approval' = Reopened(session[s].approval)
  /\ active' = Len(versions) + 1
  /\ versions' = Append(versions, [status |-> "draft", plan |-> plan',
                                   superseded |-> FALSE, source |-> {p}])
  /\ proposals' = [proposals EXCEPT ![p].status = "applied", ![p].reviewed = TRUE]
  /\ Return(s)
  /\ UNCHANGED <<database, slipped>>

-----------------------------------------------------------------------------
Next ==
  \/ \E p \in Proposals : Propose(p)
  \/ \E s \in Sessions, p \in Proposals :
       ReviewRead(s, p) \/ RejectRead(s, p) \/ ApplyRead(s, p)
  \/ \E s \in Sessions :
       \/ EditRead(s) \/ EditCommit(s)
       \/ ProfileLookup(s) \/ ProfileLock(s) \/ UpdateProfile(s) \/ DeleteProfile(s)
       \/ ApproveRead(s) \/ ApproveAgain(s) \/ ApproveCommit(s) \/ ApproveRetry(s)
       \/ ReviewCommit(s) \/ RejectCommit(s)
       \/ ApplyInvalid(s) \/ ApplyCommit(s)
       \/ Abandon(s)

Spec == Init /\ [][Next]_vars

-----------------------------------------------------------------------------
(* Two approved versions are never in force together, on either database:  *)
(* what an approval has read to supersede is complete when it commits,     *)
(* because the row lock or the unique version number says so.              *)
OneInForce == Cardinality(InForce(versions)) <= 1

(* With row locks, an approved story points at the approved version in     *)
(* force, never at a draft or a superseded one, whatever order approvals,  *)
(* applies and edits come in.                                              *)
ApprovedPointsAtApproved ==
  database = "postgresql" /\ approval = "approved" => active \in InForce(versions)

(* With row locks, what an approved story says is what was approved, until *)
(* a profile edit changes a plan that came to contain the profile after it *)
(* had looked for such plans.                                              *)
ApprovedIsWhatItSays ==
  database = "postgresql" /\ approval = "approved" /\ ~slipped =>
    active \in InForce(versions) /\ versions[active].plan = plan

(* With row locks, a proposal made for a base version is applied only      *)
(* while that version is the active one, and one that also carries a hash, *)
(* only while the story still is what the hash was taken of, up to the     *)
(* step that adds the new version.                                         *)
AppliedOnItsBase ==
  [][ database = "postgresql" =>
        \A p \in Proposals :
          LET base == proposals[p].base IN
          Len(versions') > Len(versions) /\ versions'[Len(versions')].source = {p}
            /\ base # 0
          => /\ active = base
             /\ proposals[p].hash # NoPlan /\ ~slipped => plan = versions[base].plan ]_vars

(* The versions are an append-only history, on either database: nothing    *)
(* that was versioned changes, an approval replaces the one in force, and  *)
(* approving it again, even in a race, adds no version.                    *)
Recorded == INSTANCE History WITH
  log <- [v \in DOMAIN versions |->
            [plan |-> versions[v].plan, approved |-> versions[v].status = "approved"]],
  current <- LastOf(InForce(versions))

ImplementsHistory == Recorded!HSpec
=============================================================================
