------------------------- MODULE StoryVersionsProofs -------------------------
(***************************************************************************)
(* The types of StoryVersions, OneInForce and the refinement of History,   *)
(* for every set of sessions, proposals and plans and on both databases;   *)
(* and, on PostgreSQL, what an approved story says and what a proposal is  *)
(* applied to.                                                             *)
(*                                                                         *)
(* The argument: versions only grow.  While the number an approval has     *)
(* read is still the last one, everything else it has read of the versions *)
(* still holds; and it commits only then, so it supersedes every version   *)
(* in force and none of them has its plan.  With row locks, one session at *)
(* most holds the story's row, and what that one has read is current.      *)
(***************************************************************************)
EXTENDS StoryVersions, FiniteSetTheorems, SequenceTheorems, TLAPS

AtMostOneInForce == \A v, w \in InForce(versions) : v = w

Same(vs, what) == {v \in InForce(vs) : vs[v].plan = what}

(* What an approval has read, as long as its number is the last one. *)
ReadsHold ==
  \A s \in Sessions : session[s].op = "approve" =>
    /\ session[s].number <= Len(versions)
    /\ session[s].same <= session[s].number
    /\ session[s].number = Len(versions) =>
         /\ session[s].previous = InForce(versions)
         /\ session[s].same = LastOf(Same(versions, session[s].plan))


-----------------------------------------------------------------------------
(* Helpers *)

(* LastOf picks the element of a set that has at most one. *)
LEMMA LastOfOne ==
  ASSUME NEW S, S \subseteq Nat, \A v, w \in S : v = w
  PROVE  /\ S = {} => LastOf(S) = 0
         /\ \A v \in S : LastOf(S) = v
<1>1. S = {} => LastOf(S) = 0  BY DEF LastOf
<1>2. ASSUME NEW v \in S  PROVE LastOf(S) = v
  <2>1. \A w \in S : w <= v  BY <1>2
  <2> QED  BY <1>2, <2>1 DEF LastOf
<1> QED  BY <1>1, <1>2

LEMMA InForceBounds ==
  ASSUME TypeOK
  PROVE  /\ Len(versions) \in Nat /\ DOMAIN versions = 1..Len(versions)
         /\ InForce(versions) \subseteq 1..Len(versions)
         /\ \A v \in 1..Len(versions) : versions[v] \in Version
BY DEF TypeOK, InForce

LEMMA LastInForce ==
  ASSUME TypeOK, AtMostOneInForce, NEW what
  PROVE  /\ LastOf(Same(versions, what)) \in 0..Len(versions)
         /\ LastOf(InForce(versions)) \in 0..Len(versions)
         /\ LastOf(Same(versions, what)) = 0 => Same(versions, what) = {}
<1>1. /\ Len(versions) \in Nat
      /\ InForce(versions) \subseteq 1..Len(versions)
  BY InForceBounds
<1>2. Same(versions, what) \subseteq InForce(versions)  BY DEF Same
<1>3. /\ Same(versions, what) \subseteq Nat /\ InForce(versions) \subseteq Nat
      /\ \A v, w \in Same(versions, what) : v = w
      /\ \A v, w \in InForce(versions) : v = w
  BY <1>1, <1>2 DEF AtMostOneInForce
<1>4. /\ Same(versions, what) = {} => LastOf(Same(versions, what)) = 0
      /\ \A v \in Same(versions, what) : LastOf(Same(versions, what)) = v
  BY <1>3, LastOfOne
<1>5. /\ InForce(versions) = {} => LastOf(InForce(versions)) = 0
      /\ \A v \in InForce(versions) : LastOf(InForce(versions)) = v
  BY <1>3, LastOfOne
<1> QED  BY <1>1, <1>2, <1>4, <1>5

(* A session gets what it reads, and the others keep theirs. *)
LEMMA ReadTypes ==
  ASSUME TypeOK, NEW s \in Sessions, NEW what \in Calls, Read(s, what)
  PROVE  /\ session' \in [Sessions -> Calls]
         /\ session'[s] = what
         /\ \A t \in Sessions \ {s} : session'[t] = session[t]
BY DEF TypeOK, Read

LEMMA ReturnTypes ==
  ASSUME TypeOK, NEW s \in Sessions, Return(s)
  PROVE  /\ session' \in [Sessions -> Calls]
         /\ session'[s].op = "idle"
         /\ \A t \in Sessions \ {s} : session'[t] = session[t]
<1>1. Idle \in Calls /\ Idle.op = "idle"  BY DEF Calls, Idle
<1> QED  BY <1>1, ReadTypes DEF Return

(* The kind of a call tells which columns it has read. *)
LEMMA CallTypes ==
  ASSUME NEW call \in Calls
  PROVE  /\ call.op = "edit" => call \in Edit
         /\ call.op = "lookup" => call \in Lookup
         /\ call.op = "review" => call \in Review
         /\ call.op = "reject" => call \in Reject
         /\ call.op = "apply" => call \in Apply
         /\ call.op = "approve" => call \in Approval
BY DEF Calls, Idle, Edit, Lookup, Review, Reject, Apply, Approval

(* What _approve_once reads is a call. *)
LEMMA ApprovalTypes ==
  ASSUME TypeOK, AtMostOneInForce, NEW n \in 1..MaxAttempts
  PROVE  /\ ApprovalOf(plan, n) \in Calls
         /\ LET read == ApprovalOf(plan, n) IN
            /\ read.op = "approve"
            /\ read.number = Len(versions) /\ read.same <= read.number
            /\ read.previous = InForce(versions)
            /\ read.same = LastOf(Same(versions, read.plan))
<1>1. SameInForce = Same(versions, plan)  BY DEF SameInForce, Same
<1>2. /\ LastOf(SameInForce) \in 0..Len(versions) /\ Len(versions) \in Nat
      /\ InForce(versions) \subseteq 1..Len(versions)
  BY <1>1, LastInForce, InForceBounds
<1>3. /\ LastOf(SameInForce) \in Ids /\ Len(versions) \in Ids /\ active \in Ids
      /\ InForce(versions) \in SUBSET Ids
  BY <1>2, MaxVersionsAssumption DEF TypeOK, Ids
<1>4. ApprovalOf(plan, n) \in Approval
  BY <1>3 DEF ApprovalOf, Approval, TypeOK
<1>5. ApprovalOf(plan, n) \in Calls  BY <1>4 DEF Calls
<1> QED  BY <1>1, <1>2, <1>5 DEF ApprovalOf

LEMMA FlushTypes ==
  ASSUME NEW T, NEW loaded, NEW value \in T, NEW now \in T
  PROVE  Flush(loaded, value, now) \in T
BY DEF Flush

-----------------------------------------------------------------------------
(* Edits *)

(* Every edit of the story is one in the sense of Edited; ... *)
LEMMA EditIsEdited ==
  ASSUME NEW s \in Sessions, EditCommit(s)
  PROVE  Edited(s, Plans)
<1>1. /\ WithMore \subseteq Plans /\ WithLess \subseteq Plans
      /\ LinkedAlike \subseteq Plans /\ LinkedAlike \ {plan} \subseteq Plans
  BY LinkedAssumption DEF WithMore, WithLess, LinkedAlike
<1>2. ASSUME NEW after, after \subseteq Plans, Edited(s, after)  PROVE Edited(s, Plans)
  BY <1>2 DEF Edited
<1> QED
  BY <1>1, <1>2
  DEF EditCommit, UpdateStory, CreatePromptPackage, UpdatePromptPackage,
      CreateTaskAssignment, UpdateTaskAssignment, DeleteTaskAssignment,
      CreateRecommendation, UpdateRecommendation, DeleteRecommendation

(* ... and so is a change of a shared profile in the sense of its commit. *)
LEMMA ProfileIsCommitted ==
  ASSUME NEW s \in Sessions, UpdateProfile(s) \/ DeleteProfile(s)
  PROVE  ProfileCommit(s, Plans)
BY LinkedAssumption DEF UpdateProfile, DeleteProfile, ProfileCommit

-----------------------------------------------------------------------------
(* Types *)

(* A step that changes only what a session has read. *)
LEMMA OnlyReadTypes ==
  ASSUME TypeOK, NEW s \in Sessions, NEW what \in Calls, Read(s, what),
         UNCHANGED <<database, story, versions, proposals, slipped>>
  PROVE  TypeOK'
<1>1. session' \in [Sessions -> Calls]  BY ReadTypes
<1> QED  BY <1>1 DEF TypeOK, story

LEMMA EditTypes ==
  ASSUME TypeOK, NEW s \in Sessions,
         \/ EditRead(s) \/ EditCommit(s) \/ ProfileLookup(s) \/ ProfileLock(s)
         \/ UpdateProfile(s) \/ DeleteProfile(s)
  PROVE  TypeOK'
<1>1. CASE EditRead(s) \/ ProfileLock(s)
  <2>1. [op |-> "edit", approval |-> approval] \in Calls  BY DEF TypeOK, Calls, Edit
  <2> QED  BY <1>1, <2>1, OnlyReadTypes DEF EditRead, ProfileLock
<1>2. CASE ProfileLookup(s)
  <2>1. [op |-> "lookup", affected |-> plan \in Linked] \in Calls
    BY DEF Calls, Lookup
  <2> QED  BY <1>2, <2>1, OnlyReadTypes DEF ProfileLookup
<1>3. CASE EditCommit(s)
  <2>0. Edited(s, Plans)  BY <1>3, EditIsEdited
  <2>1. session' \in [Sessions -> Calls]  BY <2>0, ReturnTypes DEF Edited
  <2>2. approval' \in Approvals
    BY <2>0 DEF Edited, Reopened, Flush, TypeOK, Approvals
  <2> QED  BY <2>0, <2>1, <2>2 DEF Edited, TypeOK
<1>4. CASE UpdateProfile(s) \/ DeleteProfile(s)
  <2>0. ProfileCommit(s, Plans)  BY <1>4, ProfileIsCommitted
  <2>1. session' \in [Sessions -> Calls]  BY <2>0, ReturnTypes DEF ProfileCommit
  <2>2. plan' \in Plans  BY <2>0 DEF ProfileCommit, TypeOK
  <2>3. slipped' \in BOOLEAN  BY <2>0 DEF ProfileCommit, TypeOK
  <2> QED  BY <2>0, <2>1, <2>2, <2>3 DEF ProfileCommit, TypeOK
<1> QED  BY <1>1, <1>2, <1>3, <1>4

(* An approval supersedes versions and adds one. *)
LEMMA SupersedingTypes ==
  ASSUME TypeOK, NEW ids
  PROVE  /\ Superseding(ids) \in Seq(Version)
         /\ Len(Superseding(ids)) = Len(versions)
         /\ \A v \in 1..Len(versions) :
              /\ Superseding(ids)[v].status = versions[v].status
              /\ Superseding(ids)[v].plan = versions[v].plan
              /\ Superseding(ids)[v].superseded = (v \in ids \/ versions[v].superseded)
<1>1. /\ Len(versions) \in Nat /\ DOMAIN versions = 1..Len(versions)
      /\ \A v \in 1..Len(versions) : versions[v] \in Version
  BY InForceBounds
<1>2. \A v \in 1..Len(versions) :
        /\ Superseding(ids)[v] \in Version
        /\ Superseding(ids)[v].status = versions[v].status
        /\ Superseding(ids)[v].plan = versions[v].plan
        /\ Superseding(ids)[v].superseded = (v \in ids \/ versions[v].superseded)
  <2> SUFFICES ASSUME NEW v \in 1..Len(versions)
               PROVE  /\ Superseding(ids)[v] \in Version
                      /\ Superseding(ids)[v].status = versions[v].status
                      /\ Superseding(ids)[v].plan = versions[v].plan
                      /\ Superseding(ids)[v].superseded = (v \in ids \/ versions[v].superseded)
    OBVIOUS
  <2>1. Superseding(ids)[v] = IF v \in ids THEN [versions[v] EXCEPT !.superseded = TRUE]
                                            ELSE versions[v]
    BY <1>1 DEF Superseding
  <2>2. versions[v] \in Version  BY <1>1
  <2>3. CASE v \in ids  BY <2>1, <2>2, <2>3 DEF Version
  <2>4. CASE v \notin ids  BY <2>1, <2>2, <2>4 DEF Version
  <2> QED  BY <2>3, <2>4
<1>3. DOMAIN Superseding(ids) = 1..Len(versions)  BY <1>1 DEF Superseding
<1>4. Superseding(ids) \in [1..Len(versions) -> Version]
  BY <1>2, <1>3, <1>1 DEF Superseding
<1> QED  BY <1>1, <1>2, <1>4

LEMMA ApproveTypes ==
  ASSUME TypeOK, AtMostOneInForce, ReadsHold, NEW s \in Sessions,
         ApproveRead(s) \/ ApproveAgain(s) \/ ApproveCommit(s) \/ ApproveRetry(s)
  PROVE  TypeOK'
<1>0. session[s] \in Calls /\ (session[s].op = "approve" => session[s] \in Approval)
  BY CallTypes DEF TypeOK
<1>1. CASE ApproveRead(s)
  <2>1. 1 \in 1..MaxAttempts  BY MaxAttemptsAssumption
  <2>2. ApprovalOf(plan, 1) \in Calls  BY <2>1, ApprovalTypes
  <2> QED  BY <1>1, <2>2, OnlyReadTypes DEF ApproveRead
<1>2. CASE ApproveRetry(s)
  <2>1. session[s].attempt + 1 \in 1..MaxAttempts
    BY <1>0, <1>2, MaxAttemptsAssumption DEF ApproveRetry, Approval
  <2>2. ApprovalOf(plan, session[s].attempt + 1) \in Calls  BY <2>1, ApprovalTypes
  <2> QED  BY <1>2, <2>2, OnlyReadTypes DEF ApproveRetry
<1>3. CASE ApproveAgain(s)
  <2>1. session' \in [Sessions -> Calls]  BY <1>3, ReturnTypes DEF ApproveAgain
  <2>2. session[s].same \in 0..Len(versions)
    BY <1>0, <1>3, InForceBounds DEF ApproveAgain, Approval, ReadsHold, Ids
  <2>3. active' \in 0..Len(versions) /\ approval' \in Approvals
    BY <1>3, <2>2 DEF ApproveAgain, Flush, TypeOK, Approvals
  <2> QED  BY <1>3, <2>1, <2>3 DEF ApproveAgain, TypeOK
<1>4. CASE ApproveCommit(s)
  <2>1. session' \in [Sessions -> Calls]  BY <1>4, ReturnTypes DEF ApproveCommit
  <2>2. [status |-> "approved", plan |-> session[s].plan, superseded |-> FALSE,
         source |-> {}] \in Version
    BY <1>0, <1>4 DEF ApproveCommit, Approval, Version, Approvals
  <2>3. /\ Superseding(session[s].previous) \in Seq(Version)
        /\ Len(Superseding(session[s].previous)) = Len(versions)
    BY SupersedingTypes
  <2>4. versions' \in Seq(Version) /\ Len(versions') = Len(versions) + 1
    BY <1>4, <2>2, <2>3 DEF ApproveCommit
  <2>5. active' \in 0..Len(versions') /\ Len(versions') <= MaxVersions
    BY <1>4, <2>4, InForceBounds, MaxVersionsAssumption DEF ApproveCommit
  <2>6. approval' \in Approvals
    BY <1>4 DEF ApproveCommit, Flush, TypeOK, Approvals
  <2> QED  BY <1>4, <2>1, <2>4, <2>5, <2>6 DEF ApproveCommit, TypeOK
<1> QED  BY <1>1, <1>2, <1>3, <1>4

LEMMA ProposeTypes ==
  ASSUME TypeOK, NEW p \in Proposals, Propose(p)
  PROVE  TypeOK'
<1>1. active \in Ids /\ plan \in Plans /\ DOMAIN proposals = Proposals
    BY MaxVersionsAssumption, InForceBounds DEF TypeOK, Ids
<1>2. PICK status \in {"pending_review", "validated"}, invalid \in BOOLEAN,
             base \in {0, active}, hash \in {plan, NoPlan} :
          proposals' = [proposals EXCEPT ![p] =
            [status |-> status, reviewed |-> FALSE, invalid |-> invalid,
             base |-> base, hash |-> hash]]
    BY DEF Propose
<1>3. [status |-> status, reviewed |-> FALSE, invalid |-> invalid,
         base |-> base, hash |-> hash] \in Proposal
    BY <1>1, MaxVersionsAssumption DEF Proposal, Statuses, Ids
<1>4. proposals' \in [Proposals -> Proposal \cup {NoProposal}]
    BY <1>2, <1>3 DEF TypeOK
<1> QED  BY <1>4 DEF Propose, TypeOK, story

LEMMA CallProposalTypes ==
  ASSUME TypeOK, NEW p \in Proposals, NEW s \in Sessions,
         ReviewRead(s, p) \/ RejectRead(s, p) \/ ApplyRead(s, p)
  PROVE  TypeOK'
<1>1. CASE ReviewRead(s, p)
  <2>1. [op |-> "review", proposal |-> p, status |-> proposals[p].status] \in Calls
    BY <1>1 DEF ReviewRead, Undecided, Calls, Review, Statuses
  <2> QED  BY <1>1, <2>1, OnlyReadTypes DEF ReviewRead
<1>2. CASE RejectRead(s, p)
  <2>1. [op |-> "reject", proposal |-> p] \in Calls  BY DEF Calls, Reject
  <2> QED  BY <1>2, <2>1, OnlyReadTypes DEF RejectRead
<1>3. CASE ApplyRead(s, p)
  <2>1. [op |-> "apply", proposal |-> p, approval |-> approval] \in Calls
    BY DEF TypeOK, Calls, Apply
  <2> QED  BY <1>3, <2>1, OnlyReadTypes DEF ApplyRead
<1> QED  BY <1>1, <1>2, <1>3

(* The columns of a proposal a decision writes keep their types.  A call   *)
(* on a proposal that was never created cannot be, so an absent row stays  *)
(* what it is only in the states the program reaches.                      *)
ProposalsExist ==
  \A s \in Sessions : session[s].op \in {"review", "reject", "apply"} =>
    session[s].proposal \in Proposals /\ proposals[session[s].proposal] \in Proposal

LEMMA DecisionTypes ==
  ASSUME TypeOK, ProposalsExist, NEW s \in Sessions,
         ReviewCommit(s) \/ RejectCommit(s) \/ ApplyInvalid(s) \/ ApplyCommit(s)
  PROVE  TypeOK'
<1>0. /\ session[s] \in Calls
      /\ session[s].op = "review" => session[s] \in Review
      /\ session[s].op \in {"review", "reject", "apply"}
      /\ session[s].proposal \in Proposals
      /\ proposals[session[s].proposal] \in Proposal
  BY CallTypes DEF TypeOK, ProposalsExist, ReviewCommit, RejectCommit, ApplyInvalid, ApplyCommit
<1>1. session' \in [Sessions -> Calls]
  BY ReturnTypes DEF ReviewCommit, RejectCommit, ApplyInvalid, ApplyCommit
<1>2. CASE ReviewCommit(s)
  <2> DEFINE p == session[s].proposal
  <2>1. Reviewed(p, session[s].status) \in Statuses
    BY <1>0, <1>2 DEF Reviewed, Flush, Statuses, Proposal
  <2>2. [proposals[p] EXCEPT !.reviewed = TRUE,
                             !.status = Reviewed(p, session[s].status)] \in Proposal
    BY <1>0, <2>1 DEF Proposal
  <2>3. proposals' = [proposals EXCEPT ![p] =
          [proposals[p] EXCEPT !.reviewed = TRUE, !.status = Reviewed(p, session[s].status)]]
    BY <1>0, <1>2 DEF ReviewCommit, TypeOK
  <2>4. proposals' \in [Proposals -> Proposal \cup {NoProposal}]
    BY <2>2, <2>3 DEF TypeOK
  <2> QED  BY <1>1, <1>2, <2>4 DEF ReviewCommit, TypeOK, story
<1>3. CASE RejectCommit(s)
  <2> DEFINE p == session[s].proposal
  <2>1. [proposals[p] EXCEPT !.reviewed = TRUE, !.status = "rejected"] \in Proposal
    BY <1>0 DEF Proposal, Statuses
  <2>2. proposals' = [proposals EXCEPT ![p] =
          [proposals[p] EXCEPT !.reviewed = TRUE, !.status = "rejected"]]
    BY <1>0, <1>3 DEF RejectCommit, TypeOK
  <2>3. proposals' \in [Proposals -> Proposal \cup {NoProposal}]
    BY <2>1, <2>2 DEF TypeOK
  <2> QED  BY <1>1, <1>3, <2>3 DEF RejectCommit, TypeOK, story
<1>4. CASE ApplyInvalid(s)
  <2> DEFINE p == session[s].proposal
  <2>1. [proposals[p] EXCEPT !.invalid = TRUE] \in Proposal
    BY <1>0 DEF Proposal
  <2>2. proposals' = [proposals EXCEPT ![p] = [proposals[p] EXCEPT !.invalid = TRUE]]
    BY <1>0, <1>4 DEF ApplyInvalid, TypeOK
  <2>3. proposals' \in [Proposals -> Proposal \cup {NoProposal}]
    BY <2>1, <2>2 DEF TypeOK
  <2> QED  BY <1>1, <1>4, <2>3 DEF ApplyInvalid, TypeOK, story
<1>5. CASE ApplyCommit(s)
  <2> DEFINE p == session[s].proposal
  <2>1. [proposals[p] EXCEPT !.status = "applied", !.reviewed = TRUE] \in Proposal
    BY <1>0 DEF Proposal, Statuses
  <2>2. proposals' = [proposals EXCEPT ![p] =
          [proposals[p] EXCEPT !.status = "applied", !.reviewed = TRUE]]
    BY <1>0, <1>5 DEF ApplyCommit, TypeOK
  <2>3. proposals' \in [Proposals -> Proposal \cup {NoProposal}]
    BY <2>1, <2>2 DEF TypeOK
  <2>4. plan' \in Plans /\ approval' \in Approvals
    BY <1>5 DEF ApplyCommit, Reopened, Flush, TypeOK, Approvals
  <2>5. [status |-> "draft", plan |-> plan', superseded |-> FALSE, source |-> {p}] \in Version
    BY <1>0, <2>4 DEF Version, Approvals
  <2>6. versions' \in Seq(Version) /\ Len(versions') = Len(versions) + 1
    BY <1>5, <2>5 DEF ApplyCommit, TypeOK
  <2>7. active' \in 0..Len(versions') /\ Len(versions') <= MaxVersions
    BY <1>5, <2>6, InForceBounds, MaxVersionsAssumption DEF ApplyCommit
  <2> QED  BY <1>1, <1>5, <2>3, <2>4, <2>6, <2>7 DEF ApplyCommit, TypeOK
<1> QED  BY <1>2, <1>3, <1>4, <1>5

-----------------------------------------------------------------------------
(* The inductive invariant *)

IInv == TypeOK /\ AtMostOneInForce /\ ReadsHold /\ ProposalsExist

LEMMA InitIInv == Init => IInv
<1> SUFFICES ASSUME Init  PROVE IInv
  OBVIOUS
<1>1. TypeOK
  <2>1. Idle \in Calls  BY DEF Calls
  <2>2. session \in [Sessions -> Calls] /\ proposals \in [Proposals -> Proposal \cup {NoProposal}]
    BY <2>1 DEF Init
  <2>3. versions \in Seq(Version) /\ Len(versions) = 0  BY DEF Init
  <2>4. active \in 0..Len(versions) /\ Len(versions) <= MaxVersions
    BY <2>3, MaxVersionsAssumption DEF Init
  <2>5. database \in {"postgresql", "sqlite"} /\ plan \in Plans /\ approval \in Approvals
        /\ slipped \in BOOLEAN
    BY DEF Init, Approvals
  <2> QED  BY <2>2, <2>3, <2>4, <2>5 DEF TypeOK
<1>2. InForce(versions) = {}
  <2>1. Len(versions) = 0  BY DEF Init
  <2> QED  BY <1>1, <2>1, InForceBounds
<1>3. \A s \in Sessions : session[s].op = "idle"  BY DEF Init, Idle
<1> QED  BY <1>1, <1>2, <1>3 DEF IInv, AtMostOneInForce, ReadsHold, ProposalsExist

(* A step that leaves the versions alone keeps what the sessions other     *)
(* than the acting one have read.                                          *)
LEMMA ReadsHoldOfActor ==
  ASSUME ReadsHold, Len(versions) \in Nat, NEW s \in Sessions, UNCHANGED versions,
         \A t \in Sessions \ {s} : session'[t] = session[t],
         session'[s].op = "approve" =>
           /\ session'[s].number = Len(versions)
           /\ session'[s].same <= session'[s].number
           /\ session'[s].previous = InForce(versions)
           /\ session'[s].same = LastOf(Same(versions, session'[s].plan))
  PROVE  ReadsHold'
<1> SUFFICES ASSUME NEW t \in Sessions, session'[t].op = "approve"
             PROVE  /\ session'[t].number <= Len(versions)
                    /\ session'[t].same <= session'[t].number
                    /\ session'[t].number = Len(versions) =>
                         /\ session'[t].previous = InForce(versions)
                         /\ session'[t].same = LastOf(Same(versions, session'[t].plan))
  BY DEF ReadsHold
<1>1. CASE t = s  BY <1>1
<1>2. CASE t # s  BY <1>2 DEF ReadsHold
<1> QED  BY <1>1, <1>2

(* A step that adds a version makes every approval's number a past one. *)
LEMMA ReadsHoldAfterAppend ==
  ASSUME TypeOK, ReadsHold, NEW s \in Sessions, Len(versions') = Len(versions) + 1,
         session'[s].op = "idle",
         \A t \in Sessions \ {s} : session'[t] = session[t]
  PROVE  ReadsHold'
<1> SUFFICES ASSUME NEW t \in Sessions, session'[t].op = "approve"
             PROVE  /\ session'[t].number <= Len(versions')
                    /\ session'[t].same <= session'[t].number
                    /\ session'[t].number # Len(versions')
  BY DEF ReadsHold
<1>1. t # s /\ session'[t] = session[t]  OBVIOUS
<1>2. session[t].number \in Nat /\ Len(versions) \in Nat
  BY <1>1, CallTypes, InForceBounds, MaxVersionsAssumption DEF TypeOK, Approval, Ids
<1>3. session[t].number <= Len(versions) /\ session[t].same <= session[t].number
  BY <1>1 DEF ReadsHold
<1> QED  BY <1>1, <1>2, <1>3

(* The versions in force after an approval, and after an apply. *)
LEMMA InForceAfterApproval ==
  ASSUME TypeOK, ReadsHold, NEW s \in Sessions, ApproveCommit(s)
  PROVE  /\ InForce(versions') = {Len(versions) + 1}
         /\ Len(versions') = Len(versions) + 1
         /\ Same(versions, session[s].plan) = {} \/ LastOf(Same(versions, session[s].plan)) = 0
<1> DEFINE ids == session[s].previous
           new == [status |-> "approved", plan |-> session[s].plan,
                   superseded |-> FALSE, source |-> {}]
<1>1. /\ Len(versions) \in Nat /\ InForce(versions) \subseteq 1..Len(versions)
      /\ DOMAIN versions = 1..Len(versions)
      /\ \A v \in 1..Len(versions) : versions[v] \in Version
  BY InForceBounds
<1>2. /\ ids = InForce(versions)
      /\ session[s].same = LastOf(Same(versions, session[s].plan))
      /\ session[s].same = 0
  BY DEF ApproveCommit, NumberIsFree, ReadsHold
<1>3. /\ Superseding(ids) \in Seq(Version) /\ Len(Superseding(ids)) = Len(versions)
      /\ \A v \in 1..Len(versions) :
           /\ Superseding(ids)[v].status = versions[v].status
           /\ Superseding(ids)[v].superseded = (v \in ids \/ versions[v].superseded)
  BY SupersedingTypes
<1>4. versions' = Append(Superseding(ids), new)  BY DEF ApproveCommit
<1>5. /\ Len(versions') = Len(versions) + 1
      /\ DOMAIN versions' = 1..(Len(versions) + 1)
      /\ versions'[Len(versions) + 1] = new
      /\ \A v \in 1..Len(versions) : versions'[v] = Superseding(ids)[v]
  BY <1>1, <1>3, <1>4
<1>6. Len(versions) + 1 \in InForce(versions')  BY <1>1, <1>5 DEF InForce
<1>7. ASSUME NEW v \in 1..Len(versions)  PROVE v \notin InForce(versions')
  <2>1. CASE v \in ids  BY <1>3, <1>5, <2>1 DEF InForce
  <2>2. CASE v \notin ids
    <3>1. versions[v].status # "approved" \/ versions[v].superseded
      BY <1>1, <1>2, <2>2 DEF InForce, Version
    <3> QED  BY <1>3, <1>5, <3>1 DEF InForce
  <2> QED  BY <2>1, <2>2
<1>8. InForce(versions') \subseteq 1..(Len(versions) + 1)  BY <1>5 DEF InForce
<1>9. InForce(versions') = {Len(versions) + 1}  BY <1>1, <1>6, <1>7, <1>8
<1> QED  BY <1>2, <1>5, <1>9

LEMMA InForceAfterApply ==
  ASSUME TypeOK, NEW s \in Sessions, ApplyCommit(s)
  PROVE  /\ InForce(versions') = InForce(versions)
         /\ Len(versions') = Len(versions) + 1
<1>1. /\ Len(versions) \in Nat /\ DOMAIN versions = 1..Len(versions)
      /\ versions \in Seq(Version)
  BY InForceBounds DEF TypeOK
<1>2. /\ Len(versions') = Len(versions) + 1
      /\ DOMAIN versions' = 1..(Len(versions) + 1)
      /\ versions'[Len(versions) + 1].status = "draft"
      /\ \A v \in 1..Len(versions) : versions'[v] = versions[v]
  BY <1>1 DEF ApplyCommit
<1> QED  BY <1>1, <1>2 DEF InForce

LEMMA StepTypeOK ==
  IInv /\ [Next]_vars => TypeOK'
<1> SUFFICES ASSUME IInv, [Next]_vars  PROVE TypeOK'
  OBVIOUS
<1> USE DEF IInv
<1>1. CASE UNCHANGED vars  BY <1>1 DEF vars, story, TypeOK
<1>2. ASSUME NEW p \in Proposals, Propose(p)  PROVE TypeOK'
  BY <1>2, ProposeTypes
<1>3. ASSUME NEW s \in Sessions, NEW p \in Proposals,
             ReviewRead(s, p) \/ RejectRead(s, p) \/ ApplyRead(s, p)
      PROVE  TypeOK'
  BY <1>3, CallProposalTypes
<1>4. ASSUME NEW s \in Sessions,
             \/ EditRead(s) \/ EditCommit(s) \/ ProfileLookup(s) \/ ProfileLock(s)
             \/ UpdateProfile(s) \/ DeleteProfile(s)
      PROVE  TypeOK'
  BY <1>4, EditTypes
<1>5. ASSUME NEW s \in Sessions,
             ApproveRead(s) \/ ApproveAgain(s) \/ ApproveCommit(s) \/ ApproveRetry(s)
      PROVE  TypeOK'
  BY <1>5, ApproveTypes
<1>6. ASSUME NEW s \in Sessions,
             ReviewCommit(s) \/ RejectCommit(s) \/ ApplyInvalid(s) \/ ApplyCommit(s)
      PROVE  TypeOK'
  BY <1>6, DecisionTypes
<1>7. ASSUME NEW s \in Sessions, Abandon(s)  PROVE TypeOK'
  <2>1. Idle \in Calls  BY DEF Calls
  <2> QED  BY <1>7, <2>1, OnlyReadTypes DEF Abandon, Return
<1> QED  BY <1>1, <1>2, <1>3, <1>4, <1>5, <1>6, <1>7 DEF Next

(* Versions are added by ApproveCommit and by ApplyCommit only. *)
LEMMA StepVersions ==
  ASSUME IInv, [Next]_vars
  PROVE  \/ UNCHANGED versions
         \/ \E s \in Sessions : ApproveCommit(s) \/ ApplyCommit(s)
BY EditIsEdited, ProfileIsCommitted
   DEF Next, vars, Propose, ReviewRead, RejectRead, ApplyRead, EditRead, Edited,
       ProfileLookup, ProfileLock, ProfileCommit, ApproveRead, ApproveAgain,
       ApproveRetry, ReviewCommit, RejectCommit, ApplyInvalid, Abandon

LEMMA StepAtMostOne ==
  IInv /\ [Next]_vars => AtMostOneInForce'
<1> SUFFICES ASSUME IInv, [Next]_vars  PROVE AtMostOneInForce'
  OBVIOUS
<1>1. CASE UNCHANGED versions  BY <1>1 DEF IInv, AtMostOneInForce
<1>2. ASSUME NEW s \in Sessions, ApproveCommit(s)  PROVE AtMostOneInForce'
  BY <1>2, InForceAfterApproval DEF IInv, AtMostOneInForce
<1>3. ASSUME NEW s \in Sessions, ApplyCommit(s)  PROVE AtMostOneInForce'
  BY <1>3, InForceAfterApply DEF IInv, AtMostOneInForce
<1> QED  BY <1>1, <1>2, <1>3, StepVersions

LEMMA StepReadsHold ==
  IInv /\ [Next]_vars => ReadsHold'
<1> SUFFICES ASSUME IInv, [Next]_vars  PROVE ReadsHold'
  OBVIOUS
<1> USE DEF IInv
<1>0. Len(versions) \in Nat  BY InForceBounds
<1>1. CASE UNCHANGED <<versions, session>>  BY <1>1 DEF ReadsHold
<1>2. ASSUME NEW s \in Sessions, UNCHANGED versions, NEW what \in Calls, Read(s, what),
             what.op # "approve"
      PROVE  ReadsHold'
  BY <1>0, <1>2, ReadTypes, ReadsHoldOfActor
<1>3. ASSUME NEW s \in Sessions, UNCHANGED versions, Return(s)  PROVE ReadsHold'
  BY <1>0, <1>3, ReturnTypes, ReadsHoldOfActor
<1>4. ASSUME NEW s \in Sessions, UNCHANGED versions, NEW n \in 1..MaxAttempts,
             Read(s, ApprovalOf(plan, n))
      PROVE  ReadsHold'
  BY <1>0, <1>4, ReadTypes, ApprovalTypes, ReadsHoldOfActor
<1>5. ASSUME NEW s \in Sessions, ApproveCommit(s)  PROVE ReadsHold'
  <2>1. Return(s)  BY <1>5 DEF ApproveCommit
  <2> QED  BY <1>5, <2>1, InForceAfterApproval, ReturnTypes, ReadsHoldAfterAppend
<1>6. ASSUME NEW s \in Sessions, ApplyCommit(s)  PROVE ReadsHold'
  <2>1. Return(s)  BY <1>6 DEF ApplyCommit
  <2> QED  BY <1>6, <2>1, InForceAfterApply, ReturnTypes, ReadsHoldAfterAppend
<1>7. ASSUME NEW p \in Proposals, Propose(p)  PROVE ReadsHold'
  BY <1>1, <1>7 DEF Propose
<1>8. ASSUME NEW s \in Sessions, NEW p \in Proposals,
             ReviewRead(s, p) \/ RejectRead(s, p) \/ ApplyRead(s, p)
      PROVE  ReadsHold'
  <2>1. CASE ReviewRead(s, p)
    <3>1. [op |-> "review", proposal |-> p, status |-> proposals[p].status] \in Calls
      BY <2>1 DEF ReviewRead, Undecided, Calls, Review, Statuses
    <3> QED  BY <1>2, <2>1, <3>1 DEF ReviewRead
  <2>2. CASE RejectRead(s, p)
    <3>1. [op |-> "reject", proposal |-> p] \in Calls  BY DEF Calls, Reject
    <3> QED  BY <1>2, <2>2, <3>1 DEF RejectRead
  <2>3. CASE ApplyRead(s, p)
    <3>1. [op |-> "apply", proposal |-> p, approval |-> approval] \in Calls
      BY DEF TypeOK, Calls, Apply
    <3> QED  BY <1>2, <2>3, <3>1 DEF ApplyRead
  <2> QED  BY <1>8, <2>1, <2>2, <2>3
<1>9. ASSUME NEW s \in Sessions, EditRead(s) \/ ProfileLock(s)  PROVE ReadsHold'
  <2>1. [op |-> "edit", approval |-> approval] \in Calls  BY DEF TypeOK, Calls, Edit
  <2> QED  BY <1>2, <1>9, <2>1 DEF EditRead, ProfileLock
<1>10. ASSUME NEW s \in Sessions, ProfileLookup(s)  PROVE ReadsHold'
  <2>1. [op |-> "lookup", affected |-> plan \in Linked] \in Calls  BY DEF Calls, Lookup
  <2> QED  BY <1>2, <1>10, <2>1 DEF ProfileLookup
<1>11. ASSUME NEW s \in Sessions, ApproveRead(s)  PROVE ReadsHold'
  <2>1. 1 \in 1..MaxAttempts  BY MaxAttemptsAssumption
  <2> QED  BY <1>4, <1>11, <2>1 DEF ApproveRead
<1>12. ASSUME NEW s \in Sessions, ApproveRetry(s)  PROVE ReadsHold'
  <2>1. session[s] \in Approval  BY <1>12, CallTypes DEF ApproveRetry, TypeOK
  <2>2. session[s].attempt + 1 \in 1..MaxAttempts
    BY <1>12, <2>1, MaxAttemptsAssumption DEF ApproveRetry, Approval
  <2> QED  BY <1>4, <1>12, <2>2 DEF ApproveRetry
<1>13. ASSUME NEW s \in Sessions,
              \/ EditCommit(s) \/ UpdateProfile(s) \/ DeleteProfile(s)
              \/ ApproveAgain(s) \/ Abandon(s)
              \/ ReviewCommit(s) \/ RejectCommit(s) \/ ApplyInvalid(s)
       PROVE  ReadsHold'
  BY <1>3, <1>13, EditIsEdited, ProfileIsCommitted
  DEF Edited, ProfileCommit, ApproveAgain, Abandon, ReviewCommit,
                     RejectCommit, ApplyInvalid
<1>14. CASE UNCHANGED vars  BY <1>1, <1>14 DEF vars
<1> QED  BY <1>5, <1>6, <1>7, <1>8, <1>9, <1>10, <1>11, <1>12, <1>13, <1>14 DEF Next

(* A proposal that was created stays created. *)
LEMMA StepProposals ==
  ASSUME IInv, [Next]_vars, NEW p \in Proposals, proposals[p] \in Proposal
  PROVE  proposals'[p] \in Proposal
<1> USE DEF IInv
<1>0. proposals'[p] \in Proposal \cup {NoProposal}
  BY StepTypeOK DEF TypeOK
<1>1. CASE UNCHANGED proposals  BY <1>1
<1>2. proposals[p].status \in Statuses /\ NoProposal.status \notin Statuses
  BY DEF Proposal, NoProposal, Statuses
<1>3. ASSUME NEW q \in Proposals, Propose(q)  PROVE proposals'[p] \in Proposal
  BY <1>2, <1>3 DEF Propose, TypeOK
<1>4. ASSUME NEW s \in Sessions,
             ReviewCommit(s) \/ RejectCommit(s) \/ ApplyInvalid(s) \/ ApplyCommit(s)
      PROVE  proposals'[p] \in Proposal
  <2> DEFINE q == session[s].proposal
  <2>1. CASE p # q
    <3>1. proposals'[p] = proposals[p]
      BY <1>4, <2>1 DEF ReviewCommit, RejectCommit, ApplyInvalid, ApplyCommit, TypeOK
    <3> QED  BY <3>1
  <2>2. CASE p = q
    <3>1. proposals'[p].status \in {proposals[p].status, "validated", "rejected", "applied"}
      <4>1. CASE ReviewCommit(s)
        BY <2>2, <4>1 DEF ReviewCommit, Reviewed, Flush, TypeOK, Proposal
      <4>2. CASE RejectCommit(s)  BY <2>2, <4>2 DEF RejectCommit, TypeOK, Proposal
      <4>3. CASE ApplyInvalid(s)  BY <2>2, <4>3 DEF ApplyInvalid, TypeOK, Proposal
      <4>4. CASE ApplyCommit(s)  BY <2>2, <4>4 DEF ApplyCommit, TypeOK, Proposal
      <4> QED  BY <1>4, <4>1, <4>2, <4>3, <4>4
    <3>2. proposals'[p] # NoProposal  BY <1>2, <3>1 DEF Statuses
    <3> QED  BY <1>0, <3>2
  <2> QED  BY <2>1, <2>2
<1> QED
  BY <1>1, <1>3, <1>4, EditIsEdited, ProfileIsCommitted
  DEF Next, vars, ReviewRead, RejectRead, ApplyRead, EditRead, Edited, ProfileLookup,
      ProfileLock, ProfileCommit, ApproveRead, ApproveAgain, ApproveCommit, ApproveRetry,
      Abandon

(* A call that begins to decide about a proposal has found it. *)
LEMMA StepProposalsExist ==
  IInv /\ [Next]_vars => ProposalsExist'
<1> SUFFICES ASSUME IInv, [Next]_vars, NEW t \in Sessions,
                    session'[t].op \in {"review", "reject", "apply"}
             PROVE  /\ session'[t].proposal \in Proposals
                    /\ proposals'[session'[t].proposal] \in Proposal
  BY DEF ProposalsExist
<1> USE DEF IInv
<1>1. CASE session'[t] = session[t]
  <2>1. /\ session[t].proposal \in Proposals
        /\ proposals[session[t].proposal] \in Proposal
    BY <1>1 DEF ProposalsExist
  <2> QED  BY <1>1, <2>1, StepProposals
<1>2. ASSUME NEW p \in Proposals, ReviewRead(t, p) \/ RejectRead(t, p) \/ ApplyRead(t, p)
      PROVE  session'[t].proposal = p /\ proposals'[p] \in Proposal
  <2>1. Undecided(p)
    BY <1>2 DEF ReviewRead, RejectRead, ApplyRead, Applicable
  <2>2. proposals[p] \in Proposal
    BY <2>1 DEF Undecided, TypeOK, NoProposal
  <2>3. session'[t].proposal = p /\ proposals' = proposals
    BY <1>2 DEF ReviewRead, RejectRead, ApplyRead, Read, TypeOK
  <2> QED  BY <2>2, <2>3
<1>3. ASSUME NEW s \in Sessions, NEW p \in Proposals, s # t,
             ReviewRead(s, p) \/ RejectRead(s, p) \/ ApplyRead(s, p)
      PROVE  session'[t] = session[t]
  BY <1>3 DEF ReviewRead, RejectRead, ApplyRead, Read, TypeOK
<1>4. ASSUME NEW s \in Sessions,
             \/ EditRead(s) \/ EditCommit(s)
             \/ ProfileLookup(s) \/ ProfileLock(s) \/ UpdateProfile(s) \/ DeleteProfile(s)
             \/ ApproveRead(s) \/ ApproveAgain(s) \/ ApproveCommit(s) \/ ApproveRetry(s)
             \/ ReviewCommit(s) \/ RejectCommit(s)
             \/ ApplyInvalid(s) \/ ApplyCommit(s)
             \/ Abandon(s)
      PROVE  s # t /\ session'[t] = session[t]
  <2>1. ASSUME NEW what, Read(s, what), what.op \notin {"review", "reject", "apply"}
        PROVE  s # t /\ session'[t] = session[t]
    BY <2>1 DEF Read, TypeOK
  <2>2. CASE Return(s)
    BY <2>1, <2>2 DEF Return, Idle
  <2>3. CASE EditRead(s) \/ ProfileLock(s)
    BY <2>1, <2>3 DEF EditRead, ProfileLock
  <2>4. CASE ProfileLookup(s)  BY <2>1, <2>4 DEF ProfileLookup
  <2>5. CASE ApproveRead(s) \/ ApproveRetry(s)
    BY <2>1, <2>5 DEF ApproveRead, ApproveRetry, ApprovalOf
  <2> QED
    BY <1>4, <2>2, <2>3, <2>4, <2>5, EditIsEdited, ProfileIsCommitted
    DEF Edited, ProfileCommit, ApproveAgain, ApproveCommit, ReviewCommit, RejectCommit,
        ApplyInvalid, ApplyCommit, Abandon
<1>5. ASSUME NEW p \in Proposals, Propose(p)  PROVE session'[t] = session[t]
  BY <1>5 DEF Propose
<1>6. CASE UNCHANGED vars  BY <1>1, <1>6 DEF vars
<1> QED  BY <1>1, <1>2, <1>3, <1>4, <1>5, <1>6 DEF Next

-----------------------------------------------------------------------------
(* Theorems *)

LEMMA Invariance == Spec => []IInv
<1>1. IInv /\ [Next]_vars => IInv'
  BY StepTypeOK, StepAtMostOne, StepReadsHold, StepProposalsExist DEF IInv
<1> QED  BY <1>1, InitIInv, PTL DEF Spec

(* Every variable keeps its type: in particular the active version is      *)
(* always one that exists, whatever an approval on stale reads writes.     *)
THEOREM TypeCorrectness == Spec => []TypeOK
<1>1. IInv => TypeOK  BY DEF IInv
<1> QED  BY <1>1, Invariance, PTL

(* Two approved versions are never in force together, with and without     *)
(* row locks.                                                              *)
THEOREM ExclusiveApproval == Spec => []OneInForce
<1>1. IInv => OneInForce
  <2> SUFFICES ASSUME IInv  PROVE Cardinality(InForce(versions)) <= 1
    BY DEF OneInForce
  <2>1. CASE InForce(versions) = {}  BY <2>1, FS_EmptySet
  <2>2. CASE InForce(versions) # {}
    <3>1. PICK v : InForce(versions) = {v}
      BY <2>2 DEF IInv, AtMostOneInForce
    <3>2. Cardinality({v}) = 1  BY FS_Singleton
    <3> QED  BY <3>1, <3>2
  <2> QED  BY <2>1, <2>2
<1> QED  BY <1>1, Invariance, PTL

-----------------------------------------------------------------------------
(* Refinement of History *)

LogOf(vs) == [v \in DOMAIN vs |->
                [plan |-> vs[v].plan, approved |-> vs[v].status = "approved"]]

(* A longer table whose old rows keep plan and status is a longer log. *)
LEMMA LogAppend ==
  ASSUME NEW vs \in Seq(Version), NEW ws \in Seq(Version), Len(ws) = Len(vs) + 1,
         \A v \in 1..Len(vs) : ws[v].plan = vs[v].plan /\ ws[v].status = vs[v].status
  PROVE  /\ Len(LogOf(vs)) = Len(vs)
         /\ LogOf(ws) = Append(LogOf(vs), [plan |-> ws[Len(ws)].plan,
                                           approved |-> ws[Len(ws)].status = "approved"])
<1> DEFINE entry == [plan |-> ws[Len(ws)].plan,
                     approved |-> ws[Len(ws)].status = "approved"]
           Entry == [plan : Plans, approved : BOOLEAN]
<1>1. /\ Len(vs) \in Nat /\ DOMAIN vs = 1..Len(vs) /\ DOMAIN ws = 1..(Len(vs) + 1)
      /\ \A v \in 1..Len(vs) : vs[v] \in Version
      /\ \A v \in 1..(Len(vs) + 1) : ws[v] \in Version
  OBVIOUS
<1>2. /\ LogOf(vs) \in Seq(Entry) /\ Len(LogOf(vs)) = Len(vs) /\ entry \in Entry
      /\ LogOf(ws) \in Seq(Entry) /\ Len(LogOf(ws)) = Len(vs) + 1
  <2>1. /\ \A v \in 1..Len(vs) :
             [plan |-> vs[v].plan, approved |-> vs[v].status = "approved"] \in Entry
        /\ \A v \in 1..(Len(vs) + 1) :
             [plan |-> ws[v].plan, approved |-> ws[v].status = "approved"] \in Entry
    BY <1>1 DEF Version
  <2>2. /\ LogOf(vs) \in [1..Len(vs) -> Entry]
        /\ LogOf(ws) \in [1..(Len(vs) + 1) -> Entry]
    BY <1>1, <2>1 DEF LogOf
  <2>3. entry \in Entry  BY <1>1 DEF Version
  <2> HIDE DEF Entry
  <2>4. LogOf(vs) \in Seq(Entry) /\ LogOf(ws) \in Seq(Entry)
    <3>1. \A n \in Nat : [1..n -> Entry] \subseteq Seq(Entry)
      <4>1. Seq(Entry) = UNION {[1..n -> Entry] : n \in Nat}  BY SeqDef, Zenon
      <4> QED  BY <4>1, Zenon
    <3>2. Len(vs) \in Nat /\ Len(vs) + 1 \in Nat  BY <1>1
    <3> QED  BY <2>2, <3>1, <3>2, Zenon
  <2>5. Len(LogOf(vs)) = Len(vs) /\ Len(LogOf(ws)) = Len(vs) + 1
    <3>1. /\ DOMAIN LogOf(vs) = 1..Len(LogOf(vs)) /\ Len(LogOf(vs)) \in Nat
          /\ DOMAIN LogOf(ws) = 1..Len(LogOf(ws)) /\ Len(LogOf(ws)) \in Nat
      BY <2>4, LenProperties
    <3>2. DOMAIN LogOf(vs) = 1..Len(vs) /\ DOMAIN LogOf(ws) = 1..(Len(vs) + 1)
      BY <2>2
    <3>3. \A m, n \in Nat : 1..m = 1..n => m = n
      <4> SUFFICES ASSUME NEW m \in Nat, NEW n \in Nat, 1..m = 1..n  PROVE m = n
        OBVIOUS
      <4>1. \A k \in 1..m : k <= n  OBVIOUS
      <4>2. \A k \in 1..n : k <= m  OBVIOUS
      <4>3. m <= n
        <5>1. m # 0 => m \in 1..m  OBVIOUS
        <5> QED  BY <4>1, <5>1
      <4>4. n <= m
        <5>1. n # 0 => n \in 1..n  OBVIOUS
        <5> QED  BY <4>2, <5>1
      <4> QED  BY <4>3, <4>4
    <3>4. 1..Len(LogOf(vs)) = 1..Len(vs) /\ 1..Len(LogOf(ws)) = 1..(Len(vs) + 1)
      BY <3>1, <3>2, Zenon
    <3>5. Len(vs) \in Nat /\ Len(vs) + 1 \in Nat  BY <1>1
    <3> QED  BY <3>1, <3>3, <3>4, <3>5, Zenon
  <2> QED  BY <2>3, <2>4, <2>5
<1> HIDE DEF Entry, entry
<1>3. /\ Append(LogOf(vs), entry) \in Seq(Entry)
      /\ Len(Append(LogOf(vs), entry)) = Len(vs) + 1
      /\ DOMAIN Append(LogOf(vs), entry) = 1..(Len(vs) + 1)
      /\ Append(LogOf(vs), entry)[Len(vs) + 1] = entry
      /\ \A v \in 1..Len(vs) : Append(LogOf(vs), entry)[v] = LogOf(vs)[v]
  BY <1>1, <1>2
<1>4. ASSUME NEW v \in 1..Len(vs)  PROVE LogOf(ws)[v] = LogOf(vs)[v]
  BY <1>1 DEF LogOf
<1>5. LogOf(ws)[Len(vs) + 1] = entry  BY <1>1 DEF LogOf, entry
<1>6. ASSUME NEW v \in 1..(Len(vs) + 1)
      PROVE  LogOf(ws)[v] = Append(LogOf(vs), entry)[v]
  <2>1. CASE v = Len(vs) + 1  BY <1>3, <1>5, <2>1
  <2>2. CASE v # Len(vs) + 1
    <3>1. v \in 1..Len(vs)  BY <1>1, <2>2
    <3> QED  BY <1>3, <1>4, <3>1
  <2> QED  BY <2>1, <2>2
<1>7. LogOf(ws) = Append(LogOf(vs), entry)  BY <1>2, <1>3, <1>6, SeqEqual
<1> QED  BY <1>2, <1>7 DEF entry

LEMMA ApprovalRecorded ==
  ASSUME IInv, IInv', NEW s \in Sessions, ApproveCommit(s)
  PROVE  Recorded!HNext
<1> USE DEF IInv
<1> DEFINE what == session[s].plan
<1>1. /\ Len(versions) \in Nat /\ DOMAIN versions = 1..Len(versions)
      /\ versions \in Seq(Version) /\ versions' \in Seq(Version)
      /\ InForce(versions) \subseteq 1..Len(versions)
  BY InForceBounds DEF TypeOK
<1>2. /\ InForce(versions') = {Len(versions) + 1}
      /\ Len(versions') = Len(versions) + 1
  BY InForceAfterApproval
<1>3. Same(versions, what) = {}  BY InForceAfterApproval, LastInForce
<1>4. /\ versions' = Append(Superseding(session[s].previous),
                            [status |-> "approved", plan |-> what,
                             superseded |-> FALSE, source |-> {}])
      /\ Superseding(session[s].previous) \in Seq(Version)
      /\ Len(Superseding(session[s].previous)) = Len(versions)
      /\ \A v \in 1..Len(versions) :
           /\ Superseding(session[s].previous)[v].status = versions[v].status
           /\ Superseding(session[s].previous)[v].plan = versions[v].plan
  BY SupersedingTypes DEF ApproveCommit
<1>5. /\ \A v \in 1..Len(versions) :
           versions'[v].plan = versions[v].plan /\ versions'[v].status = versions[v].status
      /\ versions'[Len(versions')].plan = what
      /\ versions'[Len(versions')].status = "approved"
  BY <1>1, <1>2, <1>4
<1>6. /\ Len(LogOf(versions)) = Len(versions)
      /\ LogOf(versions') = Append(LogOf(versions), [plan |-> what, approved |-> TRUE])
  <2>1. PICK log : log = Append(LogOf(versions), [plan |-> versions'[Len(versions')].plan,
                     approved |-> versions'[Len(versions')].status = "approved"])
    OBVIOUS
  <2>2. Len(LogOf(versions)) = Len(versions) /\ LogOf(versions') = log
    BY <1>1, <1>2, <1>5, <2>1, LogAppend
  <2>3. (versions'[Len(versions')].status = "approved") = TRUE
    BY <1>5
  <2>4. log = Append(LogOf(versions), [plan |-> what, approved |-> TRUE])
    BY <2>1, <2>3, <1>5, Zenon
  <2>5. QED BY <2>2, <2>4
<1>7. LastOf(InForce(versions')) = Len(LogOf(versions)) + 1
  <2>1. /\ InForce(versions') \subseteq Nat
        /\ \A v, w \in InForce(versions') : v = w
    BY <1>1, <1>2
  <2> QED  BY <1>2, <1>6, <2>1, LastOfOne
<1>8. LastOf(InForce(versions)) # 0 =>
        LogOf(versions)[LastOf(InForce(versions))].plan # what
  <2> SUFFICES ASSUME LastOf(InForce(versions)) # 0
               PROVE  LogOf(versions)[LastOf(InForce(versions))].plan # what
    OBVIOUS
  <2>1. PICK v : v \in InForce(versions)
    <3>1. InForce(versions) = {} => LastOf(InForce(versions)) = 0
      BY <1>1, LastOfOne DEF AtMostOneInForce
    <3> QED  BY <3>1
  <2>2. LastOf(InForce(versions)) = v
    <3>1. InForce(versions) \subseteq Nat  BY <1>1
    <3> QED  BY <2>1, <3>1, LastOfOne DEF AtMostOneInForce
  <2>3. versions[v].plan # what  BY <1>3, <2>1 DEF Same
  <2>4. LogOf(versions)[v].plan = versions[v].plan  BY <1>1, <2>1 DEF LogOf
  <2> QED  BY <2>2, <2>3, <2>4
<1>9. what \in Plans
  BY CallTypes DEF ApproveCommit, TypeOK, Approval
<1> QED
  BY <1>6, <1>7, <1>8, <1>9 DEF Recorded!HNext, Recorded!Approve, LogOf

LEMMA ApplyRecorded ==
  ASSUME IInv, IInv', NEW s \in Sessions, ApplyCommit(s)
  PROVE  Recorded!HNext
<1> USE DEF IInv
<1>1. /\ Len(versions) \in Nat /\ versions \in Seq(Version) /\ versions' \in Seq(Version)
  BY InForceBounds DEF TypeOK
<1>2. /\ InForce(versions') = InForce(versions)
      /\ Len(versions') = Len(versions) + 1
  BY InForceAfterApply
<1>3. /\ \A v \in 1..Len(versions) : versions'[v] = versions[v]
      /\ versions'[Len(versions')].plan = plan'
      /\ versions'[Len(versions')].status = "draft"
  BY <1>1 DEF ApplyCommit
<1>4. LogOf(versions') = Append(LogOf(versions), [plan |-> plan', approved |-> FALSE])
  BY <1>1, <1>2, <1>3, LogAppend
<1>5. plan' \in Plans  BY DEF TypeOK
<1> QED  BY <1>2, <1>4, <1>5 DEF Recorded!HNext, Recorded!Draft, LogOf

(* The table of versions implements the append-only history, on either     *)
(* database: an approval that raced another, or read before a proposal     *)
(* was applied, adds its version only if the one in force then is replaced *)
(* and has another plan.                                                   *)
THEOREM HistoryRefinement == Spec => ImplementsHistory
<1>1. Init => Recorded!HInit
  <2> SUFFICES ASSUME Init  PROVE Recorded!HInit
    OBVIOUS
  <2>1. versions = <<>> /\ IInv  BY InitIInv DEF Init
  <2>2. DOMAIN versions = 1..0 /\ InForce(versions) = {}
    BY <2>1, InForceBounds DEF IInv
  <2>3. LogOf(versions) = <<>>  BY <2>2 DEF LogOf
  <2>4. LastOf(InForce(versions)) = 0  BY <2>2 DEF LastOf
  <2> QED  BY <2>3, <2>4 DEF Recorded!HInit, LogOf
<1>2. IInv /\ IInv' /\ [Next]_vars => [Recorded!HNext]_Recorded!hvars
  <2> SUFFICES ASSUME IInv, IInv', [Next]_vars
               PROVE  Recorded!HNext \/ UNCHANGED Recorded!hvars
    OBVIOUS
  <2>1. CASE UNCHANGED versions  BY <2>1 DEF Recorded!hvars
  <2> QED  BY <2>1, StepVersions, ApprovalRecorded, ApplyRecorded
<1> QED  BY <1>1, <1>2, Invariance, PTL DEF Spec, ImplementsHistory, Recorded!HSpec

-----------------------------------------------------------------------------
(* Row locks *)

(* A session that has the row lock of the story, on PostgreSQL. *)
Holds(s) == session[s].op \in {"edit", "apply", "approve"}

(* Proposal p still is for the story as it is. *)
OnItsBase(p) ==
  LET base == proposals[p].base IN
  base # 0 => /\ active = base
              /\ proposals[p].hash # NoPlan /\ ~slipped => plan = versions[base].plan

(* What the holder of the lock has read is what the tables say. *)
ReadIsCurrent(s) ==
  /\ session[s].approval = approval
  /\ session[s].op = "approve" => /\ session[s].active = active
                                  /\ session[s].number = Len(versions)
                                  /\ ~slipped => session[s].plan = plan
  /\ session[s].op = "apply" => OnItsBase(session[s].proposal)

OneHolder == \A s, t \in Sessions : Holds(s) /\ Holds(t) => s = t
HolderIsCurrent == \A s \in Sessions : Holds(s) => ReadIsCurrent(s)

(* An approved story says what the version in force says. *)
ApprovedInForce ==
  approval = "approved" => /\ active \in InForce(versions)
                           /\ ~slipped => versions[active].plan = plan

LockInv == database = "postgresql" => OneHolder /\ HolderIsCurrent /\ ApprovedInForce

(* What a proposal was made for never changes. *)
LEMMA BaseIsKept ==
  ASSUME IInv, [Next]_vars, NEW p \in Proposals, proposals[p] \in Proposal
  PROVE  proposals'[p].base = proposals[p].base /\ proposals'[p].hash = proposals[p].hash
<1> USE DEF IInv
<1>1. CASE UNCHANGED proposals  BY <1>1
<1>2. proposals[p] # NoProposal  BY DEF Proposal, NoProposal, Statuses
<1>3. ASSUME NEW q \in Proposals, Propose(q)
      PROVE  proposals'[p].base = proposals[p].base /\ proposals'[p].hash = proposals[p].hash
  BY <1>2, <1>3 DEF Propose, TypeOK
<1>4. ASSUME NEW s \in Sessions,
             ReviewCommit(s) \/ RejectCommit(s) \/ ApplyInvalid(s) \/ ApplyCommit(s)
      PROVE  proposals'[p].base = proposals[p].base /\ proposals'[p].hash = proposals[p].hash
  BY <1>4 DEF ReviewCommit, RejectCommit, ApplyInvalid, ApplyCommit, TypeOK, Proposal
<1> QED
  BY <1>1, <1>3, <1>4, EditIsEdited, ProfileIsCommitted
  DEF Next, vars, ReviewRead, RejectRead, ApplyRead, EditRead, Edited, ProfileLookup,
      ProfileLock, ProfileCommit, ApproveRead, ApproveAgain, ApproveCommit, ApproveRetry,
      Abandon

(* A step that gives the lock to nobody and leaves the story alone, but    *)
(* for a profile that slips under it.                                      *)
LEMMA LockInvOfBystander ==
  ASSUME IInv, LockInv, [Next]_vars, database = "postgresql",
         UNCHANGED <<approval, active, versions>>,
         \A t \in Sessions : Holds(t)' => session'[t] = session[t],
         ~slipped' => ~slipped /\ plan' = plan
  PROVE  (OneHolder /\ HolderIsCurrent /\ ApprovedInForce)'
<1>1. \A t \in Sessions : Holds(t)' => Holds(t)  BY DEF Holds
<1>2. OneHolder'  BY <1>1 DEF OneHolder, LockInv
<1>3. ASSUME NEW t \in Sessions, Holds(t)'  PROVE ReadIsCurrent(t)'
  <2>1. session'[t] = session[t] /\ ReadIsCurrent(t)
    BY <1>1, <1>3 DEF LockInv, HolderIsCurrent
  <2>2. ASSUME session[t].op = "apply"  PROVE OnItsBase(session[t].proposal)'
    <3> DEFINE p == session[t].proposal
    <3>1. p \in Proposals /\ proposals[p] \in Proposal
      BY <2>2 DEF IInv, ProposalsExist
    <3>2. proposals'[p].base = proposals[p].base /\ proposals'[p].hash = proposals[p].hash
      BY <3>1, BaseIsKept
    <3>3. OnItsBase(p)  BY <2>1, <2>2 DEF ReadIsCurrent
    <3>4. session'[t].proposal = p  BY <2>1
    <3> QED  BY <2>1, <3>2, <3>3 DEF OnItsBase
  <2> QED  BY <2>1, <2>2 DEF ReadIsCurrent
<1>4. ApprovedInForce'  BY DEF ApprovedInForce, LockInv
<1> QED  BY <1>2, <1>3, <1>4 DEF HolderIsCurrent

(* A step by which a session gets the lock, or reads again under it. *)
LEMMA LockInvOfReader ==
  ASSUME LockInv, database = "postgresql", NEW s \in Sessions,
         UNCHANGED <<story, versions, proposals, slipped>>,
         \A t \in Sessions \ {s} : ~Holds(t) /\ session'[t] = session[t],
         ReadIsCurrent(s)'
  PROVE  (OneHolder /\ HolderIsCurrent /\ ApprovedInForce)'
<1>1. \A t \in Sessions : Holds(t)' => t = s  BY DEF Holds
<1>2. ApprovedInForce'  BY DEF ApprovedInForce, LockInv, story
<1> QED  BY <1>1, <1>2 DEF OneHolder, HolderIsCurrent

(* A step by which the holder commits what it did. *)
LEMMA LockInvOfWriter ==
  ASSUME TypeOK, LockInv, database = "postgresql", NEW s \in Sessions, Holds(s), Return(s),
         ApprovedInForce'
  PROVE  (OneHolder /\ HolderIsCurrent /\ ApprovedInForce)'
<1>1. \A t \in Sessions : ~Holds(t)'
  BY ReturnTypes DEF Holds, LockInv, OneHolder
<1> QED  BY <1>1 DEF OneHolder, HolderIsCurrent

(* What is not locked away from a session, no other session holds. *)
LEMMA NobodyElseHolds ==
  ASSUME NEW s \in Sessions, database = "postgresql",
         StoryFree(s) \/ (LockInv /\ Holds(s))
  PROVE  \A t \in Sessions \ {s} : ~Holds(t)
BY DEF StoryFree, Holds, LockInv, OneHolder

(* The steps by which a session gets the lock, or reads again under it. *)
LEMMA ReadersKeepLockInv ==
  ASSUME IInv, LockInv, database = "postgresql", NEW s \in Sessions,
         \/ EditRead(s) \/ ProfileLock(s) \/ ApproveRead(s) \/ ApproveRetry(s)
         \/ \E p \in Proposals : ApplyRead(s, p)
  PROVE  (OneHolder /\ HolderIsCurrent /\ ApprovedInForce)'
<1> USE DEF IInv
<1>1. StoryFree(s) \/ Holds(s)
  BY DEF EditRead, ProfileLock, ApproveRead, ApproveRetry, ApplyRead, Holds
<1>2. \A t \in Sessions \ {s} : ~Holds(t)  BY <1>1, NobodyElseHolds
<1>3. UNCHANGED <<story, versions, proposals, slipped>>
  BY DEF EditRead, ProfileLock, ApproveRead, ApproveRetry, ApplyRead
<1>4. ASSUME NEW what, Read(s, what)
      PROVE  session'[s] = what /\ \A t \in Sessions \ {s} : session'[t] = session[t]
  BY <1>4 DEF Read, TypeOK
<1>5. CASE EditRead(s) \/ ProfileLock(s)
  <2>1. /\ session'[s] = [op |-> "edit", approval |-> approval]
        /\ \A t \in Sessions \ {s} : session'[t] = session[t]
    BY <1>4, <1>5 DEF EditRead, ProfileLock
  <2>2. ReadIsCurrent(s)'  BY <1>3, <2>1 DEF ReadIsCurrent, story
  <2> QED  BY <1>2, <1>3, <2>1, <2>2, LockInvOfReader
<1>6. CASE ApproveRead(s) \/ ApproveRetry(s)
  <2>1. PICK n : Read(s, ApprovalOf(plan, n))
    BY <1>6 DEF ApproveRead, ApproveRetry
  <2>2. /\ session'[s] = ApprovalOf(plan, n)
        /\ \A t \in Sessions \ {s} : session'[t] = session[t]
    BY <1>4, <2>1
  <2>3. ReadIsCurrent(s)'  BY <1>3, <2>2 DEF ReadIsCurrent, ApprovalOf, story
  <2> QED  BY <1>2, <1>3, <2>2, <2>3, LockInvOfReader
<1>7. ASSUME NEW p \in Proposals, ApplyRead(s, p)
      PROVE  (OneHolder /\ HolderIsCurrent /\ ApprovedInForce)'
  <2>1. /\ session'[s] = [op |-> "apply", proposal |-> p, approval |-> approval]
        /\ \A t \in Sessions \ {s} : session'[t] = session[t]
    BY <1>4, <1>7 DEF ApplyRead
  <2>2. OnItsBase(p)  BY <1>7 DEF ApplyRead, Applicable, OnItsBase
  <2>3. ReadIsCurrent(s)'  BY <1>3, <2>1, <2>2 DEF ReadIsCurrent, OnItsBase, story
  <2> QED  BY <1>2, <1>3, <2>1, <2>3, LockInvOfReader
<1> QED  BY <1>5, <1>6, <1>7

(* The steps by which the holder of the lock commits. *)
LEMMA WritersKeepLockInv ==
  ASSUME IInv, LockInv, database = "postgresql", NEW s \in Sessions,
         EditCommit(s) \/ ApproveAgain(s) \/ ApproveCommit(s) \/ ApplyCommit(s)
  PROVE  (OneHolder /\ HolderIsCurrent /\ ApprovedInForce)'
<1> USE DEF IInv
<1>1. Holds(s) /\ Return(s)
  BY EditIsEdited DEF Edited, ApproveAgain, ApproveCommit, ApplyCommit, Holds
<1>2. ReadIsCurrent(s)  BY <1>1 DEF LockInv, HolderIsCurrent
<1>3. CASE EditCommit(s) \/ ApplyCommit(s)
  <2>1. approval' = Reopened(session[s].approval)
    BY <1>3, EditIsEdited DEF Edited, ApplyCommit
  <2>2. approval' = "draft"  BY <1>2, <2>1 DEF Reopened, Flush, ReadIsCurrent
  <2> QED  BY <1>1, <2>2, LockInvOfWriter DEF ApprovedInForce
<1>4. CASE ApproveAgain(s)
  <2>1. /\ session[s].number = Len(versions) /\ session[s].active = active
        /\ ~slipped => session[s].plan = plan
    BY <1>2, <1>4 DEF ReadIsCurrent, ApproveAgain
  <2>2. session[s].same = LastOf(Same(versions, session[s].plan)) /\ session[s].same # 0
    BY <1>4, <2>1 DEF ApproveAgain, ReadsHold
  <2>3. session[s].same \in Same(versions, session[s].plan)
    <3>1. /\ Same(versions, session[s].plan) \subseteq Nat
          /\ \A v, w \in Same(versions, session[s].plan) : v = w
      BY InForceBounds DEF Same, AtMostOneInForce
    <3> QED  BY <2>2, <3>1, LastOfOne
  <2>4. active' = session[s].same  BY <1>4, <2>1 DEF ApproveAgain, Flush
  <2>5. UNCHANGED <<plan, versions, slipped>>  BY <1>4 DEF ApproveAgain
  <2>6. ApprovedInForce'  BY <2>1, <2>3, <2>4, <2>5 DEF ApprovedInForce, Same
  <2> QED  BY <1>1, <2>6, LockInvOfWriter
<1>5. CASE ApproveCommit(s)
  <2>1. InForce(versions') = {Len(versions) + 1}  BY <1>5, InForceAfterApproval
  <2>2. versions'[Len(versions) + 1].plan = session[s].plan
    BY <1>5, SupersedingTypes DEF ApproveCommit
  <2>3. ~slipped => session[s].plan = plan  BY <1>2, <1>5 DEF ReadIsCurrent, ApproveCommit
  <2>4. active' = Len(versions) + 1 /\ UNCHANGED <<plan, slipped>>
    BY <1>5 DEF ApproveCommit
  <2>5. ApprovedInForce'  BY <2>1, <2>2, <2>3, <2>4 DEF ApprovedInForce
  <2> QED  BY <1>1, <2>5, LockInvOfWriter
<1> QED  BY <1>3, <1>4, <1>5

LEMMA StepLockInv ==
  IInv /\ LockInv /\ [Next]_vars => LockInv'
<1> SUFFICES ASSUME IInv, LockInv, [Next]_vars, database' = "postgresql"
             PROVE  (OneHolder /\ HolderIsCurrent /\ ApprovedInForce)'
  BY DEF LockInv
<1> USE DEF IInv
<1>1. database = "postgresql"
  BY EditIsEdited, ProfileIsCommitted
  DEF Next, vars, Propose, ReviewRead, RejectRead, ApplyRead, EditRead, Edited,
      ProfileLookup, ProfileLock, ProfileCommit, ApproveRead, ApproveAgain, ApproveCommit,
      ApproveRetry, ReviewCommit, RejectCommit, ApplyInvalid, ApplyCommit, Abandon
<1>2. ASSUME NEW s \in Sessions, NEW what, Read(s, what),
             what.op \notin {"edit", "apply", "approve"}
      PROVE  \A t \in Sessions : Holds(t)' => session'[t] = session[t]
  BY <1>2 DEF Read, Holds, TypeOK
<1>3. ASSUME UNCHANGED <<approval, active, versions>>, UNCHANGED session,
             ~slipped' => ~slipped /\ plan' = plan
      PROVE  (OneHolder /\ HolderIsCurrent /\ ApprovedInForce)'
  BY <1>1, <1>3, LockInvOfBystander
<1>4. ASSUME NEW s \in Sessions, NEW what, Read(s, what),
             what.op \notin {"edit", "apply", "approve"},
             UNCHANGED <<approval, active, versions>>,
             ~slipped' => ~slipped /\ plan' = plan
      PROVE  (OneHolder /\ HolderIsCurrent /\ ApprovedInForce)'
  <2>1. \A t \in Sessions : Holds(t)' => session'[t] = session[t]  BY <1>2, <1>4
  <2> QED  BY <1>1, <1>4, <2>1, LockInvOfBystander
<1>5. CASE UNCHANGED vars  BY <1>3, <1>5 DEF vars, story
<1>6. ASSUME NEW p \in Proposals, Propose(p)
      PROVE  (OneHolder /\ HolderIsCurrent /\ ApprovedInForce)'
  BY <1>3, <1>6 DEF Propose, story
<1>7. ASSUME NEW s \in Sessions, NEW p \in Proposals, ReviewRead(s, p) \/ RejectRead(s, p)
      PROVE  (OneHolder /\ HolderIsCurrent /\ ApprovedInForce)'
  BY <1>4, <1>7 DEF ReviewRead, RejectRead, story
<1>8. ASSUME NEW s \in Sessions, NEW p \in Proposals, ApplyRead(s, p)
      PROVE  (OneHolder /\ HolderIsCurrent /\ ApprovedInForce)'
  BY <1>1, <1>8, ReadersKeepLockInv
<1>9. ASSUME NEW s \in Sessions,
             EditRead(s) \/ ProfileLock(s) \/ ApproveRead(s) \/ ApproveRetry(s)
      PROVE  (OneHolder /\ HolderIsCurrent /\ ApprovedInForce)'
  BY <1>1, <1>9, ReadersKeepLockInv
<1>10. ASSUME NEW s \in Sessions,
              EditCommit(s) \/ ApproveAgain(s) \/ ApproveCommit(s) \/ ApplyCommit(s)
       PROVE  (OneHolder /\ HolderIsCurrent /\ ApprovedInForce)'
  BY <1>1, <1>10, WritersKeepLockInv
<1>11. ASSUME NEW s \in Sessions,
              \/ ReviewCommit(s) \/ RejectCommit(s) \/ ApplyInvalid(s) \/ Abandon(s)
              \/ UpdateProfile(s) \/ DeleteProfile(s)
       PROVE  (OneHolder /\ HolderIsCurrent /\ ApprovedInForce)'
  <2>1. /\ Return(s) /\ UNCHANGED <<approval, active, versions>>
        /\ UNCHANGED <<plan, slipped>> \/ slipped' = (slipped \/ plan' # plan)
    BY <1>11, ProfileIsCommitted
    DEF ReviewCommit, RejectCommit, ApplyInvalid, Abandon, ProfileCommit, story
  <2>2. ~slipped' => ~slipped /\ plan' = plan  BY <2>1
  <2>3. Read(s, Idle) /\ Idle.op \notin {"edit", "apply", "approve"}
    BY <2>1 DEF Return, Idle
  <2> QED  BY <1>4, <2>1, <2>2, <2>3, Zenon
<1>12. ASSUME NEW s \in Sessions, ProfileLookup(s)
       PROVE  (OneHolder /\ HolderIsCurrent /\ ApprovedInForce)'
  BY <1>4, <1>12 DEF ProfileLookup, story
<1> QED
  BY <1>5, <1>6, <1>7, <1>8, <1>9, <1>10, <1>11, <1>12 DEF Next

LEMMA LockInvariance == Spec => [](IInv /\ LockInv)
<1>1. Init => LockInv
  BY DEF Init, LockInv, OneHolder, HolderIsCurrent, ApprovedInForce, Holds, Idle
<1> QED  BY <1>1, Invariance, StepLockInv, PTL DEF Spec

(* With row locks, an approved story points at the version in force. *)
THEOREM ApprovedPointsAtVersion == Spec => []ApprovedPointsAtApproved
<1>1. IInv /\ LockInv => ApprovedPointsAtApproved
  BY DEF LockInv, ApprovedInForce, ApprovedPointsAtApproved
<1> QED  BY <1>1, LockInvariance, PTL

(* With row locks, an approved story says what was approved, unless a      *)
(* shared profile was changed under it between its lookup and its commit.  *)
THEOREM ApprovedContent == Spec => []ApprovedIsWhatItSays
<1>1. IInv /\ LockInv => ApprovedIsWhatItSays
  BY DEF LockInv, ApprovedInForce, ApprovedIsWhatItSays
<1> QED  BY <1>1, LockInvariance, PTL

(* A step that adds a version made from proposal p is an apply of p. *)
LEMMA VersionFromProposal ==
  ASSUME IInv, [Next]_vars, NEW p \in Proposals,
         Len(versions') > Len(versions), versions'[Len(versions')].source = {p}
  PROVE  \E s \in Sessions : Holds(s) /\ session[s].op = "apply" /\ session[s].proposal = p
<1> USE DEF IInv
<1>1. Len(versions) \in Nat  BY InForceBounds
<1>2. PICK s \in Sessions : ApproveCommit(s) \/ ApplyCommit(s)
  BY <1>1, StepVersions
<1>3. ~ApproveCommit(s)
  <2> SUFFICES ASSUME ApproveCommit(s)  PROVE FALSE
    OBVIOUS
  <2>1. versions'[Len(versions) + 1].source = {} /\ Len(versions') = Len(versions) + 1
    BY <1>1, SupersedingTypes DEF ApproveCommit
  <2> QED  BY <2>1
<1>4. versions'[Len(versions')].source = {session[s].proposal}
  BY <1>1, <1>2, <1>3 DEF ApplyCommit, TypeOK
<1> QED  BY <1>2, <1>3, <1>4 DEF ApplyCommit, Holds

(* With row locks, a proposal is applied only to the base it was made for. *)
THEOREM AppliesOnBase == Spec => AppliedOnItsBase
<1> DEFINE Guarded == database = "postgresql" =>
        \A p \in Proposals :
          LET base == proposals[p].base IN
          Len(versions') > Len(versions) /\ versions'[Len(versions')].source = {p}
            /\ base # 0
          => /\ active = base
             /\ proposals[p].hash # NoPlan /\ ~slipped => plan = versions[base].plan
<1>1. IInv /\ LockInv /\ [Next]_vars => Guarded
  BY VersionFromProposal DEF LockInv, HolderIsCurrent, ReadIsCurrent, OnItsBase
<1>2. IInv /\ LockInv /\ [Next]_vars => [Guarded]_vars
  BY <1>1
<1> QED  BY <1>2, LockInvariance, PTL DEF Spec, AppliedOnItsBase
=============================================================================
