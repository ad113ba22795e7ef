------------------------------ MODULE GpuLease ------------------------------
(***************************************************************************)
(* The shared GPU leases (backend/app/services/runtime/gpu_leases.py), the *)
(* table gpu_resource_leases with its two partial unique indexes, and the  *)
(* worker that generates a voice preview under a lease                     *)
(* (backend/app/workers/voice_preview.py).                                 *)
(*                                                                         *)
(* Each worker has a database session of its own.  expire_stale_leases,    *)
(* heartbeat_lease and release_lease read a row and later commit the       *)
(* columns they changed, whatever the row holds by then.  Left out: the    *)
(* recipe, the provider's output and the in-process job record, which      *)
(* nothing of the lease depends on.                                        *)
(***************************************************************************)
EXTENDS Naturals, Sequences

CONSTANTS Workers,    \* sessions that hold leases
          Mortal,     \* the workers that may crash
          Resources,  \* resource_key values
          Groups,     \* exclusive_group values
          MaxLeases   \* bound: rows of the table

ASSUME MortalAssumption == Mortal \subseteq Workers
ASSUME MaxLeasesAssumption == MaxLeases \in Nat

Request == [resource : Resources, group : Groups]

(* The columns read back.  due: expires_at <= now. *)
Row == [resource : Resources, group : Groups, owner : Workers,
        status : {"active", "released", "expired"}, due : BOOLEAN]

NoRequest == [resource |-> "none", group |-> "none"]

VARIABLES
  leases, \* gpu_resource_leases; the id of a row is its index
  pc,     \* where each worker stands
  asked,  \* the request of an acquisition
  stale,  \* the rows expire_stale_leases has selected
  mine    \* the id of the lease a worker was given, 0 for none

vars == <<leases, pc, asked, stale, mine>>

Control == {"idle", "expiring", "looking", "inserting", "working",
            "heartbeat", "lapsed", "done", "releasing", "down"}

TypeOK ==
  /\ leases \in Seq(Row)
  /\ pc \in [Workers -> Control]
  /\ asked \in [Workers -> Request \cup {NoRequest}]
  /\ stale \in [Workers -> SUBSET (1..Len(leases))]
  /\ mine \in [Workers -> 0..Len(leases)]

Init ==
  /\ leases = <<>>
  /\ pc = [w \in Workers |-> "idle"]
  /\ asked = [w \in Workers |-> NoRequest]
  /\ stale = [w \in Workers |-> {}]
  /\ mine = [w \in Workers |-> 0]

Ids == DOMAIN leases
Active(id) == leases[id].status = "active"

Goto(w, next) == pc' = [pc EXCEPT ![w] = next]

(* The call returns; what the session had loaded is gone. *)
Return(w) ==
  /\ Goto(w, "idle")
  /\ asked' = [asked EXCEPT ![w] = NoRequest]
  /\ stale' = [stale EXCEPT ![w] = {}]
  /\ mine' = [mine EXCEPT ![w] = 0]

-----------------------------------------------------------------------------
(* acquire_lease *)

(* Mutant: only leases on the requested resource are looked at. *)
OverdueOnResource(request) ==
  {id \in Ids : Active(id) /\ leases[id].due /\ leases[id].resource = request.resource}

Overdue(request) == {id \in Ids : Active(id) /\ leases[id].due}

(* expire_stale_leases selects, ... *)
AcquireStart(w, request) ==
  /\ pc[w] = "idle"
  /\ Len(leases) < MaxLeases
  /\ asked' = [asked EXCEPT ![w] = request]
  /\ stale' = [stale EXCEPT ![w] = Overdue(request)]
  /\ Goto(w, "expiring")
  /\ UNCHANGED <<leases, mine>>

(* ... and commits: a row it loaded as active is written as expired.       *)
ExpireStale(w) ==
  /\ pc[w] = "expiring"
  /\ leases' = [id \in Ids |-> IF id \in stale[w]
                                 THEN [leases[id] EXCEPT !.status = "expired"]
                                 ELSE leases[id]]
  /\ stale' = [stale EXCEPT ![w] = {}]
  /\ Goto(w, "looking")
  /\ UNCHANGED <<asked, mine>>

(* Mutant: only the resource is compared. *)
ConflictsOnResource(id, request) ==
  Active(id) /\ leases[id].resource = request.resource

(* A row that has the resource or the group of the request: the clauses of  *)
(* _active_conflict and, again, the two unique indexes.                    *)
Conflicts(id, request) ==
  /\ Active(id)
  /\ \/ leases[id].resource = request.resource
     \/ leases[id].group = request.group

Refused(w) == \E id \in Ids : Conflicts(id, asked[w])

LookForConflict(w) ==
  /\ pc[w] = "looking"
  /\ IF Refused(w) THEN Return(w)
                   ELSE /\ Goto(w, "inserting")
                        /\ UNCHANGED <<asked, stale, mine>>
  /\ UNCHANGED leases

NewRow(w) == [resource |-> asked[w].resource, group |-> asked[w].group,
              owner |-> w, status |-> "active", due |-> FALSE]

(* The INSERT fails when another session inserted meanwhile. *)
Insert(w) ==
  /\ pc[w] = "inserting"
  /\ IF Refused(w)
       THEN Return(w) /\ UNCHANGED leases
       ELSE /\ Len(leases) < MaxLeases
            /\ leases' = Append(leases, NewRow(w))
            /\ mine' = [mine EXCEPT ![w] = Len(leases')]
            /\ asked' = [asked EXCEPT ![w] = NoRequest]
            /\ Goto(w, "working")
            /\ UNCHANGED stale

-----------------------------------------------------------------------------
(* heartbeat_lease, called by a holder while it works *)

(* A lease that is seen inactive gives an error and no write; but the row   *)
(* may come from the identity map, where it still is what was acquired.    *)
(* Overdue: the lease is expired.                                          *)
HeartbeatRead(w) ==
  /\ pc[w] = "working"
  /\ Goto(w, IF leases[mine[w]].due THEN "lapsed" ELSE "heartbeat")
  /\ UNCHANGED <<leases, asked, stale, mine>>

(* Mutant: a heartbeat also writes the status. *)
HeartbeatRevives(w) ==
  /\ pc[w] = "heartbeat"
  /\ leases' = [leases EXCEPT ![mine[w]].due = FALSE, ![mine[w]].status = "active"]
  /\ Goto(w, "working")
  /\ UNCHANGED <<asked, stale, mine>>

HeartbeatCommit(w) ==
  /\ \/ /\ pc[w] = "heartbeat"
        /\ leases' = [leases EXCEPT ![mine[w]].due = FALSE]
     \/ /\ pc[w] = "lapsed"
        /\ leases' = [leases EXCEPT ![mine[w]].status = "expired"]
  /\ Goto(w, "working")
  /\ UNCHANGED <<asked, stale, mine>>

-----------------------------------------------------------------------------
(* The work, and release_lease in its finally block *)

(* The adapter returns, with or without a usable preview. *)
WorkEnds(w) ==
  /\ pc[w] = "working"
  /\ Goto(w, "done")
  /\ UNCHANGED <<leases, asked, stale, mine>>

(* The commit of the preview fails: the session can do nothing before a     *)
(* rollback, so that release_lease raises and the lease stays.             *)
WorkEndsUnusable(w) ==
  /\ pc[w] = "working"
  /\ Return(w)
  /\ UNCHANGED leases

(* Only an active lease is released; the row is read from the identity map, *)
(* as it was when the lease was acquired, or from the table.               *)
ReleaseRead(w) ==
  /\ pc[w] = "done"
  /\ \/ Goto(w, "releasing") /\ UNCHANGED <<asked, stale, mine>>
     \/ ~Active(mine[w]) /\ Return(w)
  /\ UNCHANGED leases

ReleaseCommit(w) ==
  /\ pc[w] = "releasing"
  /\ leases' = [leases EXCEPT ![mine[w]].status = "released"]
  /\ Return(w)

-----------------------------------------------------------------------------
(* The environment *)

(* The time to live of a lease is over. *)
RunsOut(id) ==
  /\ Active(id) /\ ~leases[id].due
  /\ leases' = [leases EXCEPT ![id].due = TRUE]
  /\ UNCHANGED <<pc, asked, stale, mine>>

Crash(w) ==
  /\ w \in Mortal /\ pc[w] # "down"
  /\ Goto(w, "down")
  /\ asked' = [asked EXCEPT ![w] = NoRequest]
  /\ stale' = [stale EXCEPT ![w] = {}]
  /\ mine' = [mine EXCEPT ![w] = 0]
  /\ UNCHANGED leases

Acquire(w) == \/ \E request \in Request : AcquireStart(w, request)
              \/ ExpireStale(w) \/ LookForConflict(w) \/ Insert(w)

Finish(w) == WorkEnds(w) \/ ReleaseRead(w) \/ ReleaseCommit(w)

Next == \/ \E w \in Workers : \/ Acquire(w)
                              \/ HeartbeatRead(w) \/ HeartbeatCommit(w)
                              \/ Finish(w) \/ WorkEndsUnusable(w)
                              \/ Crash(w)
        \/ \E id \in Ids : RunsOut(id)

Spec == Init /\ [][Next]_vars

(* Time passes, and a call that was begun ends.  Nobody has to ask for a    *)
(* lease, to send heartbeats, or to come to the end of its work.           *)
Fairness ==
  /\ \A id \in 1..MaxLeases : WF_vars(id \in Ids /\ RunsOut(id))
  /\ \A w \in Workers : WF_vars(ExpireStale(w) \/ LookForConflict(w) \/ Insert(w))

FairSpec == Spec /\ Fairness

-----------------------------------------------------------------------------
(* Properties *)

(* Two active leases share neither the resource nor the exclusive group,   *)
(* whatever acquisitions, expiries and heartbeats race.                    *)
OneLeasePerGpu ==
  \A i, k \in Ids :
     Active(i) /\ Active(k) /\ i # k =>
        /\ leases[i].resource # leases[k].resource
        /\ leases[i].group # leases[k].group

(* The rows of gpu_leases stay well formed and exclude each other.         *)
LeasesExclude == TypeOK /\ OneLeasePerGpu

(* The lease of a worker that died, or that could not release it, does not *)
(* stay in the way: either it ends, or no one asks for a lease any more.   *)
AbandonedLeaseEnds ==
  \A id \in 1..MaxLeases :
     LET Abandoned == id \in Ids /\ Active(id) /\ mine[leases[id].owner] # id
     IN Abandoned ~> (~Abandoned \/ [](\A w \in Workers : pc[w] # "expiring"))

(* The grant that holds a group: the id of its active row. *)
Holder == [g \in Groups |->
             LET held == {id \in Ids : Active(id) /\ leases[id].group = g}
             IN IF held = {} THEN 0 ELSE CHOOSE id \in held : TRUE]

(* Each exclusive group is a leased resource in the sense of Lease: a lease *)
(* that was given up never comes back to life, and the GPU passes to the   *)
(* next workload only after the last one lost it.                          *)
L == INSTANCE Lease WITH Resources <- Groups, holder <- Holder,
                         issued <- Len(leases)
ImplementsLease == L!LSpec
=============================================================================
