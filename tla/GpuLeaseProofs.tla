--------------------------- MODULE GpuLeaseProofs ---------------------------
(***************************************************************************)
(* Proofs about the GPU leases, for any number of workers, resources,      *)
(* groups and rows: active leases exclude each other, and the table        *)
(* implements Lease.                                                       *)
(***************************************************************************)
EXTENDS GpuLease, SequenceTheorems, TLAPS

Asking == {"expiring", "looking", "inserting"}
Holding == {"working", "heartbeat", "lapsed", "done", "releasing"}

(* What a worker has at hand at each of its statements. *)
AtHand ==
  \A w \in Workers : /\ pc[w] \in Asking => asked[w] \in Request
                     /\ pc[w] \in Holding => mine[w] \in Ids

IInv == TypeOK /\ AtHand /\ OneLeasePerGpu

(* How a step may change the table: active rows of it end, ... *)
Ends ==
  /\ leases' \in Seq(Row)
  /\ Len(leases') = Len(leases)
  /\ \A id \in Ids : /\ leases'[id].resource = leases[id].resource
                     /\ leases'[id].group = leases[id].group
                     /\ leases'[id].status = "active" => leases[id].status = "active"

(* ... or a row is added that conflicts with none. *)
Adds ==
  \E new \in Row :
    /\ new.status = "active"
    /\ leases' = Append(leases, new)
    /\ \A id \in Ids : Active(id) => /\ leases[id].resource # new.resource
                                     /\ leases[id].group # new.group

-----------------------------------------------------------------------------
(* The effect of each step *)

(* The rest of the type of a step that leaves the others alone. *)
Others(w) ==
  \A v \in Workers \ {w} : /\ pc'[v] = pc[v] /\ asked'[v] = asked[v]
                           /\ stale'[v] = stale[v] /\ mine'[v] = mine[v]

Functions ==
  /\ pc' \in [Workers -> Control]
  /\ asked' \in [Workers -> Request \cup {NoRequest}]
  /\ DOMAIN stale' = Workers /\ stale' = [v \in Workers |-> stale'[v]]
  /\ DOMAIN mine' = Workers /\ mine' = [v \in Workers |-> mine'[v]]

LEMMA OneWorker ==
  ASSUME IInv, NEW w \in Workers, Others(w), Functions, Ends \/ Adds,
         stale'[w] \subseteq Ids, mine'[w] \in 0..Len(leases'),
         pc'[w] \in Asking => asked'[w] \in Request,
         pc'[w] \in Holding => mine'[w] \in 1..Len(leases')
  PROVE  TypeOK' /\ AtHand'
<1>1. leases' \in Seq(Row) /\ Len(leases) \in Nat /\ Len(leases') \in Nat
  <2>1. CASE Ends
    BY <2>1 DEF Ends, IInv, TypeOK
  <2>2. CASE Adds
    BY <2>2 DEF Adds, IInv, TypeOK
  <2>3. QED BY <2>1, <2>2
<1>2. Len(leases) <= Len(leases')
  <2>1. CASE Ends
    BY <1>1, <2>1 DEF Ends
  <2>2. CASE Adds
    BY <1>1, <2>2 DEF Adds, IInv, TypeOK
  <2>3. QED BY <2>1, <2>2
<1>3. Ids = 1..Len(leases) /\ Ids' = 1..Len(leases')
  BY <1>1 DEF Ids, IInv, TypeOK
<1>4. \A v \in Workers : stale'[v] \subseteq 1..Len(leases') /\ mine'[v] \in 0..Len(leases')
  <2> SUFFICES ASSUME NEW v \in Workers
               PROVE  stale'[v] \subseteq 1..Len(leases') /\ mine'[v] \in 0..Len(leases')
    OBVIOUS
  <2>1. 1..Len(leases) \subseteq 1..Len(leases') /\ 0..Len(leases) \subseteq 0..Len(leases')
    BY <1>1, <1>2
  <2>2. CASE v = w
    BY <1>3, <2>1, <2>2
  <2>3. CASE v # w
    <3>1. stale'[v] = stale[v] /\ mine'[v] = mine[v]
      BY <2>3 DEF Others
    <3>2. stale[v] \subseteq 1..Len(leases) /\ mine[v] \in 0..Len(leases)
      BY DEF IInv, TypeOK
    <3>3. QED BY <2>1, <3>1, <3>2
  <2>4. QED BY <2>2, <2>3
<1>5. TypeOK'
  <2>1. stale' \in [Workers -> SUBSET (1..Len(leases'))] /\ mine' \in [Workers -> 0..Len(leases')]
    BY <1>4 DEF Functions
  <2>2. QED BY <1>1, <2>1 DEF TypeOK, Functions
<1>6. AtHand'
  <2> SUFFICES ASSUME NEW v \in Workers
               PROVE  /\ pc'[v] \in Asking => asked'[v] \in Request
                      /\ pc'[v] \in Holding => mine'[v] \in Ids'
    BY DEF AtHand
  <2>1. CASE v = w
    BY <1>3, <2>1
  <2>2. CASE v # w
    <3>1. pc'[v] = pc[v] /\ asked'[v] = asked[v] /\ mine'[v] = mine[v]
      BY <2>2 DEF Others
    <3>2. Ids \subseteq Ids'
      BY <1>1, <1>2, <1>3
    <3>3. QED BY <3>1, <3>2 DEF IInv, AtHand
  <2>3. QED BY <2>1, <2>2
<1>7. QED BY <1>5, <1>6

LEMMA Kept ==
  ASSUME IInv, leases' = leases
  PROVE  Ends
BY DEF Ends, IInv, TypeOK

(* Writing one row, without making it active again. *)
LEMMA RowWritten ==
  ASSUME IInv, NEW id \in Ids, NEW new \in Row, leases' = [leases EXCEPT ![id] = new],
         new.resource = leases[id].resource, new.group = leases[id].group,
         new.status = "active" => leases[id].status = "active"
  PROVE  Ends
<1>1. leases \in Seq(Row) /\ DOMAIN leases = 1..Len(leases)
  BY DEF IInv, TypeOK
<1>2. leases' \in Seq(Row) /\ Len(leases') = Len(leases)
  BY <1>1, ExceptSeq DEF Ids
<1>3. \A k \in Ids : leases'[k] = IF k = id THEN new ELSE leases[k]
  BY <1>1 DEF Ids
<1>4. QED BY <1>2, <1>3 DEF Ends

LEMMA RowsAreRecords ==
  ASSUME IInv
  PROVE  /\ \A id \in Ids : leases[id] \in Row
         /\ Ids = 1..Len(leases) /\ Len(leases) \in Nat
BY DEF IInv, TypeOK, Ids

LEMMA ReturnsAreFine ==
  ASSUME IInv, NEW w \in Workers, Return(w), Ends
  PROVE  TypeOK' /\ AtHand'
<1>1. Others(w) /\ Functions
  BY DEF Return, Goto, Others, Functions, IInv, TypeOK, Control
<1>2. pc'[w] = "idle" /\ stale'[w] = {} /\ mine'[w] = 0
  BY DEF Return, Goto, IInv, TypeOK
<1>3. Len(leases') \in Nat /\ 0 \in 0..Len(leases')
  BY DEF Ends, IInv, TypeOK
<1>4. QED BY <1>1, <1>2, <1>3, OneWorker DEF Asking, Holding

(* A worker that goes on without new data. *)
LEMMA GoesOn ==
  ASSUME IInv, NEW w \in Workers, NEW next \in Control, Goto(w, next), Ends,
         UNCHANGED <<asked, stale, mine>>,
         next \in Asking => pc[w] \in Asking,
         next \in Holding => pc[w] \in Holding
  PROVE  TypeOK' /\ AtHand'
<1>1. Others(w) /\ Functions /\ pc'[w] = next
  BY DEF Goto, Others, Functions, IInv, TypeOK
<1>2. Ids = 1..Len(leases) /\ Len(leases') = Len(leases)
  BY RowsAreRecords DEF Ends
<1>3. stale'[w] \subseteq Ids /\ mine'[w] \in 0..Len(leases')
  BY <1>2 DEF IInv, TypeOK
<1>4. pc'[w] \in Asking => asked'[w] \in Request
  BY <1>1 DEF IInv, AtHand
<1>5. pc'[w] \in Holding => mine'[w] \in 1..Len(leases')
  BY <1>1, <1>2 DEF IInv, AtHand
<1>6. QED BY <1>1, <1>3, <1>4, <1>5, OneWorker

LEMMA Effect == IInv /\ [Next]_vars => TypeOK' /\ AtHand' /\ (Ends \/ Adds)
<1> SUFFICES ASSUME IInv, [Next]_vars PROVE TypeOK' /\ AtHand' /\ (Ends \/ Adds)
  OBVIOUS
<1>1. ASSUME NEW w \in Workers, NEW request \in Request, AcquireStart(w, request)
      PROVE  TypeOK' /\ AtHand' /\ Ends
  <2>1. Ends
    BY <1>1, Kept DEF AcquireStart
  <2>2. Others(w) /\ Functions
    BY <1>1 DEF AcquireStart, Goto, Others, Functions, IInv, TypeOK, Control
  <2>3. /\ pc'[w] = "expiring" /\ asked'[w] = request
        /\ stale'[w] = Overdue(request) /\ mine'[w] = mine[w] /\ leases' = leases
    BY <1>1 DEF AcquireStart, Goto, IInv, TypeOK
  <2>4. stale'[w] \subseteq Ids /\ mine'[w] \in 0..Len(leases')
    BY <2>3 DEF Overdue, IInv, TypeOK
  <2>5. QED BY <2>1, <2>2, <2>3, <2>4, OneWorker DEF Holding
<1>2. ASSUME NEW w \in Workers, ExpireStale(w)
      PROVE  TypeOK' /\ AtHand' /\ Ends
  <2>1. Ends
    <3>1. \A id \in Ids : [leases[id] EXCEPT !.status = "expired"] \in Row
      BY RowsAreRecords DEF Row
    <3>2. leases' = [id \in 1..Len(leases) |-> IF id \in stale[w]
                       THEN [leases[id] EXCEPT !.status = "expired"] ELSE leases[id]]
      BY <1>2, RowsAreRecords DEF ExpireStale
    <3>3. leases' \in Seq(Row) /\ Len(leases') = Len(leases)
      <4>1. leases' \in [1..Len(leases) -> Row]
        BY <3>1, <3>2, RowsAreRecords
      <4>2. QED BY <4>1, RowsAreRecords, SeqDef, LenProperties
    <3>4. \A id \in Ids : /\ leases'[id].resource = leases[id].resource
                          /\ leases'[id].group = leases[id].group
                          /\ leases'[id].status = "active" => leases[id].status = "active"
      BY <3>2, RowsAreRecords DEF Row
    <3>5. QED BY <3>3, <3>4 DEF Ends
  <2>2. Others(w) /\ Functions
    BY <1>2 DEF ExpireStale, Goto, Others, Functions, IInv, TypeOK, Control
  <2>3. pc'[w] = "looking" /\ asked'[w] = asked[w] /\ stale'[w] = {} /\ mine'[w] = mine[w]
    BY <1>2 DEF ExpireStale, Goto, IInv, TypeOK
  <2>4. asked[w] \in Request /\ mine[w] \in 0..Len(leases')
    BY <1>2, <2>1 DEF ExpireStale, IInv, AtHand, TypeOK, Asking, Ends
  <2>5. QED BY <2>1, <2>2, <2>3, <2>4, OneWorker DEF Holding
<1>3. ASSUME NEW w \in Workers, LookForConflict(w)
      PROVE  TypeOK' /\ AtHand' /\ Ends
  <2>1. Ends
    BY <1>3, Kept DEF LookForConflict
  <2>2. CASE Return(w)
    BY <2>1, <2>2, ReturnsAreFine
  <2>3. CASE Goto(w, "inserting") /\ UNCHANGED <<asked, stale, mine>>
    BY <1>3, <2>1, <2>3, GoesOn DEF LookForConflict, Control, Asking, Holding
  <2>4. QED BY <1>3, <2>1, <2>2, <2>3 DEF LookForConflict
<1>4. ASSUME NEW w \in Workers, Insert(w)
      PROVE  TypeOK' /\ AtHand' /\ (Ends \/ Adds)
  <2>1. CASE Refused(w)
    <3>1. Ends /\ Return(w)
      BY <1>4, <2>1, Kept DEF Insert
    <3>2. QED BY <3>1, ReturnsAreFine
  <2>2. CASE ~Refused(w)
    <3>1. asked[w] \in Request
      BY <1>4 DEF Insert, IInv, AtHand, Asking
    <3>2. /\ NewRow(w) \in Row /\ NewRow(w).status = "active"
          /\ NewRow(w).resource = asked[w].resource /\ NewRow(w).group = asked[w].group
      BY <3>1 DEF NewRow, Row, Request
    <3>3. /\ leases' = Append(leases, NewRow(w))
          /\ mine' = [mine EXCEPT ![w] = Len(leases')]
          /\ asked' = [asked EXCEPT ![w] = NoRequest]
          /\ Goto(w, "working") /\ UNCHANGED stale
      BY <1>4, <2>2 DEF Insert
    <3>4. \A id \in Ids : Active(id) => /\ leases[id].resource # NewRow(w).resource
                                        /\ leases[id].group # NewRow(w).group
      BY <2>2, <3>2 DEF Refused, Conflicts
    <3>5. Adds
      BY <3>2, <3>3, <3>4 DEF Adds
    <3>6. Others(w) /\ Functions
      BY <3>3 DEF Goto, Others, Functions, IInv, TypeOK, Control
    <3>7. /\ pc'[w] = "working" /\ stale'[w] \subseteq Ids
          /\ mine'[w] = Len(leases')
      BY <3>3 DEF Goto, IInv, TypeOK, Ids
    <3>8. Len(leases') \in Nat /\ Len(leases') >= 1
      BY <3>2, <3>3 DEF IInv, TypeOK
    <3>9. mine'[w] \in 1..Len(leases') /\ mine'[w] \in 0..Len(leases')
      BY <3>7, <3>8
    <3>10. QED BY <3>5, <3>6, <3>7, <3>9, OneWorker DEF Asking
  <2>3. QED BY <2>1, <2>2
<1>5. ASSUME NEW w \in Workers, HeartbeatRead(w)
      PROVE  TypeOK' /\ AtHand' /\ Ends
  <2>1. Ends
    BY <1>5, Kept DEF HeartbeatRead
  <2>2. QED BY <1>5, <2>1, GoesOn DEF HeartbeatRead, Control, Asking, Holding
<1>6. ASSUME NEW w \in Workers, HeartbeatCommit(w)
      PROVE  TypeOK' /\ AtHand' /\ Ends
  <2>1. mine[w] \in Ids /\ leases[mine[w]] \in Row
    BY <1>6, RowsAreRecords DEF HeartbeatCommit, IInv, AtHand, Holding
  <2>2. Ends
    <3>1. CASE leases' = [leases EXCEPT ![mine[w]].due = FALSE]
      <4>1. /\ [leases[mine[w]] EXCEPT !.due = FALSE] \in Row
            /\ [leases[mine[w]] EXCEPT !.due = FALSE].status = leases[mine[w]].status
            /\ [leases[mine[w]] EXCEPT !.due = FALSE].resource = leases[mine[w]].resource
            /\ [leases[mine[w]] EXCEPT !.due = FALSE].group = leases[mine[w]].group
        BY <2>1 DEF Row
      <4>2. QED BY <2>1, <3>1, <4>1, RowWritten
    <3>2. CASE leases' = [leases EXCEPT ![mine[w]].status = "expired"]
      <4>1. /\ [leases[mine[w]] EXCEPT !.status = "expired"] \in Row
            /\ [leases[mine[w]] EXCEPT !.status = "expired"].status = "expired"
            /\ [leases[mine[w]] EXCEPT !.status = "expired"].resource = leases[mine[w]].resource
            /\ [leases[mine[w]] EXCEPT !.status = "expired"].group = leases[mine[w]].group
        BY <2>1 DEF Row
      <4>2. QED BY <2>1, <3>2, <4>1, RowWritten
    <3>3. QED BY <1>6, <3>1, <3>2 DEF HeartbeatCommit
  <2>3. QED BY <1>6, <2>2, GoesOn DEF HeartbeatCommit, Control, Asking, Holding
<1>7. ASSUME NEW w \in Workers, Finish(w)
      PROVE  TypeOK' /\ AtHand' /\ Ends
  <2>1. CASE WorkEnds(w)
    <3>1. Ends
      BY <2>1, Kept DEF WorkEnds
    <3>2. QED BY <2>1, <3>1, GoesOn DEF WorkEnds, Control, Asking, Holding
  <2>2. CASE ReleaseRead(w)
    <3>1. Ends
      BY <2>2, Kept DEF ReleaseRead
    <3>2. CASE Return(w)
      BY <3>1, <3>2, ReturnsAreFine
    <3>3. CASE Goto(w, "releasing") /\ UNCHANGED <<asked, stale, mine>>
      BY <2>2, <3>1, <3>3, GoesOn DEF ReleaseRead, Control, Asking, Holding
    <3>4. QED BY <2>2, <3>1, <3>2, <3>3 DEF ReleaseRead
  <2>3. CASE ReleaseCommit(w)
    <3>1. mine[w] \in Ids /\ leases[mine[w]] \in Row
      BY <2>3, RowsAreRecords DEF ReleaseCommit, IInv, AtHand, Holding
    <3>2. /\ [leases[mine[w]] EXCEPT !.status = "released"] \in Row
          /\ [leases[mine[w]] EXCEPT !.status = "released"].status = "released"
          /\ [leases[mine[w]] EXCEPT !.status = "released"].resource = leases[mine[w]].resource
          /\ [leases[mine[w]] EXCEPT !.status = "released"].group = leases[mine[w]].group
      BY <3>1 DEF Row
    <3>3. leases' = [leases EXCEPT ![mine[w]] = [leases[mine[w]] EXCEPT !.status = "released"]]
      BY <2>3 DEF ReleaseCommit
    <3>4. Ends
      BY <3>1, <3>2, <3>3, RowWritten
    <3>5. QED BY <2>3, <3>4, ReturnsAreFine DEF ReleaseCommit
  <2>4. QED BY <1>7, <2>1, <2>2, <2>3 DEF Finish
<1>8. ASSUME NEW w \in Workers, WorkEndsUnusable(w)
      PROVE  TypeOK' /\ AtHand' /\ Ends
  <2>1. Ends
    BY <1>8, Kept DEF WorkEndsUnusable
  <2>2. QED BY <1>8, <2>1, ReturnsAreFine DEF WorkEndsUnusable
<1>9. ASSUME NEW w \in Workers, Crash(w)
      PROVE  TypeOK' /\ AtHand' /\ Ends
  <2>1. Ends
    BY <1>9, Kept DEF Crash
  <2>2. Others(w) /\ Functions
    BY <1>9 DEF Crash, Goto, Others, Functions, IInv, TypeOK, Control
  <2>3. pc'[w] = "down" /\ stale'[w] = {} /\ mine'[w] = 0
    BY <1>9 DEF Crash, Goto, IInv, TypeOK
  <2>4. 0 \in 0..Len(leases')
    BY <2>1 DEF Ends, IInv, TypeOK
  <2>5. QED BY <2>1, <2>2, <2>3, <2>4, OneWorker DEF Asking, Holding
<1>10. ASSUME NEW id \in Ids, RunsOut(id)
       PROVE  TypeOK' /\ AtHand' /\ Ends
  <2>1. leases[id] \in Row
    BY RowsAreRecords
  <2>2. /\ [leases[id] EXCEPT !.due = TRUE] \in Row
        /\ [leases[id] EXCEPT !.due = TRUE].status = leases[id].status
        /\ [leases[id] EXCEPT !.due = TRUE].resource = leases[id].resource
        /\ [leases[id] EXCEPT !.due = TRUE].group = leases[id].group
    BY <2>1 DEF Row
  <2>3. Ends
    BY <1>10, <2>2, RowWritten DEF RunsOut
  <2>4. Ids = 1..Len(leases) /\ Ids' = 1..Len(leases') /\ Len(leases') = Len(leases)
    BY <2>3, RowsAreRecords DEF Ends, Ids
  <2>5. TypeOK'
    BY <1>10, <2>3, <2>4 DEF RunsOut, Ends, IInv, TypeOK
  <2>6. AtHand'
    BY <1>10, <2>4 DEF RunsOut, IInv, AtHand
  <2>7. QED BY <2>3, <2>5, <2>6
<1>11. CASE UNCHANGED vars
  <2>1. Ends
    BY <1>11, Kept DEF vars
  <2>2. TypeOK' /\ AtHand'
    BY <1>11 DEF vars, IInv, TypeOK, AtHand, Ids
  <2>3. QED BY <2>1, <2>2
<1>12. QED
  BY <1>1, <1>2, <1>3, <1>4, <1>5, <1>6, <1>7, <1>8, <1>9, <1>10, <1>11 DEF Next, Acquire

-----------------------------------------------------------------------------
(* Exclusion *)

LEMMA InitIInv == Init => IInv
BY DEF Init, IInv, TypeOK, AtHand, OneLeasePerGpu, Ids, Asking, Holding, Control

LEMMA NextIInv == IInv /\ [Next]_vars => IInv'
<1> SUFFICES ASSUME IInv, [Next]_vars PROVE OneLeasePerGpu'
  BY Effect DEF IInv
<1> SUFFICES ASSUME NEW i \in Ids', NEW k \in Ids', Active(i)', Active(k)', i # k
             PROVE  /\ leases'[i].resource # leases'[k].resource
                    /\ leases'[i].group # leases'[k].group
  BY DEF OneLeasePerGpu
<1>1. CASE Ends
  <2>1. i \in Ids /\ k \in Ids
    BY <1>1, RowsAreRecords DEF Ends, Ids
  <2>2. Active(i) /\ Active(k)
    BY <1>1, <2>1 DEF Ends, Active
  <2>3. QED BY <1>1, <2>1, <2>2 DEF Ends, IInv, OneLeasePerGpu
<1>2. CASE Adds
  <2>1. PICK new \in Row :
          /\ leases' = Append(leases, new)
          /\ \A id \in Ids : Active(id) => /\ leases[id].resource # new.resource
                                           /\ leases[id].group # new.group
    BY <1>2 DEF Adds
  <2>2. /\ Ids' = 1..(Len(leases) + 1) /\ leases'[Len(leases) + 1] = new
        /\ \A id \in Ids : leases'[id] = leases[id]
    BY <2>1, RowsAreRecords DEF IInv, TypeOK, Ids
  <2>3. \A id \in Ids' : id \in Ids \/ id = Len(leases) + 1
    BY <2>2, RowsAreRecords
  <2>4. \A id \in Ids : Active(id)' => Active(id)
    BY <2>2 DEF Active
  <2>5. CASE i \in Ids /\ k \in Ids
    BY <2>2, <2>4, <2>5 DEF IInv, OneLeasePerGpu
  <2>6. CASE i \in Ids /\ k = Len(leases) + 1
    BY <2>1, <2>2, <2>4, <2>6
  <2>7. CASE i = Len(leases) + 1 /\ k \in Ids
    BY <2>1, <2>2, <2>4, <2>7
  <2>8. QED BY <2>3, <2>5, <2>6, <2>7
<1>3. QED BY <1>1, <1>2, Effect

LEMMA Invariance == Spec => []IInv
BY InitIInv, NextIInv, PTL DEF Spec

(* GPUs: whatever acquisitions, expiries, heartbeats and crashes race, two *)
(* active leases share neither a resource nor a group.                     *)
THEOREM LeasesAlwaysExclude == Spec => []LeasesExclude
<1>1. IInv => LeasesExclude
  BY DEF IInv, LeasesExclude
<1>2. QED BY <1>1, Invariance, PTL

-----------------------------------------------------------------------------
(* Refinement *)

HeldIn(table, g) == {id \in DOMAIN table : table[id].status = "active" /\ table[id].group = g}
HolderIn(table, g) ==
  IF HeldIn(table, g) = {} THEN 0 ELSE CHOOSE id \in HeldIn(table, g) : TRUE

LEMMA HolderByTable ==
  /\ Holder = [g \in Groups |-> HolderIn(leases, g)]
  /\ Holder' = [g \in Groups |-> HolderIn(leases', g)]
BY DEF Holder, HolderIn, HeldIn, Ids, Active

LEMMA TheHolder ==
  ASSUME NEW table, NEW g, NEW id \in HeldIn(table, g), \A k \in HeldIn(table, g) : k = id
  PROVE  HolderIn(table, g) = id
<1>1. HeldIn(table, g) = {id}
  OBVIOUS
<1>2. (CHOOSE k \in {id} : TRUE) = id
  OBVIOUS
<1>3. QED BY <1>1, <1>2 DEF HolderIn

LEMMA SameHolder ==
  ASSUME NEW t, NEW u, NEW g, HeldIn(t, g) = HeldIn(u, g)
  PROVE  HolderIn(t, g) = HolderIn(u, g)
<1> DEFINE H(S) == IF S = {} THEN 0 ELSE CHOOSE id \in S : TRUE
<1>1. HolderIn(t, g) = H(HeldIn(t, g)) /\ HolderIn(u, g) = H(HeldIn(u, g))
  BY DEF HolderIn
<1> HIDE DEF H
<1>2. QED BY <1>1

LEMMA HeldByOne ==
  ASSUME OneLeasePerGpu, NEW g, NEW i \in HeldIn(leases, g), NEW k \in HeldIn(leases, g)
  PROVE  i = k
BY DEF OneLeasePerGpu, HeldIn, Ids, Active

(* Rows that end leave their group free. *)
LEMMA EndsEnd ==
  ASSUME IInv, Ends
  PROVE  L!End
<1>1. ASSUME NEW g \in Groups PROVE HolderIn(leases', g) \in {HolderIn(leases, g), 0}
  <2>1. HeldIn(leases', g) \subseteq HeldIn(leases, g)
    BY RowsAreRecords DEF Ends, HeldIn, Ids
  <2>2. CASE HeldIn(leases', g) = {}
    BY <2>2 DEF HolderIn
  <2>3. CASE HeldIn(leases', g) # {}
    <3>1. PICK id : id \in HeldIn(leases', g)
      BY <2>3
    <3>2. \A k \in HeldIn(leases, g) : k = id
      BY <2>1, <3>1, HeldByOne DEF IInv
    <3>3. HeldIn(leases', g) = HeldIn(leases, g)
      BY <2>1, <3>1, <3>2
    <3>4. QED BY <3>3 DEF HolderIn
  <2>4. QED BY <2>2, <2>3
<1>2. \A g \in Groups : Holder'[g] \in {Holder[g], 0}
  BY <1>1, HolderByTable
<1>3. Holder' = [g \in Groups |-> Holder'[g]]
  BY HolderByTable
<1>4. Len(leases)' = Len(leases)
  BY DEF Ends
<1>5. QED BY <1>2, <1>3, <1>4 DEF L!End

(* A row that is added is the next grant of its group. *)
LEMMA AddsGrant ==
  ASSUME IInv, NEW new \in Row, new.status = "active", leases' = Append(leases, new),
         \A id \in Ids : Active(id) => leases[id].group # new.group
  PROVE  L!Grant(new.group)
<1> DEFINE g == new.group
           next == Len(leases) + 1
<1>1. /\ leases \in Seq(Row) /\ Len(leases) \in Nat
      /\ DOMAIN leases = 1..Len(leases) /\ DOMAIN leases' = 1..next
      /\ leases'[next] = new
      /\ \A id \in DOMAIN leases : leases'[id] = leases[id]
  BY DEF IInv, TypeOK
<1>2. g \in Groups
  BY DEF Row
<1>3. HeldIn(leases, g) = {}
  BY DEF HeldIn, Ids, Active
<1>4. \A id \in DOMAIN leases' : id \in DOMAIN leases \/ id = next
  BY <1>1
<1>5. HeldIn(leases', g) = {next}
  <2>1. next \in HeldIn(leases', g)
    BY <1>1 DEF HeldIn
  <2>2. \A id \in HeldIn(leases', g) : id = next
    BY <1>1, <1>3, <1>4 DEF HeldIn
  <2>3. QED BY <2>1, <2>2
<1>6. \A h \in Groups \ {g} : HeldIn(leases', h) = HeldIn(leases, h)
  <2> SUFFICES ASSUME NEW h \in Groups \ {g}
               PROVE  HeldIn(leases', h) = HeldIn(leases, h)
    OBVIOUS
  <2>1. \A id : id \in HeldIn(leases', h) <=> id \in HeldIn(leases, h)
    BY <1>1, <1>4 DEF HeldIn
  <2>2. QED BY <2>1
<1>7. Holder[g] = 0 /\ Holder'[g] = next
  <2>1. HolderIn(leases, g) = 0
    BY <1>3 DEF HolderIn
  <2>2. HolderIn(leases', g) = next
    BY <1>5, TheHolder
  <2>3. QED BY <1>2, <2>1, <2>2, HolderByTable
<1>8. \A h \in Groups \ {g} : Holder'[h] = Holder[h]
  <2>1. \A h \in Groups \ {g} : HolderIn(leases', h) = HolderIn(leases, h)
    BY <1>6, SameHolder
  <2>2. QED BY <2>1, HolderByTable
<1>9. Holder' = [Holder EXCEPT ![g] = next]
  BY <1>2, <1>7, <1>8, HolderByTable
<1>10. Len(leases)' = Len(leases) + 1
  BY <1>1
<1>11. QED BY <1>7, <1>9, <1>10 DEF L!Grant

LEMMA StepRefines == IInv /\ [Next]_vars => [L!LNext]_(L!lvars)
<1> SUFFICES ASSUME IInv, [Next]_vars PROVE L!LNext
  OBVIOUS
<1>1. CASE Ends
  BY <1>1, EndsEnd DEF L!LNext
<1>2. CASE Adds
  <2>1. PICK new \in Row :
          /\ new.status = "active" /\ leases' = Append(leases, new)
          /\ \A id \in Ids : Active(id) => leases[id].group # new.group
    BY <1>2 DEF Adds
  <2>2. new.group \in Groups
    BY DEF Row
  <2>3. QED BY <2>1, <2>2, AddsGrant DEF L!LNext
<1>3. QED BY <1>1, <1>2, Effect

LEMMA InitRefines == Init => L!LInit
<1> SUFFICES ASSUME Init PROVE L!LInit
  OBVIOUS
<1>1. leases = <<>> /\ Len(leases) = 0
  BY DEF Init
<1>2. \A g \in Groups : HolderIn(leases, g) = 0
  BY <1>1 DEF HolderIn, HeldIn
<1>3. Holder = [g \in Groups |-> 0]
  BY <1>2, HolderByTable
<1>4. QED BY <1>1, <1>3 DEF L!LInit

(* Refinement: the lease table does what Lease promises, a group passes    *)
(* from grant to grant only through being free, and no grant comes back.   *)
THEOREM LeasesImplementLease == Spec => ImplementsLease
<1>1. IInv /\ [Next]_vars => [L!LNext]_(L!lvars)
  BY StepRefines
<1>2. QED BY <1>1, InitRefines, Invariance, PTL DEF Spec, ImplementsLease, L!LSpec
=============================================================================
