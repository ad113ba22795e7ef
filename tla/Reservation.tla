---------------------------- MODULE Reservation ----------------------------
(***************************************************************************)
(* What the queue promises about reservations: a job has at most one       *)
(* owner, it passes from one owner to the next only after it was given up, *)
(* and it is granted at most MaxAttempts times.                            *)
(***************************************************************************)
EXTENDS Naturals

CONSTANTS Jobs, Workers, NoWorker, MaxAttempts

VARIABLES owner,   \* who holds the reservation of each job
          granted  \* how many times each job has been granted

rvars == <<owner, granted>>

RInit == /\ owner = [j \in Jobs |-> NoWorker]
         /\ granted = [j \in Jobs |-> 0]

(* A free job is granted. *)
Grant(j, w) ==
  /\ owner[j] = NoWorker
  /\ granted[j] < MaxAttempts
  /\ owner' = [owner EXCEPT ![j] = w]
  /\ granted' = [granted EXCEPT ![j] = @ + 1]

(* Some jobs are given up: by recovery, a cancel, or a submission. *)
Release ==
  /\ owner' \in [Jobs -> Workers \cup {NoWorker}]
  /\ \A j \in Jobs : owner'[j] \in {owner[j], NoWorker}
  /\ UNCHANGED granted

RNext == Release \/ \E j \in Jobs, w \in Workers : Grant(j, w)

RSpec == RInit /\ [][RNext]_rvars
=============================================================================
