-------------------------------- MODULE Lease --------------------------------
(***************************************************************************)
(* What a lease promises, whatever table it lives in: a resource has at    *)
(* most one holder, it passes from one holder to the next only through     *)
(* being free, and every grant is a new one: a holder that lost the lease  *)
(* is never mistaken for the next.                                         *)
(***************************************************************************)
EXTENDS Naturals

CONSTANT Resources

VARIABLES holder,  \* the grant each resource is held under; 0 when it is free
          issued   \* the grants made so far

lvars == <<holder, issued>>

LInit == /\ holder = [r \in Resources |-> 0]
         /\ issued = 0

(* A free resource is granted under the next number. *)
Grant(r) ==
  /\ holder[r] = 0
  /\ issued' = issued + 1
  /\ holder' = [holder EXCEPT ![r] = issued + 1]

(* Grants end: released, run out, or taken back. *)
End ==
  /\ \A r \in Resources : holder'[r] \in {holder[r], 0}
  /\ holder' = [r \in Resources |-> holder'[r]]
  /\ UNCHANGED issued

LNext == End \/ \E r \in Resources : Grant(r)

LSpec == LInit /\ [][LNext]_lvars
=============================================================================
