----------------------------- MODULE Durations -----------------------------
(***************************************************************************)
(* How build_proposal_payload (backend/app/services/planning/contracts.py) *)
(* divides the target duration of a story among its shots.  A duration is  *)
(* a number of ten-thousandths of a second, the unit the code rounds to.   *)
(***************************************************************************)
EXTENDS Integers

Second == 10000

(* The policy range of a shot, 6 to 12 seconds. *)
MinShot == 6 * Second
MaxShot == 12 * Second

Ceiling(a, b) == (a + b - 1) \div b
RoundHalfUp(a, b) == (2 * a + b) \div (2 * b)

(* round() of Python: a tie goes to the even neighbour. *)
RoundHalfEven(a, b) ==
  LET below == a \div b
      rest == 2 * (a % b)
  IN IF rest < b \/ (rest = b /\ below % 2 = 0) THEN below ELSE below + 1

(* How many shots a target needs at least and allows at most. *)
FewestShots(target) == Ceiling(target, MaxShot)
MostShots(target) == target \div MinShot

(* Mutant: whatever was preferred is taken. *)
ShotCountAsked(target, preferred) == preferred

(* preferred: the number of shots the provider has listed. *)
ShotCount(target, preferred) ==
  LET few == FewestShots(target)
      many == MostShots(target)
      usual == RoundHalfEven(target, 8 * Second)
  IN IF target < MinShot THEN 1
     ELSE IF preferred \in few..many THEN preferred
     ELSE IF usual < few THEN few ELSE IF usual > many THEN many ELSE usual

(* All shots but the last, and what is left for that one. *)
Share(target, count) == RoundHalfUp(target, count)
Remainder(target, count) == target - (count - 1) * Share(target, count)

Duration(target, count, i) ==
  IF i < count THEN Share(target, count) ELSE Remainder(target, count)
=============================================================================
