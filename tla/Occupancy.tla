----------------------------- MODULE Occupancy ------------------------------
(***************************************************************************)
(* What a space promises (Space implements it): people cross its boundary,  *)
(* and every crossing is counted, once and in the order it came, unless the *)
(* space is closed; a closed space forgets who is in it.  It knows nothing  *)
(* of entries, gates, orientations, registers, timers or offers.            *)
(***************************************************************************)
EXTENDS Integers, Sequences

CONSTANT AcceptNegatives   (* TRUE: the occupancy may be negative            *)

VARIABLES
    waiting,   (* the crossings not counted yet, 1 for in and -1 for out     *)
    people,    (* the occupancy                                              *)
    closed     (* the space is being kept empty                              *)

vars == <<waiting, people, closed>>

Init ==
    /\ waiting = <<>>
    /\ people = 0
    /\ closed = FALSE

(* Somebody crosses the boundary.                                           *)
Arrive ==
    /\ \E d \in {-1, 1} : waiting' = Append(waiting, d)
    /\ UNCHANGED <<people, closed>>

(* Who leaves a space that is empty already was never in it.                *)
After(d) == IF ~AcceptNegatives /\ people + d < 0 THEN 0 ELSE people + d

(* The first crossing that waits is counted.                                *)
Count ==
    /\ ~closed
    /\ waiting # <<>>
    /\ people' = After(Head(waiting))
    /\ waiting' = Tail(waiting)
    /\ UNCHANGED closed

(* In a closed space it is not.                                             *)
Ignore ==
    /\ closed
    /\ waiting # <<>>
    /\ waiting' = Tail(waiting)
    /\ UNCHANGED <<people, closed>>

(* A closed space is emptied, and may be opened with it.                    *)
Empty ==
    /\ closed
    /\ people' = 0
    /\ closed' \in BOOLEAN
    /\ UNCHANGED waiting

(* The space is closed, or opened without having been emptied.              *)
Turn ==
    /\ closed' = ~closed
    /\ UNCHANGED <<waiting, people>>

Next == Arrive \/ Count \/ Ignore \/ Empty \/ Turn

Spec == Init /\ [][Next]_vars
=============================================================================
