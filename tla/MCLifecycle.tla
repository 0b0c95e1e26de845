----------------------------- MODULE MCLifecycle ----------------------------
(* Lifecycle with two spaces, and the gates for the managers that store     *)
(* nothing.                                                                 *)
EXTENDS Lifecycle, TLC

Order == <<"space", "gate", "avgs">>
Two == ("space" :> {"s0", "s1"} @@ "gate" :> {"g0"} @@ "avgs" :> {"s0", "s1"})
One == ("space" :> {"s0"} @@ "gate" :> {"g0"} @@ "avgs" :> {"s0"})
Gates == {"gate"}
InTurn == ("s0" :> 0 @@ "s1" :> 1)
First == ("s0" :> 0)
=============================================================================
