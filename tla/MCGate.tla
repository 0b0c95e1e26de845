------------------------------- MODULE MCGate -------------------------------
(* A gate with two sensors, the second mounted the other way round, and two *)
(* entries.  Either people cross it one after the other and what it reports *)
(* is followed to the spaces behind it (Delivery), or its sensors send      *)
(* whatever samples they like and the entries take the results (Gate).      *)
EXTENDS Delivery

CONSTANTS
    s0, s1, e0, e1, p0, p1,
    MaxAny     (* the same bound as MaxOwed, for samples without people      *)

VARIABLE orderly   (* which of the two                                      *)

TwoSensors == {s0, s1}
TwoSensorLayout == <<s0, s1>>
SecondReversed == {s1}

TwoEntries == {e0, e1}
ToTwoEntries == <<e0, e1>>
SecondMirrored == {e1}
(* The first entry leads to both spaces, the second to one of them.         *)
SharedSpace == (e0 :> <<p0, p1>>) @@ (e1 :> <<p1>>)

WalkIn == {1}
WalkOut == {-1}

followed == <<variation, remaining, inbox, told, crossed>>

MCInit == DeliveryInit /\ orderly \in BOOLEAN

Orderly == orderly /\ DeliveryNext
Disorderly ==
    /\ ~orderly
    /\ Next /\ Most(owed'.in, owed'.out) <= MaxAny
    /\ UNCHANGED <<passage, followed>>

MCNext == (Orderly \/ Disorderly) /\ UNCHANGED orderly

MCSpec == MCInit /\ [][MCNext]_<<allVars, followed, orderly>>
=============================================================================
