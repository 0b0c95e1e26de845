------------------------------- MODULE MCSpace ------------------------------
(* Space with two entries, two gates of which one belongs to both entries.  *)
EXTENDS Space, TLC

CONSTANTS e0, e1, g0, g1

TwoEntries == {e0, e1}
TwoGates == {g0, g1}
SharedGate == (e0 :> {g0, g1} @@ e1 :> {g1})
SecondEntry == {e1}
SharedReversed == {<<e1, g1>>}
=============================================================================
