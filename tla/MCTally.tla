------------------------------- MODULE MCTally ------------------------------
(* Tally with two entries, one of which has two gates.                      *)
EXTENDS Tally, TLC

CONSTANTS e0, e1, g0, g1

TwoEntries == {e0, e1}
TwoGates == {g0, g1}
OneShared == (e0 :> {g0, g1} @@ e1 :> {g1})
=============================================================================
