----------------------------- MODULE MCRegistry -----------------------------
(* Registry with three connections of two devices.                          *)
EXTENDS Registry, TLC

CONSTANTS c1, c2, c3, m1, m2

ThreeConns == {c1, c2, c3}
TwoConns == {c1, c2}
TwoMacs == {m1, m2}
OneMac == {m1}
SomeIds == {0, 256, 65535}
FewIds == {0, 1, 65535}
OneDefined == (m1 :> 256 @@ m2 :> NoId)
OneEnforced == (m1 :> "enforce" @@ m2 :> "bypass")
OneId == (m1 :> 1)
OneStrict == (m1 :> "strict")
UsedIds == {256}
OneUsed == {1}
=============================================================================
