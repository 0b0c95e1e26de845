------------------------------ MODULE MCSuspects ----------------------------
(* Suspects with two handlers, one address and two devices, one of which    *)
(* must send the id it is configured with.                                  *)
EXTENDS Suspects, TLC

CONSTANTS c1, c2, i1, m1, m2

TwoConns == {c1, c2}
OneIp == {i1}
TwoMacs == {m1, m2}
OneDefined == {m2}
Handlers == Permutations({c1, c2})
=============================================================================
