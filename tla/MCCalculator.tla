---------------------------- MODULE MCCalculator ----------------------------
(* Calculator with two real time windows and a reference that is longer, as *)
(* in the measurements.ini that is shipped.                                 *)
EXTENDS Calculator

ShortAndLong == {6, 8}
Longest == {9}
OneSlot == {26}
=============================================================================
