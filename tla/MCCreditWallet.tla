--------------------------- MODULE MCCreditWallet ---------------------------
(* Instances of CreditWallet for TLC. *)
EXTENDS CreditWallet, TLC

CONSTANTS s1, s2, p1, d1, v1, v2

TwoSteps == {s1, s2}
OneStep == {s1}
OneReply == {p1}
OneDraw == {d1}
NoDraw == {}
TwoVisitors == {v1, v2}
ZeroToTwo == 0 .. 2
OneAndTwo == {1, 2}
JustTwo == {2}
Amounts == 0 .. 8

Interchangeable == Permutations(Steps) \cup Permutations(Visitors)
=============================================================================
