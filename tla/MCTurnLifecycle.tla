-------------------------- MODULE MCTurnLifecycle --------------------------
(* Instances of TurnLifecycle for TLC. *)
EXTENDS TurnLifecycle, TLC

CONSTANTS r1, r2, r3, s1, s2

TwoTurns == {r1, r2}
ThreeTurns == {r1, r2, r3}
OneSession == {s1}
TwoSessions == {s1, s2}
SameSession == [r \in Turns |-> s1]
ThirdElsewhere == [r \in Turns |-> IF r = r3 THEN s2 ELSE s1]

Interchangeable == Permutations(Turns)
=============================================================================
