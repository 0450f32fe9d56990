---------------------------- MODULE MCStudioRun ----------------------------
(* Instances of StudioRun for TLC. *)
EXTENDS StudioRun, TLC

CONSTANTS r1, r2, w1, w2, w3

OneRun == {r1}
TwoRuns == {r1, r2}
TwoWorkers == {w1, w2}
ThreeWorkers == {w1, w2, w3}
JustOne == {1}
JustTwo == {2}
OneOrTwo == {1, 2}
Amounts == 0 .. 6

Interchangeable == Permutations(Runs) \cup Permutations(Workers)
=============================================================================
