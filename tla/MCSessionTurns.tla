--------------------------- MODULE MCSessionTurns ---------------------------
(* Instances of SessionTurns for TLC. *)
EXTENDS SessionTurns, TLC

CONSTANTS r1, r2, k1, v0, v1, c1, c2, b1

TwoRequests == {r1, r2}
OneKey == {k1}
NoKeys == {}
TwoVals == {v0, v1}
NoContexts == {}
OneContext == {c1}
NoRules == {}
OneRule == {b1}
TwoContexts == {c1, c2}

AllKinds == {"send", "regenerate", "continue"}
Sends == {"send"}
Regenerations == {"regenerate"}

Interchangeable == Permutations(Requests)
=============================================================================
