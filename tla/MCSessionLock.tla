---------------------------- MODULE MCSessionLock ----------------------------
(* An instance of SessionLock for TLC. *)
EXTENDS SessionLock, TLC

CONSTANTS s1, s2, o1, a1, a2, g1

OneSession == {s2}
TwoSessions == {s1, s2}
OneOrdinary == {o1}
TwoAcknowledged == {a1, a2}
OneGate == {g1}
Addressed == (o1 :> {s2}) @@ (a1 :> {s1}) @@ (a2 :> {s1, s2}) @@ (g1 :> {s1})
=============================================================================
