---------------------------- MODULE SessionWrites ----------------------------
(***************************************************************************)
(* What the writers of a session are promised: each call is answered once, *)
(* its write reaches the row at most once and on top of every write before *)
(* it, a call answered "saved" has reached it and a call told to come back *)
(* never will.  Only a failure leaves the caller in doubt.                 *)
(***************************************************************************)
EXTENDS Naturals

CONSTANTS
  Sessions,    \* session rows
  Writers,     \* calls that write one of them
  None         \* no answer yet

VARIABLES
  row,         \* how many writes the state of each row is the result of
  asked,       \* the calls made
  answer,      \* what each call was told
  applied      \* how often its write reached the row

vars == <<row, asked, answer, applied>>

Refusals == {"busy", "missing", "cancelled"}
Answers == {"saved", "failed"} \cup Refusals

Init ==
  /\ row = [s \in Sessions |-> 0]
  /\ asked = {}
  /\ answer = [w \in Writers |-> None]
  /\ applied = [w \in Writers |-> 0]

Ask(w) ==
  /\ w \notin asked
  /\ asked' = asked \cup {w}
  /\ UNCHANGED <<row, answer, applied>>

Reach(w) ==
  /\ applied[w] = 0
  /\ applied' = [applied EXCEPT ![w] = 1]
  /\ \E s \in Sessions : row' = [row EXCEPT ![s] = @ + 1]

Save(w) ==
  /\ w \in asked /\ answer[w] = None
  /\ Reach(w)
  /\ answer' = [answer EXCEPT ![w] = "saved"]
  /\ UNCHANGED asked

Decline(w) ==
  /\ w \in asked /\ answer[w] = None
  /\ \E a \in Refusals \cup {"failed"} : answer' = [answer EXCEPT ![w] = a]
  /\ UNCHANGED <<row, asked, applied>>

\* The commit whose confirmation was lost is found to have happened.
SaveUnconfirmed(w) ==
  /\ answer[w] = "failed"
  /\ Reach(w)
  /\ UNCHANGED <<asked, answer>>

Answered(w) == Save(w) \/ Decline(w)
Next == \E w \in Writers : Ask(w) \/ Answered(w) \/ SaveUnconfirmed(w)

Safety == Init /\ [][Next]_vars
Spec == Safety /\ \A w \in Writers : WF_vars(Answered(w))

\* What an answer tells about the row.
AnswersAreTrue ==
  \A w \in Writers :
    /\ applied[w] <= 1
    /\ answer[w] = "saved" => applied[w] = 1
    /\ answer[w] \in Refusals => applied[w] = 0
=============================================================================
