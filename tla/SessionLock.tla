----------------------------- MODULE SessionLock -----------------------------
(***************************************************************************)
(* How the writers of a session row wait for each other: the transactions  *)
(* of lib/session-lock.ts and the gates of a voice call, which share the   *)
(* row.  All of them take a connection of one pool.                        *)
(*                                                                         *)
(* PostgreSQL is external: a lock is granted to any request that conflicts *)
(* with no holder, in no particular order.  Time passes in Expire, which   *)
(* ends the window of an acknowledged call, and in Deadline, which ends    *)
(* the patience of the client with a statement but not the statement.      *)
(***************************************************************************)
EXTENDS Naturals, FiniteSets

CONSTANTS
  Sessions,       \* session rows
  Target,         \* the sessions each call may be about
  Ordinary,       \* calls without options: NOWAIT attempts, then busy
  Acknowledged,   \* acknowledged state saves: one attempt, then one wait
  Gates,          \* renewals of a voice call: SELECT ... FOR SHARE
  Deletable,      \* the sessions their player may delete meanwhile
  MaxRetries,     \* length of RETRY_DELAYS_MS
  MaxWaiters,     \* MAX_ACKNOWLEDGED_WAITERS
  PoolSize,       \* DATABASE_POOL_MAX
  None            \* no value

Writers == Ordinary \cup Acknowledged
Callers == Writers \cup Gates

ASSUME LockAssumption ==
  /\ Ordinary \cap Acknowledged = {} /\ Gates \cap Writers = {}
  /\ Target \in [Callers -> SUBSET Sessions] /\ Deletable \subseteq Sessions
  /\ MaxRetries \in Nat /\ MaxWaiters \in Nat /\ PoolSize \in Nat \ {0}
  /\ IsFiniteSet(Callers)
  /\ None \notin Sessions
  /\ None \notin {"saved", "failed", "busy", "missing", "cancelled"}

VARIABLES
  row,        \* how many writes the state of each session is the result of
  deleted,    \* sessions that were deleted
  call,       \* the local variables of each call
  holders,    \* who holds a lock on each row
  slots,      \* acknowledgedWaiters: sessions with a save that queued for its lock
  applied,    \* ghost: how often the write of a call reached the row
  runs        \* ghost: how often the callback of an acknowledged save was entered

vars == <<row, deleted, call, holders, slots, applied, runs>>

Resting == [pc |-> "idle", session |-> None, attempt |-> 0, waiting |-> FALSE,
            aborted |-> FALSE, expired |-> FALSE, read |-> 0, answer |-> None]

Init ==
  /\ row = [s \in Sessions |-> 0]
  /\ deleted = {}
  /\ call = [c \in Callers |-> Resting]
  /\ holders = [s \in Sessions |-> {}]
  /\ slots = {}
  /\ applied = [w \in Writers |-> 0]
  /\ runs = [c \in Acknowledged |-> 0]

\* The connections of the pool that are taken.
InUse == {c \in Callers : call[c].pc \in {"locking", "body"}}
\* Whether the request of c for its row conflicts with no holder.
Compatible(c) ==
  LET others == holders[call[c].session] \ {c}
  IN others = {} \/ (c \in Gates /\ others \subseteq Gates)
InFlight(c) == call[c].pc \notin {"idle", "orphan", "done"}

GoTo(c, stage) == call' = [call EXCEPT ![c].pc = stage]
Unlock(c) == holders' = [s \in Sessions |-> holders[s] \ {c}]
\* The finally of the queued transaction.
FreeSlot(c) == slots' = IF call[c].waiting THEN slots \ {call[c].session} ELSE slots

\* The call ends and everything it holds is given back.
Answer(c, a) ==
  /\ call' = [call EXCEPT ![c] = [Resting EXCEPT !.pc = "done", !.answer = a]]
  /\ Unlock(c) /\ FreeSlot(c)
  /\ UNCHANGED <<deleted, runs>>
Refuse(c, a) == Answer(c, a) /\ UNCHANGED <<row, applied>>

-----------------------------------------------------------------------------
(* One attempt at the row.                                                 *)

Call(c, s) ==
  /\ call[c].pc = "idle"
  /\ call' = [call EXCEPT ![c].pc = "connecting", ![c].session = s]
  /\ UNCHANGED <<row, deleted, holders, slots, applied, runs>>

\* db.transaction has its connection; an acknowledged save looks at its request
\* and its window before it sends the first statement.
Connect(c) ==
  /\ call[c].pc = "connecting" /\ Cardinality(InUse) < PoolSize
  /\ \/ /\ call[c].aborted
        /\ Refuse(c, "cancelled")
     \/ /\ ~call[c].aborted /\ call[c].expired
        /\ Refuse(c, "busy")
     \/ /\ ~call[c].aborted /\ ~call[c].expired
        /\ GoTo(c, "locking")
        /\ UNCHANGED <<row, deleted, holders, slots, applied, runs>>

TakeWhateverHappened(c) == TRUE
\* What an acknowledged save asks again once the lock is granted.
StillWanted(c) == ~call[c].aborted /\ ~call[c].expired

ReadOnce(c) == IF call[c].attempt = 0 THEN row[call[c].session] ELSE call[c].read
ReadNow(c) == row[call[c].session]

\* The row is locked and read, and the callback entered.
Acquire(c) ==
  /\ call[c].pc = "locking" /\ Compatible(c)
  /\ \/ /\ ~StillWanted(c)
        /\ Refuse(c, IF call[c].aborted THEN "cancelled" ELSE "busy")
     \/ /\ StillWanted(c) /\ call[c].session \in deleted
        /\ Refuse(c, "missing")
     \/ /\ StillWanted(c) /\ call[c].session \notin deleted
        /\ call' = [call EXCEPT ![c].pc = "body", ![c].read = ReadNow(c)]
        /\ holders' = [holders EXCEPT ![call[c].session] = @ \cup {c}]
        /\ runs' = [a \in Acknowledged |-> IF a = c THEN runs[a] + 1 ELSE runs[a]]
        /\ UNCHANGED <<row, deleted, slots, applied>>

CountDown(n) == n - 1
CountUp(n) == n + 1

\* An ordinary call rolls back and sleeps before its next attempt, if any is left.
RetryLater(c) ==
  \/ /\ call[c].attempt >= MaxRetries
     /\ Refuse(c, "busy")
  \/ /\ call[c].attempt < MaxRetries
     /\ call' = [call EXCEPT ![c].pc = "sleeping", ![c].attempt = CountUp(@), ![c].read = 0]
     /\ Unlock(c)
     /\ UNCHANGED <<row, deleted, slots, applied, runs>>

Wake(c) ==
  /\ call[c].pc = "sleeping"
  /\ GoTo(c, "connecting")
  /\ UNCHANGED <<row, deleted, holders, slots, applied, runs>>

\* NOWAIT finds the row held: nobody waits for it on a connection.
Miss(c) ==
  /\ call[c].pc = "locking" /\ ~Compatible(c)
  /\ \/ /\ c \in Ordinary
        /\ RetryLater(c)
     \/ /\ c \in Acknowledged /\ ~call[c].waiting
        /\ GoTo(c, "missed")
        /\ UNCHANGED <<row, deleted, holders, slots, applied, runs>>

-----------------------------------------------------------------------------
(* The one wait of an acknowledged save.                                   *)

\* Only a save that found its row held queues for it, one per session and
\* MaxWaiters in the process.
Queue(c) ==
  /\ call[c].pc = "missed"
  /\ \/ /\ call[c].aborted
        /\ Refuse(c, "cancelled")
     \/ /\ ~call[c].aborted
        /\ \/ call[c].expired
           \/ call[c].session \in slots
           \/ Cardinality(slots) >= MaxWaiters
        /\ Refuse(c, "busy")
     \/ /\ StillWanted(c)
        /\ call[c].session \notin slots /\ Cardinality(slots) < MaxWaiters
        /\ call' = [call EXCEPT ![c].pc = "connecting", ![c].waiting = TRUE]
        /\ slots' = slots \cup {call[c].session}
        /\ UNCHANGED <<row, deleted, holders, applied, runs>>

\* lock_timeout, set to what was left of the window.
LockTimeout(c) ==
  /\ call[c].pc = "locking" /\ call[c].waiting /\ call[c].expired /\ ~Compatible(c)
  /\ Refuse(c, "busy")

FreeAtOnce(c) == slots' = slots \ {call[c].session}
\* What a request that is gone gives back before its transaction has ended.
StopWaiting(c) == UNCHANGED slots

\* The player leaves, or the window of the save closes.
Abort(c) ==
  /\ c \in Acknowledged /\ InFlight(c) /\ ~call[c].aborted
  /\ call' = [call EXCEPT ![c].aborted = TRUE]
  /\ StopWaiting(c)
  /\ UNCHANGED <<row, deleted, holders, applied, runs>>

Expire(c) ==
  /\ c \in Acknowledged /\ InFlight(c) /\ ~call[c].expired
  /\ call' = [call EXCEPT ![c].expired = TRUE]
  /\ UNCHANGED <<row, deleted, holders, slots, applied, runs>>

-----------------------------------------------------------------------------
(* The callback, and how its transaction ends.                             *)

\* What the callback computed from the row it read is written.
Written(c) ==
  /\ row' = [row EXCEPT ![call[c].session] = call[c].read + 1]
  /\ applied' = [applied EXCEPT ![c] = @ + 1]

Commit(c) ==
  /\ c \in Writers /\ call[c].pc = "body"
  /\ \/ /\ call[c].aborted
        /\ Refuse(c, "cancelled")
     \/ /\ ~call[c].aborted
        /\ Answer(c, "saved")
        /\ Written(c)

TakeForBusyRow(c) ==
  /\ GoTo(c, "missed") /\ Unlock(c)
  /\ UNCHANGED <<row, deleted, slots, applied, runs>>
\* acquisitionBusy is not set: the error is the callback's own.
Rethrow(c) == Refuse(c, "failed")

\* A statement of the callback itself met a lock it could not get: SQLSTATE
\* 55P03 again, which only the acquisition of the row may be retried for.
BodyBlocked(c) ==
  /\ c \in Writers /\ call[c].pc = "body"
  /\ \/ /\ c \in Ordinary
        /\ RetryLater(c)
     \/ /\ c \in Acknowledged /\ call[c].waiting
        /\ Refuse(c, "busy")
     \/ /\ c \in Acknowledged /\ ~call[c].waiting
        /\ Rethrow(c)

BodyFails(c) ==
  /\ c \in Writers /\ call[c].pc = "body"
  /\ Refuse(c, "failed")

\* A statement outlives the deadline of its client: the connection is dropped
\* and the call fails, while the backend still holds the row.
Deadline(c) ==
  /\ c \in Writers /\ call[c].pc = "body"
  /\ call' = [call EXCEPT ![c] = [Resting EXCEPT !.pc = "orphan", !.answer = "failed",
                                  !.session = call[c].session, !.read = call[c].read]]
  /\ FreeSlot(c)
  /\ UNCHANGED <<row, deleted, holders, applied, runs>>

\* The backend rolls back, or finds it had been told to commit.
BackendEnds(c) ==
  /\ call[c].pc = "orphan"
  /\ call' = [call EXCEPT ![c] = [Resting EXCEPT !.pc = "done", !.answer = "failed"]]
  /\ Unlock(c)
  /\ Written(c) \/ UNCHANGED <<row, applied>>
  /\ UNCHANGED <<deleted, slots, runs>>

\* No connection in time, or the connection is lost before the row is locked.
Disconnect(c) ==
  /\ c \in Writers /\ call[c].pc \in {"connecting", "locking"}
  /\ Refuse(c, "failed")

GateEnds(g) ==
  /\ g \in Gates /\ call[g].pc = "body"
  /\ Refuse(g, "saved")

DeleteSession(s) ==
  /\ s \in Deletable \ deleted /\ holders[s] = {}
  /\ deleted' = deleted \cup {s}
  /\ UNCHANGED <<row, call, holders, slots, applied, runs>>

-----------------------------------------------------------------------------
\* What a call, its transaction or the timers of the process do by themselves.
Progress(c) ==
  \/ Connect(c) \/ Acquire(c) \/ Miss(c) \/ Wake(c) \/ Queue(c) \/ LockTimeout(c)
  \/ Commit(c) \/ BackendEnds(c) \/ GateEnds(c)

Next ==
  \/ \E c \in Callers :
       \/ \E s \in Target[c] : Call(c, s)
       \/ Progress(c)
       \/ Abort(c) \/ Expire(c)
       \/ BodyBlocked(c) \/ BodyFails(c) \/ Deadline(c) \/ Disconnect(c)
  \/ \E s \in Sessions : DeleteSession(s)

Fairness == \A c \in Callers : WF_vars(Progress(c) \/ Expire(c))

Spec == Init /\ [][Next]_vars /\ Fairness

-----------------------------------------------------------------------------
(* Properties.                                                             *)

Stages == {"idle", "connecting", "locking", "sleeping", "missed", "body", "orphan", "done"}
Outcomes == {"saved", "failed", "busy", "missing", "cancelled"}

\* The shape of the rows, the calls, the locks and the waiter slots.
TypeOK ==
  /\ row \in [Sessions -> Nat] /\ deleted \subseteq Sessions
  /\ call \in [Callers -> [pc : Stages, session : Sessions \cup {None}, attempt : Nat,
                           waiting : BOOLEAN, aborted : BOOLEAN, expired : BOOLEAN,
                           read : Nat, answer : Outcomes \cup {None}]]
  /\ holders \in [Sessions -> SUBSET Callers]
  /\ slots \subseteq Sessions
  /\ applied \in [Writers -> Nat] /\ runs \in [Acknowledged -> Nat]

\* Acknowledged saves whose one queued transaction is still under way.
Queued == {c \in Acknowledged : call[c].waiting /\ InFlight(c)}

\* At most MaxWaiters state saves of the process queue inside the database, at
\* most one of them for a session, and a slot is taken exactly as long as the
\* call that took it is under way: not one is lost on any exit, and none is
\* given back because the player merely stopped waiting (session-lock.ts:108-119).
BoundedQueue ==
  /\ Cardinality(Queued) <= MaxWaiters
  /\ slots = {call[c].session : c \in Queued}
  /\ \A c, d \in Queued : call[c].session = call[d].session => c = d

\* The callback of an acknowledged save is entered at most once: a 55P03 raised
\* inside it is not taken for a busy row, on which the save would be replayed.
CallbackRunsOnce == \A c \in Acknowledged : runs[c] <= 1

\* However long a save waited for a connection and then for its row, its
\* callback is not entered for a request that is gone or after its window, and
\* a request known to be gone when the callback ends is not written.
GoneIsNotSaved ==
  [][\A c \in Acknowledged :
       /\ runs'[c] > runs[c] => ~call[c].aborted /\ ~call[c].expired
       /\ applied'[c] > applied[c] /\ call[c].pc # "orphan" => ~call[c].aborted]_vars

\* What the callers are promised (SessionWrites): no write is lost under
\* another one, none is made twice by retries, a caller told to come back has
\* changed nothing, and every call is answered.
Promise == INSTANCE SessionWrites WITH
  asked   <- {w \in Writers : call[w].pc # "idle"},
  answer  <- [w \in Writers |-> call[w].answer]
KeepsPromise == Promise!Spec
=============================================================================
