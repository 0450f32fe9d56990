-------------------------- MODULE SessionLockProofs --------------------------
(***************************************************************************)
(* What holds of any number of calls, sessions and connections: the queue  *)
(* is bounded and gives its places back, callbacks run once, and every     *)
(* step of the lock is one the writers were promised.                      *)
(*                                                                         *)
(* The argument is that a write is in the hands of one call.  From the     *)
(* moment the row is locked for a writer until its transaction has ended,  *)
(* also when its client has given up, nobody else holds the row, so what   *)
(* it read is what the row still says.                                     *)
(***************************************************************************)
EXTENDS SessionLock, FiniteSetTheorems, TLAPS

-----------------------------------------------------------------------------
(* The inductive invariant.                                                *)

CallType ==
  [pc : Stages, session : Sessions \cup {None}, attempt : Nat, waiting : BOOLEAN,
   aborted : BOOLEAN, expired : BOOLEAN, read : Nat, answer : Outcomes \cup {None}]

\* The row is in the hands of c.
Owns(c) == c \in Writers /\ call[c].pc \in {"body", "orphan"}

\* What is known of a call at each of its stages.
Own(c) ==
  /\ call[c].pc \notin {"idle", "done"} => call[c].session \in Sessions
  /\ call[c].waiting => c \in Acknowledged /\ call[c].pc # "idle"
  /\ call[c].answer # None <=> call[c].pc \in {"orphan", "done"}
  /\ call[c].pc = "orphan" => call[c].answer = "failed" /\ c \in Writers
  /\ call[c].pc = "missed" => c \in Acknowledged
  /\ c \in Writers /\ call[c].pc # "done" => applied[c] = 0
  /\ c \in Acknowledged => /\ runs[c] <= 1
                           /\ call[c].pc \notin {"body", "orphan", "done"} => runs[c] = 0
  /\ Owns(c) => /\ holders[call[c].session] = {c}
                /\ call[c].read = row[call[c].session]

\* The places of the queue are those of the calls that took them.
Places ==
  /\ IsFiniteSet(slots) /\ Cardinality(slots) <= MaxWaiters
  /\ slots = {call[c].session : c \in Queued}
  /\ \A c, d \in Queued : call[c].session = call[d].session => c = d

Sound == TypeOK /\ (\A c \in Callers : Own(c)) /\ Places

-----------------------------------------------------------------------------
(* Types.                                                                  *)

LEMMA CallTyped == TypeOK <=>
  /\ row \in [Sessions -> Nat] /\ deleted \subseteq Sessions
  /\ call \in [Callers -> CallType]
  /\ holders \in [Sessions -> SUBSET Callers]
  /\ slots \subseteq Sessions
  /\ applied \in [Writers -> Nat] /\ runs \in [Acknowledged -> Nat]
BY DEF TypeOK, CallType

LEMMA Records ==
  ASSUME NEW k \in CallType
  PROVE  /\ \A p \in Stages : [k EXCEPT !.pc = p] \in CallType
         /\ \A p \in Stages, s \in Sessions : [k EXCEPT !.pc = p, !.session = s] \in CallType
         /\ \A p \in Stages, n \in Nat : [k EXCEPT !.pc = p, !.read = n] \in CallType
         /\ \A p \in Stages, n \in Nat : [k EXCEPT !.pc = p, !.attempt = n, !.read = 0] \in CallType
         /\ \A p \in Stages : [k EXCEPT !.pc = p, !.waiting = TRUE] \in CallType
         /\ [k EXCEPT !.aborted = TRUE] \in CallType
         /\ [k EXCEPT !.expired = TRUE] \in CallType
BY DEF CallType

LEMMA Rests ==
  /\ Resting \in CallType
  /\ \A a \in Outcomes : [Resting EXCEPT !.pc = "done", !.answer = a] \in CallType
  /\ \A s \in Sessions, n \in Nat :
       [Resting EXCEPT !.pc = "orphan", !.answer = "failed", !.session = s, !.read = n] \in CallType
BY DEF Resting, CallType, Stages, Outcomes

LEMMA Distinct == None \notin Outcomes /\ None \notin Sessions
BY LockAssumption DEF Outcomes

-----------------------------------------------------------------------------
(* Steps of one call leave the others alone.                               *)

\* What c does is invisible to those who own a row.
LEMMA OthersOwn ==
  ASSUME Sound, NEW c \in Callers, NEW k, call' = [call EXCEPT ![c] = k],
         \A s \in Sessions, d \in Callers \ {c} : holders[s] = {d} => holders'[s] = {d},
         \A s \in Sessions : row'[s] = row[s] \/ holders[s] = {c},
         \A w \in Writers \ {c} : applied'[w] = applied[w],
         \A a \in Acknowledged \ {c} : runs'[a] = runs[a]
  PROVE  \A d \in Callers \ {c} : Own(d)'
<1>1. SUFFICES ASSUME NEW d \in Callers \ {c} PROVE Own(d)'
  OBVIOUS
<1>2. Own(d) /\ call'[d] = call[d]
  BY CallTyped DEF Sound
<1>3. (d \in Writers => applied'[d] = applied[d]) /\ (d \in Acknowledged => runs'[d] = runs[d])
  OBVIOUS
<1>4. Owns(d) => /\ holders'[call[d].session] = {d}
                 /\ row'[call[d].session] = row[call[d].session]
  <2>1. SUFFICES ASSUME Owns(d)
                 PROVE  /\ holders'[call[d].session] = {d}
                        /\ row'[call[d].session] = row[call[d].session]
    OBVIOUS
  <2>2. call[d].session \in Sessions /\ holders[call[d].session] = {d}
    BY <1>2, <2>1 DEF Own, Owns
  <2>. QED BY <2>2
<1>. QED BY <1>2, <1>3, <1>4 DEF Own, Owns

LEMMA PlacesKept ==
  ASSUME Sound, slots' = slots, Queued' = Queued,
         \A q \in Queued : call'[q].session = call[q].session
  PROVE  Places'
BY DEF Sound, Places

LEMMA PlacesLeft ==
  ASSUME Sound, NEW c \in Callers, InFlight(c), FreeSlot(c),
         call'[c].pc \in {"orphan", "done"},
         \A d \in Callers \ {c} : call'[d] = call[d]
  PROVE  Places'
<1>1. \A d \in Callers \ {c} : call'[d] = call[d]
  OBVIOUS
<1>2. Queued' = Queued \ {c}
  BY <1>1 DEF Queued, InFlight, Callers, Writers
<1>3. call[c].waiting <=> c \in Queued
  BY CallTyped DEF Queued, Sound, Own
<1>4. \A q \in Queued' : q \in Queued /\ q # c /\ call'[q].session = call[q].session
  BY <1>1, <1>2 DEF Queued, Callers, Writers
<1>5. slots' = {call'[q].session : q \in Queued'}
  <2>1. CASE c \in Queued
    <3>1. slots' = slots \ {call[c].session}
      BY <1>3, <2>1 DEF FreeSlot
    <3>2. slots = {call[q].session : q \in Queued} /\ \A q \in Queued \ {c} : call[q].session # call[c].session
      BY <2>1 DEF Sound, Places
    <3>. QED BY <1>2, <1>4, <3>1, <3>2
  <2>2. CASE c \notin Queued
    BY <1>2, <1>3, <1>4, <2>2 DEF FreeSlot, Sound, Places
  <2>. QED BY <2>1, <2>2
<1>6. IsFiniteSet(slots') /\ Cardinality(slots') <= MaxWaiters
  <2>1. IsFiniteSet(slots) /\ Cardinality(slots) \in Nat /\ Cardinality(slots) <= MaxWaiters /\ MaxWaiters \in Nat
    BY FS_CardinalityType, LockAssumption DEF Sound, Places
  <2>2. slots' = slots \/ slots' = slots \ {call[c].session}
    BY DEF FreeSlot
  <2>3. CASE slots' = slots \ {call[c].session}
    <3>1. /\ IsFiniteSet(slots \ {call[c].session})
          /\ Cardinality(slots \ {call[c].session}) =
               IF call[c].session \in slots THEN Cardinality(slots) - 1 ELSE Cardinality(slots)
      BY <2>1, FS_RemoveElement
    <3>. QED BY <2>1, <2>3, <3>1
  <2>. QED BY <2>1, <2>2, <2>3
<1>7. \A p, q \in Queued' : call'[p].session = call'[q].session => p = q
  BY <1>4 DEF Sound, Places
<1>. QED BY <1>5, <1>6, <1>7 DEF Places

LEMMA PlacesTaken ==
  ASSUME Sound, NEW c \in Acknowledged, call[c].pc = "missed",
         call[c].session \notin slots, Cardinality(slots) < MaxWaiters,
         slots' = slots \cup {call[c].session},
         call'[c].waiting, call'[c].pc = "connecting", call'[c].session = call[c].session,
         \A d \in Callers \ {c} : call'[d] = call[d]
  PROVE  Places'
<1>1. Queued' = Queued \cup {c}
  BY DEF Queued, InFlight, Callers, Writers
<1>2. /\ slots = {call[q].session : q \in Queued}
      /\ \A p, q \in Queued : call[p].session = call[q].session => p = q
  BY DEF Sound, Places
<1>3. c \notin Queued /\ \A q \in Queued : call[q].session # call[c].session
  BY <1>2
<1>4. \A q \in Queued : call'[q].session = call[q].session
  BY <1>3 DEF Queued, Callers, Writers
<1>5. slots' = {call'[q].session : q \in Queued'}
  BY <1>1, <1>2, <1>4
<1>6. \A p, q \in Queued' : call'[p].session = call'[q].session => p = q
  BY <1>1, <1>2, <1>3, <1>4
<1>7. IsFiniteSet(slots') /\ Cardinality(slots') <= MaxWaiters
  <2>1. IsFiniteSet(slots) /\ Cardinality(slots) \in Nat /\ MaxWaiters \in Nat
    BY FS_CardinalityType, LockAssumption DEF Sound, Places
  <2>2. /\ IsFiniteSet(slots \cup {call[c].session})
        /\ Cardinality(slots \cup {call[c].session}) = Cardinality(slots) + 1
    BY <2>1, FS_AddElement
  <2>. QED BY <2>1, <2>2
<1>. QED BY <1>5, <1>6, <1>7 DEF Places

\* A call that holds its row for writing is the only one to hold it.
LEMMA GivenBack ==
  ASSUME Sound, NEW c \in Callers, Unlock(c)
  PROVE  /\ holders' \in [Sessions -> SUBSET Callers]
         /\ \A s \in Sessions, d \in Callers \ {c} : holders[s] = {d} => holders'[s] = {d}
BY CallTyped DEF Sound, Unlock

LEMMA WrittenTyped ==
  ASSUME Sound, NEW c \in Callers, Owns(c), Written(c)
  PROVE  /\ row' \in [Sessions -> Nat] /\ applied' \in [Writers -> Nat]
         /\ row' = [row EXCEPT ![call[c].session] = @ + 1]
         /\ call[c].session \in Sessions /\ applied[c] = 0
         /\ \A s \in Sessions : row'[s] = row[s] \/ holders[s] = {c}
         /\ \A w \in Writers \ {c} : applied'[w] = applied[w]
<1>1. /\ call[c].session \in Sessions /\ holders[call[c].session] = {c}
      /\ call[c].read = row[call[c].session] /\ applied[c] = 0 /\ c \in Writers
  BY DEF Sound, Own, Owns
<1>2. row \in [Sessions -> Nat] /\ applied \in [Writers -> Nat]
  BY CallTyped DEF Sound
<1>3. row' = [row EXCEPT ![call[c].session] = @ + 1]
  BY <1>1, <1>2 DEF Written
<1>4. applied' = [applied EXCEPT ![c] = @ + 1]
  BY DEF Written
<1>. QED BY <1>1, <1>2, <1>3, <1>4

-----------------------------------------------------------------------------
(* The ends of a call.                                                     *)

LEMMA AnswerKeeps ==
  ASSUME Sound, NEW c \in Callers, InFlight(c), NEW a \in Outcomes, Answer(c, a),
         UNCHANGED <<row, applied>> \/ (Owns(c) /\ Written(c))
  PROVE  Sound'
<1>. DEFINE k == [Resting EXCEPT !.pc = "done", !.answer = a]
<1>1. /\ k \in CallType /\ k.pc = "done" /\ k.answer = a /\ ~ k.waiting
      /\ a # None
  BY Rests, Distinct DEF Resting
<1>2. call' = [call EXCEPT ![c] = k] /\ Unlock(c) /\ FreeSlot(c) /\ UNCHANGED <<deleted, runs>>
  BY DEF Answer
<1>. HIDE DEF k
<1>3. /\ row' \in [Sessions -> Nat] /\ applied' \in [Writers -> Nat]
      /\ \A s \in Sessions : row'[s] = row[s] \/ holders[s] = {c}
      /\ \A w \in Writers \ {c} : applied'[w] = applied[w]
  BY CallTyped, WrittenTyped DEF Sound
<1>4. TypeOK'
  <2>1. call' \in [Callers -> CallType] /\ deleted' \subseteq Sessions /\ runs' \in [Acknowledged -> Nat]
    BY <1>1, <1>2, CallTyped DEF Sound
  <2>2. slots' \subseteq Sessions
    BY <1>2, CallTyped DEF Sound, FreeSlot
  <2>3. holders' \in [Sessions -> SUBSET Callers]
    BY <1>2, GivenBack
  <2>. QED BY <1>3, <2>1, <2>2, <2>3 DEF TypeOK, CallType
<1>5. \A d \in Callers \ {c} : Own(d)'
  <2>1. \A s \in Sessions, d \in Callers \ {c} : holders[s] = {d} => holders'[s] = {d}
    BY <1>2, GivenBack
  <2>2. \A b \in Acknowledged \ {c} : runs'[b] = runs[b]
    BY <1>2
  <2>. QED BY <1>2, <1>3, <2>1, <2>2, OthersOwn
<1>6. Own(c)'
  <2>1. call'[c] = k
    BY <1>2, CallTyped DEF Sound
  <2>2. c \in Acknowledged => runs'[c] <= 1
    BY <1>2 DEF Sound, Own
  <2>. QED BY <1>1, <2>1, <2>2 DEF Own, Owns
<1>7. Places'
  <2>1. call'[c].pc \in {"orphan", "done"} /\ \A d \in Callers \ {c} : call'[d] = call[d]
    BY <1>1, <1>2, CallTyped DEF Sound
  <2>. QED BY <1>2, <2>1, PlacesLeft
<1>. QED BY <1>4, <1>5, <1>6, <1>7 DEF Sound

LEMMA RefuseKeeps ==
  ASSUME Sound, NEW c \in Callers, InFlight(c), NEW a \in Outcomes, Refuse(c, a)
  PROVE  Sound'
BY AnswerKeeps DEF Refuse

\* The client has given up; the row stays in the hands of the backend.
LEMMA DeadlineKeeps ==
  ASSUME Sound, NEW c \in Callers, Deadline(c)
  PROVE  Sound'
<1>. DEFINE k == [Resting EXCEPT !.pc = "orphan", !.answer = "failed",
                                 !.session = call[c].session, !.read = call[c].read]
<1>1. /\ Owns(c) /\ InFlight(c)
      /\ call' = [call EXCEPT ![c] = k] /\ FreeSlot(c)
      /\ UNCHANGED <<row, deleted, holders, applied, runs>>
  BY DEF Deadline, Owns, InFlight
<1>2. /\ call[c].session \in Sessions /\ holders[call[c].session] = {c}
      /\ call[c].read = row[call[c].session] /\ applied[c] = 0
      /\ call[c].read \in Nat
  BY <1>1, CallTyped DEF Sound, Own, Owns, CallType
<1>3. /\ k \in CallType /\ k.pc = "orphan" /\ k.answer = "failed" /\ ~ k.waiting
      /\ k.session = call[c].session /\ k.read = call[c].read
  BY <1>2, Rests DEF Resting
<1>4. "failed" # None
  BY LockAssumption
<1>. HIDE DEF k
<1>5. TypeOK'
  <2>1. call' \in [Callers -> CallType]
    BY <1>1, <1>3, CallTyped DEF Sound
  <2>2. slots' \subseteq Sessions
    BY <1>1, CallTyped DEF Sound, FreeSlot
  <2>. QED BY <1>1, <2>1, <2>2, CallTyped DEF Sound, TypeOK, CallType
<1>6. \A d \in Callers \ {c} : Own(d)'
  BY <1>1, OthersOwn
<1>7. Own(c)'
  <2>1. call'[c] = k
    BY <1>1, CallTyped DEF Sound
  <2>2. c \in Acknowledged => runs'[c] <= 1
    BY <1>1 DEF Sound, Own
  <2>. QED BY <1>1, <1>2, <1>3, <1>4, <2>1, <2>2 DEF Own, Owns
<1>8. Places'
  <2>1. call'[c].pc \in {"orphan", "done"} /\ \A d \in Callers \ {c} : call'[d] = call[d]
    BY <1>1, <1>3, CallTyped DEF Sound
  <2>. QED BY <1>1, <2>1, PlacesLeft
<1>. QED BY <1>5, <1>6, <1>7, <1>8 DEF Sound

LEMMA BackendEndsKeeps ==
  ASSUME Sound, NEW c \in Callers, BackendEnds(c)
  PROVE  Sound'
<1>. DEFINE k == [Resting EXCEPT !.pc = "done", !.answer = "failed"]
<1>1. /\ k \in CallType /\ k.pc = "done" /\ k.answer = "failed" /\ ~ k.waiting
      /\ "failed" # None
  BY Rests, LockAssumption DEF Resting, Outcomes
<1>2. /\ call[c].pc = "orphan" /\ call' = [call EXCEPT ![c] = k] /\ Unlock(c)
      /\ Written(c) \/ UNCHANGED <<row, applied>>
      /\ UNCHANGED <<deleted, slots, runs>>
  BY DEF BackendEnds
<1>. HIDE DEF k
<1>3. Owns(c) /\ c \in Writers /\ ~ InFlight(c)
  BY <1>2 DEF Owns, Sound, Own, InFlight
<1>4. /\ row' \in [Sessions -> Nat] /\ applied' \in [Writers -> Nat]
      /\ \A s \in Sessions : row'[s] = row[s] \/ holders[s] = {c}
      /\ \A w \in Writers \ {c} : applied'[w] = applied[w]
  BY <1>2, <1>3, CallTyped, WrittenTyped DEF Sound
<1>5. /\ call'[c] = k
      /\ \A d \in Callers \ {c} : call'[d] = call[d]
      /\ call' \in [Callers -> CallType]
  BY <1>1, <1>2, CallTyped DEF Sound
<1>6. TypeOK'
  <2>1. holders' \in [Sessions -> SUBSET Callers]
    BY <1>2, GivenBack
  <2>. QED BY <1>2, <1>4, <1>5, <2>1, CallTyped DEF Sound, TypeOK, CallType
<1>7. \A d \in Callers \ {c} : Own(d)'
  <2>1. \A s \in Sessions, d \in Callers \ {c} : holders[s] = {d} => holders'[s] = {d}
    BY <1>2, GivenBack
  <2>2. \A b \in Acknowledged \ {c} : runs'[b] = runs[b]
    BY <1>2
  <2>. QED BY <1>2, <1>4, <2>1, <2>2, OthersOwn
<1>8. Own(c)'
  <2>1. c \in Acknowledged => runs'[c] <= 1
    BY <1>2 DEF Sound, Own
  <2>. QED BY <1>1, <1>5, <2>1 DEF Own, Owns
<1>9. Places'
  <2>1. Queued' = Queued /\ \A q \in Queued : call'[q].session = call[q].session
    BY <1>1, <1>3, <1>5 DEF Queued, InFlight, Callers, Writers
  <2>. QED BY <1>2, <2>1, PlacesKept
<1>. QED BY <1>6, <1>7, <1>8, <1>9 DEF Sound

-----------------------------------------------------------------------------
(* The steps of a call under way.                                          *)

Underway == {"connecting", "locking", "sleeping", "missed"}

\* c goes on without the row, or gives it back for another attempt.
LEMMA MoveKeeps ==
  ASSUME Sound, NEW c \in Callers, NEW k \in CallType, call' = [call EXCEPT ![c] = k],
         UNCHANGED <<row, deleted, slots, applied, runs>>, UNCHANGED holders \/ Unlock(c),
         k.pc \in Underway, k.pc = "missed" => c \in Acknowledged,
         call[c].pc \notin {"orphan", "done"},
         c \in Acknowledged => call[c].pc # "body",
         k.session \in Sessions, call[c].pc # "idle" => k.session = call[c].session,
         k.waiting = call[c].waiting, k.answer = call[c].answer
  PROVE  Sound'
<1>1. /\ call'[c] = k
      /\ \A d \in Callers \ {c} : call'[d] = call[d]
      /\ call' \in [Callers -> CallType]
  BY CallTyped DEF Sound
<1>2. TypeOK'
  <2>1. holders' \in [Sessions -> SUBSET Callers]
    BY GivenBack, CallTyped DEF Sound
  <2>. QED BY <1>1, <2>1, CallTyped DEF Sound, TypeOK, CallType
<1>3. \A d \in Callers \ {c} : Own(d)'
  <2>1. \A s \in Sessions, d \in Callers \ {c} : holders[s] = {d} => holders'[s] = {d}
    BY GivenBack
  <2>. QED BY <2>1, OthersOwn
<1>4. Own(c)'
  BY <1>1 DEF Own, Owns, Sound, Underway
<1>5. Places'
  <2>1. Queued' = Queued /\ \A q \in Queued : call'[q].session = call[q].session
    BY <1>1 DEF Queued, InFlight, Callers, Writers, Underway, Sound, Own
  <2>. QED BY <2>1, PlacesKept
<1>. QED BY <1>2, <1>3, <1>4, <1>5 DEF Sound

\* The player leaves, or the window closes: only a flag changes.
LEMMA FlagKeeps ==
  ASSUME Sound, NEW c \in Callers, Abort(c) \/ Expire(c)
  PROVE  Sound'
<1>1. /\ UNCHANGED <<row, deleted, holders, slots, applied, runs>>
      /\ \/ call' = [call EXCEPT ![c] = [call[c] EXCEPT !.aborted = TRUE]]
         \/ call' = [call EXCEPT ![c] = [call[c] EXCEPT !.expired = TRUE]]
  BY CallTyped DEF Abort, StopWaiting, Expire, Sound
<1>2. call[c] \in CallType /\ call \in [Callers -> CallType]
  BY CallTyped DEF Sound
<1>3. /\ [call[c] EXCEPT !.aborted = TRUE] \in CallType
      /\ [call[c] EXCEPT !.expired = TRUE] \in CallType
  BY <1>2, Records
<1>4. call' \in [Callers -> CallType]
  BY <1>1, <1>2, <1>3
<1>5. \A d \in Callers : /\ call'[d].pc = call[d].pc /\ call'[d].session = call[d].session
                         /\ call'[d].waiting = call[d].waiting
                         /\ call'[d].answer = call[d].answer /\ call'[d].read = call[d].read
  BY <1>1, <1>2 DEF CallType
<1>6. TypeOK'
  BY <1>1, <1>4, CallTyped DEF Sound, TypeOK, CallType
<1>7. \A d \in Callers : Own(d)'
  BY <1>1, <1>5 DEF Sound, Own, Owns
<1>8. Places'
  <2>1. Queued' = Queued /\ \A q \in Queued : call'[q].session = call[q].session
    BY <1>5 DEF Queued, InFlight, Callers, Writers
  <2>. QED BY <1>1, <2>1, PlacesKept
<1>. QED BY <1>6, <1>7, <1>8 DEF Sound

LEMMA CallKeeps ==
  ASSUME Sound, NEW c \in Callers, NEW s \in Target[c], Call(c, s)
  PROVE  Sound'
<1>. DEFINE k == [call[c] EXCEPT !.pc = "connecting", !.session = s]
<1>1. call[c] \in CallType /\ s \in Sessions
  BY CallTyped, LockAssumption DEF Sound
<1>2. /\ k.pc = "connecting" /\ k.session = s
      /\ k.waiting = call[c].waiting /\ k.answer = call[c].answer
  BY <1>1 DEF CallType
<1>3. /\ call[c].pc = "idle" /\ call' = [call EXCEPT ![c] = k]
      /\ UNCHANGED <<row, deleted, holders, slots, applied, runs>>
  BY CallTyped DEF Call, Sound
<1>4. "connecting" \in Stages
  BY DEF Stages
<1>5. k \in CallType
  BY <1>1, <1>4, Records
<1>. HIDE DEF k
<1>. QED BY <1>1, <1>2, <1>3, <1>5, MoveKeeps DEF Underway

\* GoTo between stages without the row.
LEMMA GoToKeeps ==
  ASSUME Sound, NEW c \in Callers, call[c].pc \in Underway, NEW p \in Underway, GoTo(c, p),
         p = "missed" => c \in Acknowledged,
         UNCHANGED <<row, deleted, holders, slots, applied, runs>>
  PROVE  Sound'
<1>. DEFINE k == [call[c] EXCEPT !.pc = p]
<1>1. call[c] \in CallType /\ call[c].session \in Sessions
  BY CallTyped DEF Sound, Own, Underway
<1>2. /\ k.pc = p /\ k.session = call[c].session
      /\ k.waiting = call[c].waiting /\ k.answer = call[c].answer
  BY <1>1 DEF CallType
<1>3. call' = [call EXCEPT ![c] = k]
  BY CallTyped DEF GoTo, Sound
<1>4. p \in Stages
  BY DEF Stages, Underway
<1>5. k \in CallType
  BY <1>1, <1>4, Records
<1>. HIDE DEF k
<1>. QED BY <1>1, <1>2, <1>3, <1>5, MoveKeeps DEF Underway

LEMMA RetryLaterKeeps ==
  ASSUME Sound, NEW c \in Ordinary, call[c].pc \in {"locking", "body"}, RetryLater(c)
  PROVE  Sound'
<1>. DEFINE k == [call[c] EXCEPT !.pc = "sleeping", !.attempt = CountUp(@), !.read = 0]
<1>1. c \in Callers /\ c \notin Acknowledged /\ InFlight(c)
  BY LockAssumption DEF Callers, Writers, InFlight
<1>2. call[c] \in CallType /\ call[c].session \in Sessions
  BY <1>1, CallTyped DEF Sound, Own
<1>3. CASE call[c].attempt >= MaxRetries
  <2>1. Refuse(c, "busy")
    BY <1>2, <1>3, LockAssumption DEF RetryLater, CallType
  <2>. QED BY <1>1, <2>1, RefuseKeeps DEF Outcomes
<1>4. CASE call[c].attempt < MaxRetries
  <2>0. ~ (call[c].attempt >= MaxRetries)
    BY <1>2, <1>4, LockAssumption DEF CallType
  <2>1. /\ call' = [call EXCEPT ![c] = k] /\ Unlock(c)
        /\ UNCHANGED <<row, deleted, slots, applied, runs>>
    BY <1>1, <2>0, CallTyped DEF RetryLater, Sound
  <2>2. CountUp(call[c].attempt) \in Nat
    BY <1>2 DEF CountUp, CallType
  <2>3. /\ k.pc = "sleeping" /\ k.session = call[c].session
        /\ k.waiting = call[c].waiting /\ k.answer = call[c].answer
    BY <1>2 DEF CallType
  <2>4. "sleeping" \in Stages
    BY DEF Stages
  <2>5. k \in CallType
    BY <1>2, <2>2, <2>4, Records
  <2>. HIDE DEF k
  <2>. QED BY <1>1, <1>2, <2>1, <2>3, <2>5, MoveKeeps DEF Underway
<1>. QED BY <1>2, <1>3, <1>4, LockAssumption DEF CallType

\* The row is granted only if nobody else holds it, gates to gates aside.
LEMMA EnterKeeps ==
  ASSUME Sound, NEW c \in Callers, call[c].pc = "locking", Compatible(c),
         call' = [call EXCEPT ![c].pc = "body", ![c].read = ReadNow(c)],
         holders' = [holders EXCEPT ![call[c].session] = @ \cup {c}],
         runs' = [a \in Acknowledged |-> IF a = c THEN runs[a] + 1 ELSE runs[a]],
         UNCHANGED <<row, deleted, slots, applied>>
  PROVE  Sound'
<1>. DEFINE k == [call[c] EXCEPT !.pc = "body", !.read = ReadNow(c)]
            s == call[c].session
<1>1. /\ call[c] \in CallType /\ s \in Sessions /\ ReadNow(c) = row[s] /\ row[s] \in Nat
      /\ holders \in [Sessions -> SUBSET Callers] /\ call \in [Callers -> CallType]
  BY CallTyped DEF Sound, Own, ReadNow
<1>2. /\ k.pc = "body" /\ k.session = s /\ k.read = row[s]
      /\ k.waiting = call[c].waiting /\ k.answer = call[c].answer
  BY <1>1 DEF CallType
<1>3. k \in CallType
  <2>1. "body" \in Stages
    BY DEF Stages
  <2>. QED BY <1>1, <2>1, Records
<1>4. call' = [call EXCEPT ![c] = k]
  BY <1>1
<1>5. /\ holders' \in [Sessions -> SUBSET Callers]
      /\ \A t \in Sessions \ {s} : holders'[t] = holders[t]
      /\ holders'[s] = holders[s] \cup {c}
  BY <1>1
<1>. HIDE DEF k
<1>6. \A d \in Writers \ {c} : holders[s] # {d}
  BY LockAssumption DEF Compatible
<1>8. /\ call'[c] = k /\ call' \in [Callers -> CallType]
      /\ \A d \in Callers \ {c} : call'[d] = call[d]
  BY <1>1, <1>3, <1>4
<1>9. /\ runs' \in [Acknowledged -> Nat]
      /\ \A a \in Acknowledged \ {c} : runs'[a] = runs[a]
      /\ c \in Acknowledged => runs'[c] = 1
  BY CallTyped DEF Sound, Own
<1>10. TypeOK'
  BY <1>5, <1>8, <1>9, CallTyped DEF Sound, TypeOK, CallType
<1>11. \A d \in Callers \ {c} : Own(d)'
  <2>1. SUFFICES ASSUME NEW d \in Callers \ {c} PROVE Own(d)'
    OBVIOUS
  <2>2. Own(d) /\ call'[d] = call[d] /\ (d \in Acknowledged => runs'[d] = runs[d])
    BY <1>8, <1>9 DEF Sound
  <2>3. Owns(d) => holders'[call[d].session] = {d}
    BY <1>5, <1>6, <2>2 DEF Own, Owns
  <2>. QED BY <2>2, <2>3 DEF Own, Owns
<1>12. Own(c)'
  <2>1. c \in Writers => holders[s] \subseteq {c}
    BY LockAssumption DEF Compatible
  <2>2. c \in Writers => holders'[s] = {c}
    BY <1>5, <2>1
  <2>3. /\ call[c].waiting => c \in Acknowledged
        /\ call[c].answer = None
        /\ c \in Writers => applied[c] = 0
    BY DEF Sound, Own
  <2>4. c \in Writers => call'[c].read = row'[s] /\ applied'[c] = 0
    BY <1>2, <1>8, <2>3
  <2>5. call'[c].pc = "body" /\ call'[c].session = s /\ call'[c].answer = None
    BY <1>2, <1>8, <2>3
  <2>6. call'[c].waiting => c \in Acknowledged
    BY <1>2, <1>8, <2>3
  <2>. HIDE DEF s
  <2>. QED BY <1>1, <1>9, <2>2, <2>4, <2>5, <2>6 DEF Own, Owns
<1>13. Places'
  <2>1. Queued' = Queued /\ \A q \in Queued : call'[q].session = call[q].session
    BY <1>2, <1>8 DEF Queued, InFlight, Callers, Writers
  <2>. QED BY <2>1, PlacesKept
<1>. QED BY <1>10, <1>11, <1>12, <1>13 DEF Sound

\* A place is taken in the queue.
LEMMA AdmitKeeps ==
  ASSUME Sound, NEW c \in Acknowledged, call[c].pc = "missed",
         call[c].session \notin slots, Cardinality(slots) < MaxWaiters,
         call' = [call EXCEPT ![c].pc = "connecting", ![c].waiting = TRUE],
         slots' = slots \cup {call[c].session},
         UNCHANGED <<row, deleted, holders, applied, runs>>
  PROVE  Sound'
<1>. DEFINE k == [call[c] EXCEPT !.pc = "connecting", !.waiting = TRUE]
            s == call[c].session
<1>1. c \in Callers
  BY DEF Callers, Writers
<1>2. call[c] \in CallType /\ s \in Sessions /\ call \in [Callers -> CallType]
  BY <1>1, CallTyped DEF Sound, Own
<1>3. k.pc = "connecting" /\ k.session = s /\ k.waiting /\ k.answer = call[c].answer
  BY <1>2 DEF CallType
<1>4. k \in CallType
  <2>1. "connecting" \in Stages
    BY DEF Stages
  <2>. QED BY <1>2, <2>1, Records
<1>5. call' = [call EXCEPT ![c] = k]
  BY <1>1, <1>2
<1>. HIDE DEF k
<1>6. /\ call'[c] = k /\ call' \in [Callers -> CallType]
      /\ \A d \in Callers \ {c} : call'[d] = call[d]
  BY <1>1, <1>2, <1>4, <1>5
<1>7. TypeOK'
  BY <1>2, <1>6, CallTyped DEF Sound, TypeOK, CallType
<1>8. \A d \in Callers \ {c} : Own(d)'
  BY <1>1, <1>5, OthersOwn
<1>9. Own(c)'
  BY <1>1, <1>2, <1>3, <1>6 DEF Sound, Own, Owns
<1>10. Places'
  BY <1>1, <1>3, <1>6, PlacesTaken
<1>. QED BY <1>1, <1>7, <1>8, <1>9, <1>10 DEF Sound

-----------------------------------------------------------------------------
(* Every step keeps the invariant.                                         *)

LEMMA InitSound == Init => Sound
<1>1. SUFFICES ASSUME Init PROVE Sound
  OBVIOUS
<1>2. TypeOK
  BY <1>1, Rests, CallTyped DEF Init
<1>3. \A c \in Callers : Own(c)
  BY <1>1 DEF Init, Own, Owns, Resting
<1>4. Places
  <2>1. Queued = {}
    BY <1>1 DEF Init, Queued, Resting, Callers, Writers
  <2>. QED BY <1>1, <2>1, FS_EmptySet, LockAssumption DEF Init, Places
<1>. QED BY <1>2, <1>3, <1>4 DEF Sound

LEMMA AttemptKeeps ==
  ASSUME Sound, NEW c \in Callers, Connect(c) \/ Acquire(c) \/ Miss(c) \/ Wake(c)
  PROVE  Sound'
<1>1. CASE Connect(c)
  <2>1. InFlight(c) /\ call[c].pc \in Underway
    BY <1>1 DEF Connect, InFlight, Underway
  <2>2. CASE Refuse(c, "cancelled") \/ Refuse(c, "busy")
    BY <2>1, <2>2, RefuseKeeps DEF Outcomes
  <2>3. CASE GoTo(c, "locking") /\ UNCHANGED <<row, deleted, holders, slots, applied, runs>>
    BY <2>1, <2>3, GoToKeeps DEF Underway
  <2>. QED BY <1>1, <2>2, <2>3 DEF Connect
<1>2. CASE Acquire(c)
  <2>1. InFlight(c) /\ call[c].pc = "locking" /\ Compatible(c)
    BY <1>2 DEF Acquire, InFlight
  <2>2. CASE \E a \in Outcomes : Refuse(c, a)
    BY <2>1, <2>2, RefuseKeeps
  <2>3. CASE /\ call' = [call EXCEPT ![c].pc = "body", ![c].read = ReadNow(c)]
             /\ holders' = [holders EXCEPT ![call[c].session] = @ \cup {c}]
             /\ runs' = [a \in Acknowledged |-> IF a = c THEN runs[a] + 1 ELSE runs[a]]
             /\ UNCHANGED <<row, deleted, slots, applied>>
    BY <2>1, <2>3, EnterKeeps
  <2>. QED BY <1>2, <2>2, <2>3 DEF Acquire, Outcomes
<1>3. CASE Miss(c)
  <2>1. call[c].pc = "locking"
    BY <1>3 DEF Miss
  <2>2. CASE c \in Ordinary /\ RetryLater(c)
    BY <2>1, <2>2, RetryLaterKeeps
  <2>3. CASE /\ c \in Acknowledged /\ GoTo(c, "missed")
             /\ UNCHANGED <<row, deleted, holders, slots, applied, runs>>
    BY <2>1, <2>3, GoToKeeps DEF Underway
  <2>. QED BY <1>3, <2>2, <2>3 DEF Miss
<1>4. CASE Wake(c)
  BY <1>4, GoToKeeps DEF Wake, Underway
<1>. QED BY <1>1, <1>2, <1>3, <1>4

LEMMA WaitKeeps ==
  ASSUME Sound, NEW c \in Callers, Queue(c) \/ LockTimeout(c)
  PROVE  Sound'
<1>1. CASE Queue(c)
  <2>1. InFlight(c) /\ call[c].pc = "missed" /\ c \in Acknowledged
    BY <1>1 DEF Queue, InFlight, Sound, Own
  <2>2. CASE Refuse(c, "cancelled") \/ Refuse(c, "busy")
    BY <2>1, <2>2, RefuseKeeps DEF Outcomes
  <2>3. CASE /\ call[c].session \notin slots /\ Cardinality(slots) < MaxWaiters
             /\ call' = [call EXCEPT ![c].pc = "connecting", ![c].waiting = TRUE]
             /\ slots' = slots \cup {call[c].session}
             /\ UNCHANGED <<row, deleted, holders, applied, runs>>
    BY <2>1, <2>3, AdmitKeeps
  <2>. QED BY <1>1, <2>2, <2>3 DEF Queue
<1>2. CASE LockTimeout(c)
  BY <1>2, RefuseKeeps DEF LockTimeout, InFlight, Outcomes
<1>. QED BY <1>1, <1>2

LEMMA EndKeeps ==
  ASSUME Sound, NEW c \in Callers,
         Commit(c) \/ BodyBlocked(c) \/ BodyFails(c) \/ Disconnect(c) \/ GateEnds(c)
  PROVE  Sound'
<1>1. InFlight(c)
  BY DEF Commit, BodyBlocked, BodyFails, Disconnect, GateEnds, InFlight
<1>2. CASE \E a \in Outcomes : Refuse(c, a)
  BY <1>1, <1>2, RefuseKeeps
<1>3. CASE Owns(c) /\ Answer(c, "saved") /\ Written(c)
  BY <1>1, <1>3, AnswerKeeps DEF Outcomes
<1>4. CASE c \in Ordinary /\ call[c].pc = "body" /\ RetryLater(c)
  BY <1>4, RetryLaterKeeps
<1>. QED BY <1>2, <1>3, <1>4 DEF Commit, BodyBlocked, Rethrow, BodyFails, Disconnect, GateEnds,
                              Outcomes, Owns

LEMMA DeleteKeeps ==
  ASSUME Sound, NEW s \in Sessions, DeleteSession(s)
  PROVE  Sound'
<1>1. deleted' \subseteq Sessions /\ UNCHANGED <<row, call, holders, slots, applied, runs>>
  BY CallTyped DEF DeleteSession, Sound
<1>2. TypeOK'
  BY <1>1, CallTyped DEF Sound, TypeOK, CallType
<1>3. \A c \in Callers : Own(c)'
  BY <1>1 DEF Sound, Own, Owns
<1>4. Places'
  BY <1>1 DEF Sound, Places, Queued, InFlight
<1>. QED BY <1>2, <1>3, <1>4 DEF Sound

LEMMA NextSound == Sound /\ [Next]_vars => Sound'
<1>1. SUFFICES ASSUME Sound, [Next]_vars PROVE Sound'
  OBVIOUS
<1>2. ASSUME NEW c \in Callers, Progress(c) PROVE Sound'
  BY <1>1, <1>2, AttemptKeeps, WaitKeeps, EndKeeps, BackendEndsKeeps DEF Progress
<1>3. ASSUME NEW c \in Callers, \/ \E s \in Target[c] : Call(c, s)
                                \/ Abort(c) \/ Expire(c) \/ BodyBlocked(c)
                                \/ BodyFails(c) \/ Deadline(c) \/ Disconnect(c)
      PROVE  Sound'
  BY <1>1, <1>3, CallKeeps, FlagKeeps, EndKeeps, DeadlineKeeps
<1>4. ASSUME NEW s \in Sessions, DeleteSession(s) PROVE Sound'
  BY <1>1, <1>4, DeleteKeeps
<1>5. CASE UNCHANGED vars
  <2>1. TypeOK'
    BY <1>1, <1>5 DEF vars, Sound, TypeOK
  <2>2. \A c \in Callers : Own(c)'
    BY <1>1, <1>5 DEF vars, Sound, Own, Owns
  <2>3. Places'
    BY <1>1, <1>5 DEF vars, Sound, Places, Queued, InFlight
  <2>. QED BY <2>1, <2>2, <2>3 DEF Sound
<1>. QED BY <1>1, <1>2, <1>3, <1>4, <1>5 DEF Next

\* The invariant: a writer that has its row has it alone and knows what it says.
THEOREM StaysSound == Spec => []Sound
BY InitSound, NextSound, PTL DEF Spec

\* Rows, calls, locks and places keep their types.
THEOREM LockTyped == Spec => []TypeOK
<1>1. Sound => TypeOK
  BY DEF Sound
<1>. QED BY <1>1, StaysSound, PTL

\* The queue inside the database is bounded, and its places are those of the
\* calls under way that took them.
THEOREM LockBoundedQueue == Spec => []BoundedQueue
<1>1. Sound => BoundedQueue
  <2>1. SUFFICES ASSUME Sound PROVE Cardinality(Queued) <= MaxWaiters
    BY DEF BoundedQueue, Sound, Places
  <2>. DEFINE f == [c \in Queued |-> call[c].session]
  <2>2. f \in Injection(Queued, slots)
    BY <2>1 DEF Sound, Places, Injection, IsInjective
  <2>3. IsFiniteSet(slots) /\ Cardinality(slots) \in Nat /\ MaxWaiters \in Nat
    BY <2>1, FS_CardinalityType, LockAssumption DEF Sound, Places
  <2>4. IsFiniteSet(Queued) /\ Cardinality(Queued) <= Cardinality(slots)
    BY <2>2, <2>3, FS_Injection
  <2>5. Cardinality(Queued) \in Nat
    BY <2>4, FS_CardinalityType
  <2>. QED BY <2>1, <2>3, <2>4, <2>5 DEF Sound, Places
<1>. QED BY <1>1, StaysSound, PTL

\* No acknowledged save enters its callback twice.
THEOREM LockCallbackRunsOnce == Spec => []CallbackRunsOnce
<1>1. Sound => CallbackRunsOnce
  BY DEF Sound, Own, CallbackRunsOnce, Callers, Writers
<1>. QED BY <1>1, StaysSound, PTL

-----------------------------------------------------------------------------
(* Requests that are gone.                                                 *)

LEMMA AnswerRuns ==
  ASSUME NEW c \in Callers, NEW a, Answer(c, a)
  PROVE  runs' = runs
BY DEF Answer

LEMMA GoneStep ==
  ASSUME Sound, [Next]_vars, NEW a \in Acknowledged
  PROVE  /\ runs'[a] > runs[a] => ~ call[a].aborted /\ ~ call[a].expired
         /\ applied'[a] > applied[a] /\ call[a].pc # "orphan" => ~ call[a].aborted
<1>1. runs[a] \in Nat /\ applied[a] \in Nat /\ a \in Writers /\ applied \in [Writers -> Nat]
  BY CallTyped DEF Sound, Writers
<1>. DEFINE Fine ==
       /\ runs'[a] = runs[a] \/ (~ call[a].aborted /\ ~ call[a].expired)
       /\ applied'[a] = applied[a] \/ call[a].pc = "orphan" \/ ~ call[a].aborted
<1>2. SUFFICES Fine
  BY <1>1
<1>3. ASSUME NEW c \in Callers, Acquire(c) PROVE Fine
  <2>1. CASE StillWanted(c)
    BY <1>3, <2>1 DEF Acquire, StillWanted, Refuse, Answer
  <2>2. CASE ~ StillWanted(c)
    BY <1>3, <2>2 DEF Acquire, Refuse, Answer
  <2>. QED BY <2>1, <2>2
<1>4. ASSUME NEW c \in Callers, Commit(c) PROVE Fine
  BY <1>1, <1>4 DEF Commit, Refuse, Answer, Written
<1>5. ASSUME NEW c \in Callers, BackendEnds(c) PROVE Fine
  BY <1>1, <1>5 DEF BackendEnds, Written
<1>6. ASSUME NEW c \in Callers, Connect(c) \/ Miss(c) \/ Wake(c) \/ Queue(c) \/ LockTimeout(c) \/ GateEnds(c)
      PROVE  Fine
  BY <1>6 DEF Connect, Miss, Wake, Queue, LockTimeout, GateEnds, RetryLater, Refuse, Answer
<1>7. ASSUME NEW c \in Callers, \/ \E s \in Target[c] : Call(c, s)
                                \/ Abort(c) \/ Expire(c) \/ BodyBlocked(c)
                                \/ BodyFails(c) \/ Deadline(c) \/ Disconnect(c)
      PROVE  Fine
  BY <1>7 DEF Call, Abort, Expire, BodyBlocked, Rethrow, BodyFails, Deadline, Disconnect,
              RetryLater, Refuse, Answer
<1>8. ASSUME NEW s \in Sessions, DeleteSession(s) PROVE Fine
  BY <1>8 DEF DeleteSession
<1>9. CASE UNCHANGED vars
  BY <1>9 DEF vars
<1>. HIDE DEF Fine
<1>. QED BY <1>3, <1>4, <1>5, <1>6, <1>7, <1>8, <1>9 DEF Next, Progress

\* No callback is entered for a request that is gone or late, and nothing is
\* written for one that was gone when its callback ended.
THEOREM LockGoneIsNotSaved == Spec => GoneIsNotSaved
<1>1. Sound /\ [Next]_vars =>
        [\A c \in Acknowledged :
           /\ runs'[c] > runs[c] => ~ call[c].aborted /\ ~ call[c].expired
           /\ applied'[c] > applied[c] /\ call[c].pc # "orphan" => ~ call[c].aborted]_vars
  BY GoneStep
<1>. QED BY <1>1, StaysSound, PTL DEF Spec, GoneIsNotSaved

-----------------------------------------------------------------------------
(* The promise to the writers.                                             *)

\* What the writers see of a step of c.
LEMMA Seen ==
  ASSUME Sound, NEW c \in Callers, call[c].pc # "idle", call'[c].pc # "idle",
         \A d \in Callers \ {c} : call'[d] = call[d]
  PROVE  /\ {w \in Writers : call'[w].pc # "idle"} = {w \in Writers : call[w].pc # "idle"}
         /\ [w \in Writers |-> call'[w].answer] =
              [w \in Writers |-> IF w = c THEN call'[c].answer ELSE call[w].answer]
BY DEF Callers

\* Nothing, if its answer and its write stay the same.
LEMMA UnseenStep ==
  ASSUME Sound, NEW c \in Callers, call[c].pc # "idle", call'[c].pc # "idle",
         \A d \in Callers \ {c} : call'[d] = call[d],
         c \in Writers => call'[c].answer = call[c].answer, UNCHANGED <<row, applied>>
  PROVE  UNCHANGED Promise!vars
<1>1. [w \in Writers |-> call'[w].answer] = [w \in Writers |-> call[w].answer]
  BY Seen
<1>. QED BY <1>1, Seen DEF Promise!vars

\* A refusal.
LEMMA RefuseStep ==
  ASSUME Sound, NEW c \in Callers, InFlight(c), NEW a \in Outcomes, Refuse(c, a),
         c \in Writers => a # "saved"
  PROVE  [Promise!Next]_(Promise!vars)
<1>1. /\ call'[c].pc = "done" /\ call'[c].answer = a
      /\ \A d \in Callers \ {c} : call'[d] = call[d]
      /\ UNCHANGED <<row, applied>>
  BY CallTyped DEF Refuse, Answer, Sound, Resting
<1>2. call[c].pc # "idle"
  BY DEF InFlight
<1>3. CASE c \in Writers
  <2>1. call[c].answer = None
    BY DEF Sound, Own, InFlight
  <2>2. [w \in Writers |-> call'[w].answer] = [[w \in Writers |-> call[w].answer] EXCEPT ![c] = a]
    BY <1>1, <1>2, Seen
  <2>3. a \in Promise!Refusals \cup {"failed"}
    BY <1>3 DEF Outcomes, Promise!Refusals
  <2>4. Promise!Decline(c)
    BY <1>1, <1>2, <1>3, <2>1, <2>2, <2>3, Seen DEF Promise!Decline
  <2>. QED BY <1>3, <2>4 DEF Promise!Next, Promise!Answered
<1>4. CASE c \notin Writers
  BY <1>1, <1>2, <1>4, UnseenStep
<1>. QED BY <1>3, <1>4

\* A write that reaches the row, confirmed or not.
LEMMA SaveStep ==
  ASSUME Sound, NEW c \in Callers, Commit(c), Answer(c, "saved"), Written(c)
  PROVE  Promise!Next
<1>1. Owns(c) /\ call[c].pc = "body" /\ c \in Writers
  BY DEF Commit, Owns
<1>2. /\ call'[c].pc = "done" /\ call'[c].answer = "saved"
      /\ \A d \in Callers \ {c} : call'[d] = call[d]
  BY CallTyped DEF Answer, Sound, Resting
<1>3. /\ row' = [row EXCEPT ![call[c].session] = @ + 1] /\ call[c].session \in Sessions
      /\ applied[c] = 0
  BY <1>1, WrittenTyped
<1>0. applied' = [applied EXCEPT ![c] = 1]
  BY <1>3 DEF Written
<1>4. call[c].answer = None
  BY <1>1 DEF Sound, Own
<1>5. [w \in Writers |-> call'[w].answer] = [[w \in Writers |-> call[w].answer] EXCEPT ![c] = "saved"]
  BY <1>1, <1>2, Seen
<1>6. Promise!Reach(c)
  BY <1>0, <1>3 DEF Promise!Reach
<1>7. Promise!Save(c)
  BY <1>1, <1>2, <1>4, <1>5, <1>6, Seen DEF Promise!Save
<1>. QED BY <1>1, <1>7 DEF Promise!Next, Promise!Answered

LEMMA BackendStep ==
  ASSUME Sound, NEW c \in Callers, BackendEnds(c)
  PROVE  [Promise!Next]_(Promise!vars)
<1>1. Owns(c) /\ call[c].pc = "orphan" /\ c \in Writers /\ call[c].answer = "failed"
  BY DEF BackendEnds, Owns, Sound, Own
<1>2. /\ call'[c].pc = "done" /\ call'[c].answer = "failed"
      /\ \A d \in Callers \ {c} : call'[d] = call[d]
  BY CallTyped DEF BackendEnds, Sound, Resting
<1>3. [w \in Writers |-> call'[w].answer] = [w \in Writers |-> call[w].answer]
  BY <1>1, <1>2, Seen
<1>4. CASE Written(c)
  <2>1. /\ row' = [row EXCEPT ![call[c].session] = @ + 1] /\ call[c].session \in Sessions
        /\ applied[c] = 0
    BY <1>1, <1>4, WrittenTyped
  <2>0. applied' = [applied EXCEPT ![c] = 1]
    BY <1>4, <2>1 DEF Written
  <2>2. Promise!Reach(c)
    BY <2>0, <2>1 DEF Promise!Reach
  <2>3. Promise!SaveUnconfirmed(c)
    BY <1>1, <1>2, <1>3, <2>2, Seen DEF Promise!SaveUnconfirmed
  <2>. QED BY <1>1, <2>3 DEF Promise!Next
<1>5. CASE UNCHANGED <<row, applied>>
  BY <1>1, <1>2, <1>5, UnseenStep
<1>. QED BY <1>4, <1>5 DEF BackendEnds

LEMMA DeadlineStep ==
  ASSUME Sound, NEW c \in Callers, Deadline(c)
  PROVE  Promise!Next
<1>1. /\ c \in Writers /\ call[c].pc = "body" /\ call[c].answer = None
      /\ UNCHANGED <<row, applied>>
  BY DEF Deadline, Sound, Own
<1>2. /\ call'[c].pc = "orphan" /\ call'[c].answer = "failed"
      /\ \A d \in Callers \ {c} : call'[d] = call[d]
  BY CallTyped DEF Deadline, Sound, Resting
<1>3. [w \in Writers |-> call'[w].answer] = [[w \in Writers |-> call[w].answer] EXCEPT ![c] = "failed"]
  BY <1>1, <1>2, Seen
<1>4. Promise!Decline(c)
  BY <1>1, <1>2, <1>3, Seen DEF Promise!Decline
<1>. QED BY <1>1, <1>4 DEF Promise!Next, Promise!Answered

\* The locals of a call that is under way are not part of the promise.
LEMMA LocalStep ==
  ASSUME Sound, NEW c \in Callers, call[c].pc # "idle", call[c].pc # "done",
         \/ Abort(c) \/ Expire(c) \/ Wake(c) \/ GoTo(c, "locking") \/ GoTo(c, "missed")
         \/ call' = [call EXCEPT ![c].pc = "body", ![c].read = ReadNow(c)]
         \/ call' = [call EXCEPT ![c].pc = "connecting", ![c].waiting = TRUE]
         \/ call' = [call EXCEPT ![c].pc = "sleeping", ![c].attempt = CountUp(@), ![c].read = 0],
         UNCHANGED <<row, applied>>
  PROVE  UNCHANGED Promise!vars
<1>1. call \in [Callers -> CallType] /\ call[c] \in CallType
  BY CallTyped DEF Sound
<1>2. /\ call'[c].pc # "idle" /\ call'[c].answer = call[c].answer
      /\ \A d \in Callers \ {c} : call'[d] = call[d]
  BY <1>1 DEF Abort, Expire, Wake, GoTo, CallType
<1>. QED BY <1>2, UnseenStep

LEMMA CallStep ==
  ASSUME Sound, NEW c \in Callers, NEW s \in Target[c], Call(c, s)
  PROVE  [Promise!Next]_(Promise!vars)
<1>1. call \in [Callers -> CallType] /\ call[c] \in CallType
  BY CallTyped DEF Sound
<1>2. /\ call[c].pc = "idle" /\ call'[c].pc = "connecting" /\ call'[c].answer = call[c].answer
      /\ \A d \in Callers \ {c} : call'[d] = call[d]
      /\ UNCHANGED <<row, applied>>
  BY <1>1 DEF Call, CallType
<1>3. [w \in Writers |-> call'[w].answer] = [w \in Writers |-> call[w].answer]
  BY <1>2 DEF Callers
<1>4. {w \in Writers : call'[w].pc # "idle"} =
        {w \in Writers : call[w].pc # "idle"} \cup (IF c \in Writers THEN {c} ELSE {})
  BY <1>2 DEF Callers
<1>5. CASE c \in Writers
  <2>1. Promise!Ask(c)
    BY <1>2, <1>3, <1>4, <1>5 DEF Promise!Ask
  <2>. QED BY <1>5, <2>1 DEF Promise!Next
<1>6. CASE c \notin Writers
  BY <1>2, <1>3, <1>4, <1>6 DEF Promise!vars
<1>. QED BY <1>5, <1>6

LEMMA RetryStep ==
  ASSUME Sound, NEW c \in Callers, call[c].pc \in {"locking", "body"}, RetryLater(c)
  PROVE  [Promise!Next]_(Promise!vars)
<1>1. InFlight(c) /\ call[c].pc # "idle" /\ call[c].pc # "done"
  BY DEF InFlight
<1>2. CASE Refuse(c, "busy")
  BY <1>1, <1>2, RefuseStep DEF Outcomes
<1>3. CASE ~ Refuse(c, "busy")
  BY <1>1, <1>3, LocalStep DEF RetryLater
<1>. QED BY <1>2, <1>3

LEMMA ProgressStep ==
  ASSUME Sound, NEW c \in Callers, Progress(c)
  PROVE  [Promise!Next]_(Promise!vars)
<1>1. CASE \E a \in Outcomes : InFlight(c) /\ Refuse(c, a) /\ (c \in Writers => a # "saved")
  BY <1>1, RefuseStep
<1>2. CASE Connect(c)
  <2>1. InFlight(c) /\ call[c].pc # "idle" /\ call[c].pc # "done"
    BY <1>2 DEF Connect, InFlight
  <2>2. CASE GoTo(c, "locking") /\ UNCHANGED <<row, applied>>
    BY <2>1, <2>2, LocalStep
  <2>. QED BY <1>1, <1>2, <2>1, <2>2 DEF Connect, Outcomes
<1>3. CASE Acquire(c)
  <2>1. InFlight(c) /\ call[c].pc # "idle" /\ call[c].pc # "done"
    BY <1>3 DEF Acquire, InFlight
  <2>2. CASE /\ call' = [call EXCEPT ![c].pc = "body", ![c].read = ReadNow(c)]
             /\ UNCHANGED <<row, applied>>
    BY <2>1, <2>2, LocalStep
  <2>. QED BY <1>1, <1>3, <2>1, <2>2 DEF Acquire, Outcomes
<1>4. CASE Miss(c)
  <2>1. call[c].pc = "locking"
    BY <1>4 DEF Miss
  <2>2. CASE RetryLater(c)
    BY <2>1, <2>2, RetryStep
  <2>3. CASE GoTo(c, "missed") /\ UNCHANGED <<row, applied>>
    BY <2>1, <2>3, LocalStep
  <2>. QED BY <1>4, <2>2, <2>3 DEF Miss
<1>5. CASE Wake(c)
  BY <1>5, LocalStep DEF Wake
<1>6. CASE Queue(c)
  <2>1. InFlight(c) /\ call[c].pc # "idle" /\ call[c].pc # "done"
    BY <1>6 DEF Queue, InFlight
  <2>2. CASE /\ call' = [call EXCEPT ![c].pc = "connecting", ![c].waiting = TRUE]
             /\ UNCHANGED <<row, applied>>
    BY <2>1, <2>2, LocalStep
  <2>. QED BY <1>1, <1>6, <2>1, <2>2 DEF Queue, Outcomes
<1>7. CASE LockTimeout(c)
  BY <1>1, <1>7 DEF LockTimeout, InFlight, Outcomes
<1>8. CASE Commit(c)
  <2>1. CASE Refuse(c, "cancelled")
    BY <1>1, <1>8, <2>1 DEF Commit, InFlight, Outcomes
  <2>2. CASE Answer(c, "saved") /\ Written(c)
    BY <1>8, <2>2, SaveStep
  <2>. QED BY <1>8, <2>1, <2>2 DEF Commit
<1>9. CASE BackendEnds(c)
  BY <1>9, BackendStep
<1>10. CASE GateEnds(c)
  <2>1. c \notin Writers /\ InFlight(c) /\ Refuse(c, "saved")
    BY <1>10, LockAssumption DEF GateEnds, InFlight
  <2>. QED BY <1>1, <2>1 DEF Outcomes
<1>. QED BY <1>2, <1>3, <1>4, <1>5, <1>6, <1>7, <1>8, <1>9, <1>10 DEF Progress

LEMMA TroubleStep ==
  ASSUME Sound, NEW c \in Callers,
         Abort(c) \/ Expire(c) \/ BodyBlocked(c) \/ BodyFails(c) \/ Deadline(c) \/ Disconnect(c)
  PROVE  [Promise!Next]_(Promise!vars)
<1>1. CASE InFlight(c) /\ (Refuse(c, "busy") \/ Refuse(c, "failed"))
  BY <1>1, RefuseStep DEF Outcomes
<1>2. CASE Abort(c) \/ Expire(c)
  BY <1>2, LocalStep DEF Abort, Expire, InFlight
<1>3. CASE BodyBlocked(c)
  BY <1>1, <1>3, RetryStep DEF BodyBlocked, Rethrow, InFlight
<1>4. CASE BodyFails(c) \/ Disconnect(c)
  BY <1>1, <1>4 DEF BodyFails, Disconnect, InFlight
<1>5. CASE Deadline(c)
  BY <1>5, DeadlineStep
<1>. QED BY <1>2, <1>3, <1>4, <1>5

LEMMA StepPromised == Sound /\ [Next]_vars => [Promise!Next]_(Promise!vars)
<1>1. SUFFICES ASSUME Sound, [Next]_vars PROVE [Promise!Next]_(Promise!vars)
  OBVIOUS
<1>2. ASSUME NEW s \in Sessions, DeleteSession(s) PROVE UNCHANGED Promise!vars
  BY <1>2 DEF DeleteSession, Promise!vars
<1>3. CASE UNCHANGED vars
  BY <1>3 DEF vars, Promise!vars
<1>. QED BY <1>1, <1>2, <1>3, CallStep, ProgressStep, TroubleStep DEF Next

LEMMA InitPromised == Init => Promise!Init
BY DEF Init, Promise!Init, Resting, Callers

\* Every step of the lock is one the writers were promised: no write is lost
\* under another, made twice, or made for a call that was told to come back.
THEOREM LockImplementsPromise == Spec => Promise!Safety
BY InitPromised, StepPromised, StaysSound, PTL DEF Spec, Promise!Safety

-----------------------------------------------------------------------------
(* What the promise is worth: answers are true.                            *)

Told ==
  /\ applied \in [Writers -> {0, 1}]
  /\ \A w \in Writers : /\ call[w].answer = "saved" => applied[w] = 1
                        /\ call[w].answer \in Promise!Refusals \cup {None} => applied[w] = 0

LEMMA TellsTrue == Told => Promise!AnswersAreTrue
BY DEF Told, Promise!AnswersAreTrue

\* A call gets an answer that fits what became of its write.
LEMMA ToldStep ==
  ASSUME Told, NEW w \in Writers, NEW a,
         [v \in Writers |-> call'[v].answer] = [[v \in Writers |-> call[v].answer] EXCEPT ![w] = a],
         \/ a = "saved" /\ applied' = [applied EXCEPT ![w] = 1]
         \/ a # "saved" /\ call[w].answer = None /\ applied' = applied
         \/ a = "failed" /\ applied' = [applied EXCEPT ![w] = 1]
  PROVE  Told'
<1>1. "failed" # None /\ "saved" # None /\ "failed" \notin Promise!Refusals /\ "saved" \notin Promise!Refusals
  BY LockAssumption DEF Promise!Refusals
<1>2. \A v \in Writers : call'[v].answer = IF v = w THEN a ELSE call[v].answer
  <2>1. \A v \in Writers : [u \in Writers |-> call'[u].answer][v] =
                             [[u \in Writers |-> call[u].answer] EXCEPT ![w] = a][v]
    OBVIOUS
  <2>. QED BY <2>1
<1>. QED BY <1>1, <1>2 DEF Told, Promise!Refusals

LEMMA StaysTold == Told /\ [Promise!Next]_(Promise!vars) => Told'
<1>1. SUFFICES ASSUME Told, [Promise!Next]_(Promise!vars) PROVE Told'
  OBVIOUS
<1>2. CASE UNCHANGED Promise!vars
  <2>1. \A w \in Writers : [v \in Writers |-> call'[v].answer][w] = [v \in Writers |-> call[v].answer][w]
    BY <1>2 DEF Promise!vars
  <2>2. \A w \in Writers : call'[w].answer = call[w].answer
    BY <2>1
  <2>. QED BY <1>1, <1>2, <2>2 DEF Told, Promise!vars, Promise!Refusals
<1>3. ASSUME NEW w \in Writers, Promise!Ask(w) PROVE Told'
  <2>1. \A u \in Writers : [v \in Writers |-> call'[v].answer][u] = [v \in Writers |-> call[v].answer][u]
    BY <1>3 DEF Promise!Ask
  <2>2. \A u \in Writers : call'[u].answer = call[u].answer
    BY <2>1
  <2>. QED BY <1>1, <1>3, <2>2 DEF Told, Promise!Ask, Promise!Refusals
<1>4. ASSUME NEW w \in Writers, Promise!Save(w) PROVE Told'
  BY <1>1, <1>4, ToldStep DEF Promise!Save, Promise!Reach
<1>5. ASSUME NEW w \in Writers, Promise!Decline(w) PROVE Told'
  <2>1. PICK a \in Promise!Refusals \cup {"failed"} :
          [v \in Writers |-> call'[v].answer] = [[v \in Writers |-> call[v].answer] EXCEPT ![w] = a]
    BY <1>5 DEF Promise!Decline
  <2>2. call[w].answer = None /\ applied' = applied
    BY <1>5 DEF Promise!Decline
  <2>3. a # "saved"
    BY <2>1 DEF Promise!Refusals
  <2>. QED BY <1>1, <2>1, <2>2, <2>3, ToldStep
<1>6. ASSUME NEW w \in Writers, Promise!SaveUnconfirmed(w) PROVE Told'
  <2>1. /\ call[w].answer = "failed" /\ applied' = [applied EXCEPT ![w] = 1]
        /\ [v \in Writers |-> call'[v].answer] = [v \in Writers |-> call[v].answer]
    BY <1>6 DEF Promise!SaveUnconfirmed, Promise!Reach
  <2>2. [v \in Writers |-> call'[v].answer] = [[v \in Writers |-> call[v].answer] EXCEPT ![w] = "failed"]
    BY <2>1
  <2>. QED BY <1>1, <2>1, <2>2, ToldStep
<1>. QED BY <1>1, <1>2, <1>3, <1>4, <1>5, <1>6 DEF Promise!Next, Promise!Answered

\* A call answered "saved" has changed its row once, and one told that the
\* session is busy or missing, or that it was cancelled, has changed nothing.
THEOREM LockAnswersAreTrue == Spec => []Promise!AnswersAreTrue
<1>1. Promise!Init => Told
  <2>1. SUFFICES ASSUME Promise!Init PROVE Told
    OBVIOUS
  <2>2. \A w \in Writers : [v \in Writers |-> call[v].answer][w] = None
    BY <2>1 DEF Promise!Init
  <2>. QED BY <2>1, <2>2, LockAssumption DEF Promise!Init, Told
<1>. QED BY <1>1, StaysTold, TellsTrue, LockImplementsPromise, PTL DEF Promise!Safety

=============================================================================
