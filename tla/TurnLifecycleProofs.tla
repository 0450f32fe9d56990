------------------------- MODULE TurnLifecycleProofs -------------------------
(***************************************************************************)
(* Proofs about TurnLifecycle: its types, that trial uses and slots are    *)
(* conserved, that the stop endpoint aims at a running stream, and what a  *)
(* failed or an answered turn costs and shows; and which stops and which   *)
(* registrations come too late for what is promised of them.               *)
(***************************************************************************)
EXTENDS TurnLifecycle, TLAPS, FiniteSetTheorems

Trial == {"none", "held", "returned"}
Reasons == {None, "user-stop", "credits", "server-shutdown"}
TurnRecord == [pc : Stages, trial : Trial, slot : BOOLEAN,
               row : {"none", "complete", "failed"}, saved : BOOLEAN,
               charges : 0..2, settled : BOOLEAN]

\* The stages from which no reply is saved any more.
Closing == {"finishing", "leaving", "releasing", "ended", "killed"}

\* What is known of a handler at each of its stages.
Sound(t, why) ==
  /\ why = "credits" => t.pc \in Closing
  /\ t.pc \notin Closing => t.charges <= 1
  /\ t.row = "failed" => t.pc \in Closing /\ ~t.saved
  /\ t.pc \in {"saved", "billed"} => t.saved
  /\ t.saved => t.pc \in {"saved", "billed", "catching"} \cup Closing
  /\ t.pc \in {"leaving", "releasing", "ended"} /\ ~t.saved => t.trial # "held"
  /\ t.pc \in {"idle", "gated"} => ~t.slot
  /\ t.pc = "idle" => t.trial = "none"
  /\ t.pc = "billed" => t.charges + (IF t.trial = "held" THEN 1 ELSE 0) <= 1

IInv ==
  /\ TypeOK
  /\ TrialsConserved
  /\ SlotsAreHeld
  /\ StopTargetsRunning
  /\ \A r \in Turns : Sound(turn[r], signal[r])

Held == {r \in Turns : turn[r].trial = "held"}
Holding == {r \in Turns : turn[r].slot}

-----------------------------------------------------------------------------
(* Counting.                                                               *)

\* Adding or removing one member changes a finite count by at most one.
LEMMA CountOne ==
  ASSUME NEW S, IsFiniteSet(S), NEW x
  PROVE  /\ Cardinality(S) \in Nat
         /\ Cardinality(S \cup {x}) = IF x \in S THEN Cardinality(S) ELSE Cardinality(S) + 1
         /\ Cardinality(S \ {x}) = IF x \in S THEN Cardinality(S) - 1 ELSE Cardinality(S)
BY FS_AddElement, FS_RemoveElement, FS_CardinalityType

\* The turns that hold something are finitely many.
LEMMA FinitelyMany ==
  IsFiniteSet(Held) /\ IsFiniteSet(Holding)
<1>1. Held \subseteq Turns /\ Holding \subseteq Turns
  BY DEF Held, Holding
<1>. QED BY <1>1, LifecycleAssumption, FS_Subset

\* A count that is zero has no members.
LEMMA CountPositive ==
  ASSUME NEW S, IsFiniteSet(S), NEW x \in S
  PROVE  Cardinality(S) \in Nat \ {0}
BY FS_CardinalityType, FS_EmptySet

-----------------------------------------------------------------------------
(* The step of one handler.                                                *)

\* The trial use is kept as it is, or given back if it is claimed.
TrialKept(r) ==
  \/ turn'[r].trial = turn[r].trial /\ wallet' = wallet
  \/ turn'[r].trial = Refunded(turn[r]).trial /\ wallet' = WalletAfterRefund(turn[r])

\* The slot is kept as it is, or released.
SlotKept(r) ==
  \/ turn'[r].slot = turn[r].slot /\ slots' = slots
  \/ ~turn'[r].slot /\ slots' = Released

\* Only r moves.
OnlyMoves(r) == turn' = [turn EXCEPT ![r] = turn'[r]] /\ turn'[r] \in TurnRecord

LEMMA HandlersType == TypeOK => turn \in [Turns -> TurnRecord]
BY DEF TypeOK, TurnRecord, Trial

\* Giving a use back or keeping it conserves the uses.
LEMMA TrialStep ==
  ASSUME TypeOK, TrialsConserved, NEW r \in Turns, OnlyMoves(r), TrialKept(r)
  PROVE  TrialsConserved' /\ wallet' \in 0..Trials
<1>1. turn \in [Turns -> TurnRecord] /\ wallet \in Nat /\ Trials \in Nat
  BY HandlersType, LifecycleAssumption DEF TypeOK
<1>2. Held' = IF turn'[r].trial = "held" THEN Held \cup {r} ELSE Held \ {r}
  BY <1>1 DEF Held, OnlyMoves
<1>3. wallet + Cardinality(Held) = Trials
  BY DEF TrialsConserved, Held
<1>4. wallet' + Cardinality(Held') = Trials /\ wallet' \in Nat /\ Cardinality(Held') \in Nat
  <2>1. CASE turn[r].trial = "held"
    <3>1. r \in Held /\ Held \cup {r} = Held
      BY <2>1 DEF Held
    <3>2. Cardinality(Held) \in Nat \ {0} /\ Cardinality(Held \ {r}) = Cardinality(Held) - 1
      BY <3>1, FinitelyMany, CountOne, CountPositive
    <3>3. Refunded(turn[r]).trial = "returned" /\ WalletAfterRefund(turn[r]) = wallet + 1
      BY <1>1, <2>1 DEF Refunded, WalletAfterRefund, TurnRecord
    <3>4. CASE turn'[r].trial = turn[r].trial /\ wallet' = wallet
      <4>1. Held' = Held
        BY <1>2, <2>1, <3>1, <3>4
      <4>. QED BY <1>1, <1>3, <3>2, <3>4, <4>1
    <3>5. CASE turn'[r].trial = Refunded(turn[r]).trial /\ wallet' = WalletAfterRefund(turn[r])
      <4>1. Held' = Held \ {r} /\ wallet' = wallet + 1
        BY <1>2, <3>3, <3>5
      <4>2. Cardinality(Held') = Cardinality(Held) - 1
        BY <3>2, <4>1
      <4>. QED BY <1>1, <1>3, <3>2, <4>1, <4>2
    <3>. QED BY <3>4, <3>5 DEF TrialKept
  <2>2. CASE turn[r].trial # "held"
    <3>1. Held \ {r} = Held
      BY <2>2 DEF Held
    <3>2. Refunded(turn[r]).trial = turn[r].trial /\ WalletAfterRefund(turn[r]) = wallet
      BY <2>2 DEF Refunded, WalletAfterRefund
    <3>3. turn'[r].trial # "held" /\ wallet' = wallet
      BY <2>2, <3>2 DEF TrialKept
    <3>. QED BY <1>1, <1>2, <1>3, <3>1, <3>3, FinitelyMany, CountOne
  <2>. QED BY <2>1, <2>2
<1>5. Held' = {q \in Turns : turn'[q].trial = "held"}
  BY DEF Held
<1>. HIDE DEF Held
<1>6. TrialsConserved'
  BY <1>4, <1>5 DEF TrialsConserved
<1>. QED BY <1>1, <1>4, <1>6

\* Releasing a slot or keeping it leaves the counter at or below the holders.
LEMMA SlotStep ==
  ASSUME TypeOK, SlotsAreHeld, NEW r \in Turns, OnlyMoves(r), SlotKept(r)
  PROVE  SlotsAreHeld' /\ slots' \in 0..MaxConcurrent
<1>1. turn \in [Turns -> TurnRecord] /\ slots \in Nat /\ slots <= MaxConcurrent
      /\ MaxConcurrent \in Nat
  BY HandlersType, LifecycleAssumption DEF TypeOK
<1>2. Holding' = IF turn'[r].slot THEN Holding \cup {r} ELSE Holding \ {r}
  BY <1>1 DEF Holding, OnlyMoves
<1>3. slots <= Cardinality(Holding)
  BY DEF SlotsAreHeld, Holding
<1>4. slots' <= Cardinality(Holding') /\ slots' \in Nat /\ slots' <= MaxConcurrent
  <2>1. CASE turn'[r].slot = turn[r].slot /\ slots' = slots
    <3>1. Holding' = Holding
      BY <2>1, <1>2 DEF Holding
    <3>. QED BY <1>1, <1>3, <2>1, <3>1
  <2>2. CASE ~turn'[r].slot /\ slots' = Released
    <3>1. Cardinality(Holding) \in Nat /\ Cardinality(Holding') \in Nat
          /\ Cardinality(Holding') >= Cardinality(Holding) - 1
      <4>1. Holding' = Holding \ {r}
        BY <2>2, <1>2
      <4>2. CASE r \in Holding
        BY <4>1, <4>2, FinitelyMany, CountOne, CountPositive
      <4>3. CASE r \notin Holding
        <5>1. Holding' = Holding
          BY <4>1, <4>3
        <5>2. Cardinality(Holding) \in Nat
          BY FinitelyMany, CountOne
        <5>. QED BY <5>1, <5>2
      <4>. QED BY <4>2, <4>3
    <3>. QED BY <1>1, <1>3, <2>2, <3>1 DEF Released
  <2>. QED BY <2>1, <2>2 DEF SlotKept
<1>5. Holding' = {q \in Turns : turn'[q].slot}
  BY DEF Holding
<1>. HIDE DEF Holding
<1>6. SlotsAreHeld'
  BY <1>4, <1>5 DEF SlotsAreHeld
<1>. QED BY <1>1, <1>4, <1>6

\* One handler moves; the others and what is known of them stay.
LEMMA SoundStep ==
  ASSUME IInv, NEW r \in Turns, OnlyMoves(r), Sound(turn'[r], signal'[r]),
         \A q \in Turns \ {r} : signal'[q] = signal[q]
  PROVE  turn' \in [Turns -> TurnRecord] /\ \A q \in Turns : Sound(turn'[q], signal'[q])
<1>1. turn \in [Turns -> TurnRecord]
  BY HandlersType DEF IInv
<1>2. turn' \in [Turns -> TurnRecord]
  BY <1>1 DEF OnlyMoves
<1>3. ASSUME NEW q \in Turns \ {r} PROVE Sound(turn'[q], signal'[q])
  <2>1. turn'[q] = turn[q] /\ signal'[q] = signal[q]
    BY <1>1 DEF OnlyMoves
  <2>. QED BY <2>1 DEF IInv
<1>. QED BY <1>2, <1>3

\* A step that touches neither the registry nor the process.
LEMMA HandlerStep ==
  ASSUME IInv, NEW r \in Turns, OnlyMoves(r), TrialKept(r), SlotKept(r),
         Sound(turn'[r], signal'[r]),
         UNCHANGED <<active, latest, phase>>,
         signal' \in [Turns -> Reasons], \A q \in Turns \ {r} : signal'[q] = signal[q]
  PROVE  IInv'
<1>1. TrialsConserved' /\ wallet' \in 0..Trials
  BY TrialStep DEF IInv
<1>2. SlotsAreHeld' /\ slots' \in 0..MaxConcurrent
  BY SlotStep DEF IInv
<1>3. turn' \in [Turns -> TurnRecord] /\ \A q \in Turns : Sound(turn'[q], signal'[q])
  BY SoundStep
<1>4. StopTargetsRunning'
  BY DEF IInv, StopTargetsRunning
<1>5. TypeOK'
  BY <1>1, <1>2, <1>3 DEF IInv, TypeOK, TurnRecord, Trial, Reasons
<1>. QED BY <1>1, <1>2, <1>3, <1>4, <1>5 DEF IInv

-----------------------------------------------------------------------------
(* Every step keeps the invariant.                                         *)

LEMMA InitIInv == Init => IInv
<1>. SUFFICES ASSUME Init PROVE IInv
  OBVIOUS
<1>1. \A r \in Turns : turn[r] = Fresh /\ signal[r] = None
  BY DEF Init
<1>2. Held = {} /\ Holding = {}
  BY <1>1 DEF Held, Holding, Fresh
<1>3. TypeOK
  BY LifecycleAssumption DEF Init, TypeOK, Fresh, Stages
<1>4. TrialsConserved
  BY <1>2, FS_EmptySet, LifecycleAssumption DEF TrialsConserved, Held, Init
<1>5. SlotsAreHeld
  BY <1>2, FS_EmptySet DEF SlotsAreHeld, Holding, Init
<1>6. StopTargetsRunning
  BY DEF StopTargetsRunning, Init
<1>7. \A r \in Turns : Sound(turn[r], signal[r])
  BY <1>1, LifecycleAssumption DEF Sound, Fresh, Closing
<1>. QED BY <1>3, <1>4, <1>5, <1>6, <1>7 DEF IInv

\* What a handler's step may assume of its own record.
LEMMA Here ==
  ASSUME IInv, NEW r \in Turns
  PROVE  /\ turn \in [Turns -> TurnRecord] /\ turn[r] \in TurnRecord
         /\ signal \in [Turns -> Reasons] /\ signal[r] \in Reasons
         /\ Sound(turn[r], signal[r])
BY HandlersType DEF IInv, TypeOK, Reasons

LEMMA MovesTo ==
  ASSUME IInv, NEW r \in Turns, NEW t \in TurnRecord, turn' = [turn EXCEPT ![r] = t]
  PROVE  OnlyMoves(r) /\ turn'[r] = t
BY Here DEF OnlyMoves

\* A handler that goes on with nothing else written of it.
LEMMA GoesOn ==
  ASSUME IInv, NEW r \in Turns, NEW pc \in Stages, Goes(r, pc, turn[r])
  PROVE  OnlyMoves(r) /\ turn'[r] = [turn[r] EXCEPT !.pc = pc]
<1>1. [turn[r] EXCEPT !.pc = pc] \in TurnRecord
  BY Here DEF TurnRecord
<1>. QED BY <1>1, MovesTo DEF Goes, Becomes

LEMMA RefuseStep ==
  ASSUME IInv, NEW r \in Turns, Refuse(r)
  PROVE  IInv'
<1>1. OnlyMoves(r) /\ turn'[r] = [Refunded(turn[r]) EXCEPT !.pc = "ended"]
  <2>1. [Refunded(turn[r]) EXCEPT !.pc = "ended"] \in TurnRecord
    BY Here DEF Refunded, TurnRecord, Stages, Trial
  <2>. QED BY <2>1, MovesTo DEF Refuse, Goes, Becomes
<1>2. TrialKept(r) /\ SlotKept(r)
  BY <1>1, Here DEF Refuse, TrialKept, SlotKept, Refunded, TurnRecord
<1>3. Sound(turn'[r], signal'[r])
  BY <1>1, Here DEF Refuse, At, registry, Refunded, Sound, Closing, TurnRecord
<1>. QED BY <1>1, <1>2, <1>3, Here, HandlerStep DEF Refuse, registry

\* A step that changes nothing outside the handler's record.
LEMMA QuietStep ==
  ASSUME IInv, NEW r \in Turns, OnlyMoves(r), Sound(turn'[r], signal[r]),
         turn'[r].trial = turn[r].trial, turn'[r].slot = turn[r].slot,
         UNCHANGED <<wallet, slots, registry, phase>>
  PROVE  IInv'
<1>1. TrialKept(r) /\ SlotKept(r)
  BY DEF TrialKept, SlotKept
<1>2. UNCHANGED <<active, latest, signal, phase>>
  BY DEF registry
<1>. QED BY <1>1, <1>2, Here, HandlerStep

LEMMA InsertRowStep ==
  ASSUME IInv, NEW r \in Turns, InsertRow(r)
  PROVE  IInv'
<1>1. OnlyMoves(r) /\ turn'[r] = [turn[r] EXCEPT !.row = "complete", !.pc = "rowed"]
  <2>1. [turn[r] EXCEPT !.row = "complete", !.pc = "rowed"] \in TurnRecord
    BY Here DEF TurnRecord, Stages
  <2>. QED BY <2>1, MovesTo DEF InsertRow, Goes, Becomes
<1>2. Sound(turn'[r], signal[r])
  BY <1>1, Here DEF InsertRow, At, Sound, Closing, TurnRecord
<1>3. turn'[r].trial = turn[r].trial /\ turn'[r].slot = turn[r].slot
  BY <1>1, Here DEF TurnRecord
<1>. QED BY <1>1, <1>2, <1>3, QuietStep DEF InsertRow

LEMMA PreflightRefuseStep ==
  ASSUME IInv, NEW r \in Turns, PreflightRefuse(r)
  PROVE  IInv'
<1>1. OnlyMoves(r) /\ turn'[r] = [turn[r] EXCEPT !.pc = "finishing"]
  BY GoesOn DEF PreflightRefuse, Stages
<1>2. Sound(turn'[r], signal[r])
  BY <1>1, Here DEF PreflightRefuse, At, Sound, Closing, TurnRecord
<1>3. turn'[r].trial = turn[r].trial /\ turn'[r].slot = turn[r].slot
  BY <1>1, Here DEF TurnRecord
<1>. QED BY <1>1, <1>2, <1>3, QuietStep DEF PreflightRefuse

LEMMA BeginStreamStep ==
  ASSUME IInv, NEW r \in Turns, BeginStream(r)
  PROVE  IInv'
<1>1. OnlyMoves(r) /\ turn'[r] = [turn[r] EXCEPT !.pc = "streaming"]
  BY GoesOn DEF BeginStream, Stages
<1>2. Sound(turn'[r], signal[r])
  BY <1>1, Here DEF BeginStream, At, Sound, Closing, TurnRecord
<1>3. turn'[r].trial = turn[r].trial /\ turn'[r].slot = turn[r].slot
  BY <1>1, Here DEF TurnRecord
<1>. QED BY <1>1, <1>2, <1>3, QuietStep DEF BeginStream

LEMMA ErrorChunkStep ==
  ASSUME IInv, NEW r \in Turns, ErrorChunk(r)
  PROVE  IInv'
<1>1. OnlyMoves(r) /\ turn'[r] = [turn[r] EXCEPT !.row = "failed", !.pc = "finishing"]
  <2>1. [turn[r] EXCEPT !.row = "failed", !.pc = "finishing"] \in TurnRecord
    BY Here DEF TurnRecord, Stages
  <2>. QED BY <2>1, MovesTo DEF ErrorChunk, Goes, Becomes, Failed
<1>2. Sound(turn'[r], signal[r])
  BY <1>1, Here DEF ErrorChunk, At, Sound, Closing, TurnRecord, Failed
<1>3. turn'[r].trial = turn[r].trial /\ turn'[r].slot = turn[r].slot
  BY <1>1, Here DEF TurnRecord, Failed
<1>. QED BY <1>1, <1>2, <1>3, QuietStep DEF ErrorChunk

LEMMA StreamEndsStep ==
  ASSUME IInv, NEW r \in Turns, StreamEnds(r)
  PROVE  IInv'
<1>1. OnlyMoves(r) /\ turn'[r] = [turn[r] EXCEPT !.pc = "finishing"]
  BY GoesOn DEF StreamEnds, Stages
<1>2. Sound(turn'[r], signal[r])
  BY <1>1, Here DEF StreamEnds, At, Sound, Closing, TurnRecord
<1>3. turn'[r].trial = turn[r].trial /\ turn'[r].slot = turn[r].slot
  BY <1>1, Here DEF TurnRecord
<1>. QED BY <1>1, <1>2, <1>3, QuietStep DEF StreamEnds

LEMMA RejectReplyStep ==
  ASSUME IInv, NEW r \in Turns, RejectReply(r)
  PROVE  IInv'
<1>1. OnlyMoves(r) /\ turn'[r] = [turn[r] EXCEPT !.row = "failed", !.pc = "finishing"]
  <2>1. [turn[r] EXCEPT !.row = "failed", !.pc = "finishing"] \in TurnRecord
    BY Here DEF TurnRecord, Stages
  <2>. QED BY <2>1, MovesTo DEF RejectReply, Goes, Becomes, Failed
<1>2. Sound(turn'[r], signal[r])
  BY <1>1, Here DEF RejectReply, At, Sound, Closing, TurnRecord, Failed
<1>3. turn'[r].trial = turn[r].trial /\ turn'[r].slot = turn[r].slot
  BY <1>1, Here DEF TurnRecord, Failed
<1>. QED BY <1>1, <1>2, <1>3, QuietStep DEF RejectReply

LEMMA DeliverStep ==
  ASSUME IInv, NEW r \in Turns, Deliver(r)
  PROVE  IInv'
<1>1. OnlyMoves(r) /\ turn'[r] = [turn[r] EXCEPT !.pc = "finishing"]
  BY GoesOn DEF Deliver, Stages
<1>2. Sound(turn'[r], signal[r])
  BY <1>1, Here DEF Deliver, At, Sound, Closing, TurnRecord
<1>3. turn'[r].trial = turn[r].trial /\ turn'[r].slot = turn[r].slot
  BY <1>1, Here DEF TurnRecord
<1>. QED BY <1>1, <1>2, <1>3, QuietStep DEF Deliver

LEMMA ThrowStep ==
  ASSUME IInv, NEW r \in Turns, Throw(r)
  PROVE  IInv'
<1>1. OnlyMoves(r) /\ turn'[r] = [turn[r] EXCEPT !.pc = "catching"]
  BY GoesOn DEF Throw, Stages
<1>2. Sound(turn'[r], signal[r])
  BY <1>1, Here DEF Throw, At, Sound, Closing, TurnRecord
<1>3. turn'[r].trial = turn[r].trial /\ turn'[r].slot = turn[r].slot
  BY <1>1, Here DEF TurnRecord
<1>. QED BY <1>1, <1>2, <1>3, QuietStep DEF Throw

LEMMA AbandonRowStep ==
  ASSUME IInv, NEW r \in Turns, AbandonRow(r)
  PROVE  IInv'
<1>1. OnlyMoves(r) /\ turn'[r] = [Refunded(turn[r]) EXCEPT !.slot = FALSE, !.pc = "ended"]
  <2>1. [Refunded(turn[r]) EXCEPT !.slot = FALSE, !.pc = "ended"] \in TurnRecord
    <3>1. Refunded(turn[r]) \in TurnRecord /\ "ended" \in Stages
      BY Here DEF Refunded, TurnRecord, Trial, Stages
    <3>. QED BY <3>1 DEF TurnRecord
  <2>. QED BY <2>1, MovesTo DEF AbandonRow, Goes, Becomes
<1>2. TrialKept(r) /\ SlotKept(r)
  BY <1>1, Here DEF AbandonRow, TrialKept, SlotKept, Refunded, TurnRecord
<1>3. Sound(turn'[r], signal'[r])
  BY <1>1, Here DEF AbandonRow, At, registry, Refunded, Sound, Closing, TurnRecord
<1>. QED BY <1>1, <1>2, <1>3, Here, HandlerStep DEF AbandonRow, registry

LEMMA SetupFailsStep ==
  ASSUME IInv, NEW r \in Turns, SetupFails(r)
  PROVE  IInv'
<1>1. OnlyMoves(r) /\ turn'[r] = [Refunded(turn[r]) EXCEPT !.slot = FALSE, !.pc = "ended"]
  <2>1. [Refunded(turn[r]) EXCEPT !.slot = FALSE, !.pc = "ended"] \in TurnRecord
    <3>1. Refunded(turn[r]) \in TurnRecord /\ "ended" \in Stages
      BY Here DEF Refunded, TurnRecord, Trial, Stages
    <3>. QED BY <3>1 DEF TurnRecord
  <2>. QED BY <2>1, MovesTo DEF SetupFails, Goes, Becomes
<1>2. TrialKept(r) /\ SlotKept(r)
  BY <1>1, Here DEF SetupFails, TrialKept, SlotKept, Refunded, TurnRecord
<1>3. Sound(turn'[r], signal'[r])
  BY <1>1, Here DEF SetupFails, At, registry, Refunded, Sound, Closing, TurnRecord
<1>. QED BY <1>1, <1>2, <1>3, Here, HandlerStep DEF SetupFails, registry

LEMMA ReleaseSlotStep ==
  ASSUME IInv, NEW r \in Turns, ReleaseSlot(r)
  PROVE  IInv'
<1>1. OnlyMoves(r) /\ turn'[r] = [turn[r] EXCEPT !.slot = FALSE, !.pc = "ended"]
  <2>1. [turn[r] EXCEPT !.slot = FALSE, !.pc = "ended"] \in TurnRecord
    BY Here DEF TurnRecord, Stages
  <2>. QED BY <2>1, MovesTo DEF ReleaseSlot, Goes, Becomes
<1>2. TrialKept(r) /\ SlotKept(r)
  BY <1>1, Here DEF ReleaseSlot, TrialKept, SlotKept, TurnRecord
<1>3. Sound(turn'[r], signal'[r])
  BY <1>1, Here DEF ReleaseSlot, At, registry, Sound, Closing, TurnRecord
<1>. QED BY <1>1, <1>2, <1>3, Here, HandlerStep DEF ReleaseSlot, registry

LEMMA ReturnTrialStep ==
  ASSUME IInv, NEW r \in Turns, ReturnTrial(r)
  PROVE  IInv'
<1>. DEFINE kept == IF turn[r].saved THEN turn[r] ELSE Refunded(turn[r])
<1>1. OnlyMoves(r) /\ turn'[r] = [kept EXCEPT !.pc = "leaving"]
  BY Here DEF ReturnTrial, Goes, Becomes, OnlyMoves, Refunded, TurnRecord, Stages, Trial
<1>2. TrialKept(r) /\ SlotKept(r)
  BY <1>1, Here DEF ReturnTrial, TrialKept, SlotKept, Refunded, TurnRecord
<1>3. Sound(turn'[r], signal'[r])
  BY <1>1, Here DEF ReturnTrial, At, registry, Refunded, Sound, Closing, TurnRecord
<1>. QED BY <1>1, <1>2, <1>3, Here, HandlerStep DEF ReturnTrial, registry

LEMMA CreditsRunOutStep ==
  ASSUME IInv, NEW r \in Turns, CreditsRunOut(r)
  PROVE  IInv'
<1>1. OnlyMoves(r) /\ turn'[r] = [turn[r] EXCEPT !.pc = "finishing"]
  BY GoesOn DEF CreditsRunOut, Stages
<1>2. TrialKept(r) /\ SlotKept(r)
  BY <1>1, Here DEF CreditsRunOut, TrialKept, SlotKept, TurnRecord
<1>3. signal' \in [Turns -> Reasons] /\ \A q \in Turns \ {r} : signal'[q] = signal[q]
  BY Here DEF CreditsRunOut, Reasons
<1>4. Sound(turn'[r], signal'[r])
  BY <1>1, Here DEF CreditsRunOut, At, Sound, Closing, TurnRecord
<1>. QED BY <1>1, <1>2, <1>3, <1>4, HandlerStep DEF CreditsRunOut

\* A stopped or exhausted turn is marked and, perhaps, charged.
LEMMA SettledType ==
  ASSUME NEW t \in TurnRecord, t.charges <= 1, NEW charge \in BOOLEAN
  PROVE  /\ Settled(t, charge) \in TurnRecord
         /\ Settled(t, charge).trial = t.trial /\ Settled(t, charge).slot = t.slot
         /\ Settled(t, charge).row = t.row /\ Settled(t, charge).saved = t.saved
<1>. DEFINE due == IF charge /\ t.trial = "none" THEN t.charges + 1 ELSE t.charges
<1>1. due \in 0..2
  BY DEF TurnRecord
<1>2. Settled(t, charge) = [t EXCEPT !.settled = TRUE, !.charges = due]
  BY DEF Settled, TurnRecord
<1>. HIDE DEF due
<1>. QED BY <1>1, <1>2 DEF TurnRecord

\* What follows a look at the signal: settled and finished, or onwards.
LEMMA LookStep ==
  ASSUME IInv, NEW r \in Turns, NEW pc \in {"reviewing", "saving"},
         At(r, "streaming") \/ At(r, "reviewing"),
         UNCHANGED <<wallet, slots, registry, phase>>,
         \/ \E charge \in BOOLEAN : Goes(r, "finishing", Failed(Settled(turn[r], charge)))
         \/ Goes(r, pc, turn[r])
  PROVE  IInv'
<1>0. turn[r].charges <= 1 /\ ~turn[r].saved /\ turn[r].row # "failed" /\ signal[r] # "credits"
  BY Here DEF Sound, At, Closing
<1>1. CASE \E charge \in BOOLEAN : Goes(r, "finishing", Failed(Settled(turn[r], charge)))
  <2>1. PICK charge \in BOOLEAN : Goes(r, "finishing", Failed(Settled(turn[r], charge)))
    BY <1>1
  <2>. DEFINE t == Settled(turn[r], charge)
  <2>2. t \in TurnRecord /\ t.trial = turn[r].trial /\ t.slot = turn[r].slot /\ ~t.saved
    BY <1>0, Here, SettledType
  <2>3. turn' = [turn EXCEPT ![r] = [Failed(t) EXCEPT !.pc = "finishing"]]
    BY <2>1 DEF Goes, Becomes
  <2>. HIDE DEF t
  <2>4. OnlyMoves(r) /\ turn'[r] = [t EXCEPT !.row = "failed", !.pc = "finishing"]
    BY <2>2, <2>3, Here DEF Failed, OnlyMoves, TurnRecord, Stages
  <2>5. Sound(turn'[r], signal[r])
    BY <2>2, <2>4 DEF Sound, Closing, TurnRecord
  <2>6. turn'[r].trial = turn[r].trial /\ turn'[r].slot = turn[r].slot
    BY <2>2, <2>4 DEF TurnRecord
  <2>. QED BY <2>4, <2>5, <2>6, QuietStep
<1>2. CASE Goes(r, pc, turn[r])
  <2>1. OnlyMoves(r) /\ turn'[r] = [turn[r] EXCEPT !.pc = pc]
    BY <1>2, GoesOn DEF Stages
  <2>2. Sound(turn'[r], signal[r])
    BY <1>0, <2>1, Here DEF Sound, Closing, TurnRecord
  <2>3. turn'[r].trial = turn[r].trial /\ turn'[r].slot = turn[r].slot
    BY <2>1, Here DEF TurnRecord
  <2>. QED BY <2>1, <2>2, <2>3, QuietStep
<1>. QED BY <1>1, <1>2

LEMMA DoneChunkStep ==
  ASSUME IInv, NEW r \in Turns, DoneChunk(r)
  PROVE  IInv'
BY LookStep DEF DoneChunk

LEMMA AcceptReplyStep ==
  ASSUME IInv, NEW r \in Turns, AcceptReply(r)
  PROVE  IInv'
BY LookStep DEF AcceptReply

LEMMA CommitStep ==
  ASSUME IInv, NEW r \in Turns, NEW paid \in BOOLEAN, Commit(r, paid)
  PROVE  IInv'
<1>. DEFINE price == IF paid THEN 1 ELSE 0
<1>0. price \in 0..2 /\ price <= 1
  OBVIOUS
<1>1. turn' = [turn EXCEPT ![r] = [turn[r] EXCEPT !.saved = TRUE, !.charges = price,
                                                  !.pc = "saved"]]
  BY Here DEF Commit, Goes, Becomes
<1>. HIDE DEF price
<1>4. OnlyMoves(r) /\ turn'[r] = [turn[r] EXCEPT !.saved = TRUE, !.charges = price,
                                                 !.pc = "saved"]
  <2>1. [turn[r] EXCEPT !.saved = TRUE, !.charges = price, !.pc = "saved"] \in TurnRecord
    BY <1>0, Here DEF TurnRecord, Stages
  <2>. QED BY <1>1, <2>1, MovesTo
<1>2. Sound(turn'[r], signal[r])
  BY <1>0, <1>4, Here DEF Commit, At, Sound, Closing, TurnRecord
<1>3. turn'[r].trial = turn[r].trial /\ turn'[r].slot = turn[r].slot
  BY <1>4, Here DEF TurnRecord
<1>. QED BY <1>2, <1>3, <1>4, QuietStep DEF Commit

\* The price of a reply: nothing, or credits in place of the trial use.
LEMMA BillStep ==
  ASSUME IInv, NEW r \in Turns, Bill(r)
  PROVE  IInv'
<1>0. turn[r].saved /\ turn[r].charges \in 0..1
  BY Here DEF Bill, At, Sound, Closing, TurnRecord
<1>1. CASE turn[r].charges = 0 /\ UNCHANGED wallet
           /\ turn' = [turn EXCEPT ![r] = [turn[r] EXCEPT !.row = "complete", !.pc = "billed"]]
  <2>1. OnlyMoves(r) /\ turn'[r] = [turn[r] EXCEPT !.row = "complete", !.pc = "billed"]
    <3>1. [turn[r] EXCEPT !.row = "complete", !.pc = "billed"] \in TurnRecord
      BY Here DEF TurnRecord, Stages
    <3>. QED BY <1>1, <3>1, MovesTo
  <2>2. Sound(turn'[r], signal[r])
    BY <1>0, <1>1, <2>1, Here DEF Bill, At, Sound, Closing, TurnRecord
  <2>3. turn'[r].trial = turn[r].trial /\ turn'[r].slot = turn[r].slot
    BY <2>1, Here DEF TurnRecord
  <2>. QED BY <1>1, <2>1, <2>2, <2>3, QuietStep DEF Bill
<1>2. ASSUME NEW deducted \in {0, 1}, wallet' = WalletAfterRefund(turn[r]),
             turn' = [turn EXCEPT ![r] =
                        [Refunded([turn[r] EXCEPT !.row = "complete"])
                           EXCEPT !.charges = deducted, !.pc = "billed"]]
      PROVE  IInv'
  <2>1. Refunded([turn[r] EXCEPT !.row = "complete"])
          = [Refunded(turn[r]) EXCEPT !.row = "complete"]
    BY Here DEF Refunded, TurnRecord
  <2>2. Refunded(turn[r]) \in TurnRecord /\ Refunded(turn[r]).trial # "held"
        /\ Refunded(turn[r]).saved = turn[r].saved /\ Refunded(turn[r]).slot = turn[r].slot
    BY Here DEF Refunded, TurnRecord, Trial
  <2>. DEFINE old == Refunded(turn[r])
              new == [old EXCEPT !.row = "complete", !.charges = deducted, !.pc = "billed"]
  <2>7. turn' = [turn EXCEPT ![r] = new]
    BY <1>2, <2>1, <2>2 DEF TurnRecord
  <2>9. old \in TurnRecord /\ deducted \in 0..2
    BY <2>2
  <2>. HIDE DEF old
  <2>8. new \in TurnRecord /\ new.trial = old.trial /\ new.slot = old.slot
        /\ new.saved = old.saved /\ new.charges = deducted /\ new.pc = "billed"
        /\ new.row = "complete"
    BY <2>9 DEF TurnRecord, Stages
  <2>. HIDE DEF new
  <2>3. OnlyMoves(r) /\ turn'[r] = new
    BY <2>7, <2>8, MovesTo
  <2>4. TrialKept(r) /\ SlotKept(r)
    BY <1>2, <2>2, <2>3, <2>8 DEF Bill, TrialKept, SlotKept, old
  <2>5. signal' = signal /\ signal[r] # "credits"
    BY Here DEF Bill, At, registry, Sound, Closing
  <2>6. Sound(turn'[r], signal'[r])
    BY <1>0, <2>2, <2>3, <2>5, <2>8 DEF Sound, Closing, old
  <2>. QED BY <2>3, <2>4, <2>5, <2>6, Here, HandlerStep DEF Bill, registry
<1>3. \/ /\ turn[r].charges = 0 /\ UNCHANGED wallet
         /\ turn' = [turn EXCEPT ![r] = [turn[r] EXCEPT !.row = "complete", !.pc = "billed"]]
      \/ \E deducted \in {0, 1} :
           /\ wallet' = WalletAfterRefund(turn[r])
           /\ turn' = [turn EXCEPT ![r] =
                         [Refunded([turn[r] EXCEPT !.row = "complete"])
                            EXCEPT !.charges = deducted, !.pc = "billed"]]
  BY Zenon DEF Bill, Goes, Becomes
<1>. QED BY <1>1, <1>2, <1>3

\* A failed step of the handler: settled, left alone, or refunded.
LEMMA CatchStep ==
  ASSUME IInv, NEW r \in Turns, Catch(r)
  PROVE  IInv'
<1>. DEFINE failed(t) == IF turn[r].saved THEN t ELSE [t EXCEPT !.row = "failed"]
<1>0. turn[r].charges <= 1 /\ turn[r].row # "failed" /\ signal[r] # "credits"
  BY Here DEF Catch, Sound, At, Closing
<1>1. ASSUME NEW t \in TurnRecord, t.saved = turn[r].saved, t.row = turn[r].row,
             t.slot = turn[r].slot, turn' = [turn EXCEPT ![r] = [failed(t) EXCEPT !.pc = "finishing"]],
             \/ t.trial = turn[r].trial /\ wallet' = wallet
             \/ t.trial = Refunded(turn[r]).trial /\ wallet' = WalletAfterRefund(turn[r])
      PROVE  IInv'
  <2>1. failed(t) \in TurnRecord /\ failed(t).trial = t.trial /\ failed(t).slot = t.slot
        /\ failed(t).saved = t.saved /\ (t.saved => failed(t).row # "failed")
    BY <1>0, <1>1 DEF TurnRecord
  <2>. HIDE DEF failed
  <2>2. OnlyMoves(r) /\ turn'[r] = [failed(t) EXCEPT !.pc = "finishing"]
    BY <1>1, <2>1, Here DEF OnlyMoves, TurnRecord, Stages
  <2>3. turn'[r].trial = t.trial /\ turn'[r].slot = t.slot /\ turn'[r].saved = t.saved
        /\ turn'[r].pc = "finishing" /\ turn'[r].row = failed(t).row
    BY <2>1, <2>2 DEF TurnRecord
  <2>4. TrialKept(r) /\ SlotKept(r)
    BY <1>1, <2>3 DEF Catch, TrialKept, SlotKept
  <2>5. Sound(turn'[r], signal'[r])
    BY <2>1, <2>3 DEF Sound, Closing
  <2>. QED BY <2>2, <2>4, <2>5, Here, HandlerStep DEF Catch, registry
<1>2. \A t \in TurnRecord : t.saved = turn[r].saved => FailedUnlessSaved(t) = failed(t)
  BY DEF FailedUnlessSaved, Failed
<1>3. CASE IsClientAbort(r)
  <2>1. PICK charge \in BOOLEAN :
          Goes(r, "finishing", FailedUnlessSaved(Settled(turn[r], charge)))
    BY <1>3 DEF Catch
  <2>. DEFINE t == Settled(turn[r], charge)
  <2>2. t \in TurnRecord /\ t.trial = turn[r].trial /\ t.slot = turn[r].slot
        /\ t.row = turn[r].row /\ t.saved = turn[r].saved
    BY <1>0, Here, SettledType
  <2>3. wallet' = wallet
    BY <1>3 DEF Catch
  <2>4. turn' = [turn EXCEPT ![r] = [FailedUnlessSaved(t) EXCEPT !.pc = "finishing"]]
    BY <2>1 DEF Goes, Becomes
  <2>. HIDE DEF t, failed
  <2>. QED BY <1>1, <1>2, <2>2, <2>3, <2>4
<1>4. CASE ~IsClientAbort(r) /\ turn[r].saved
  <2>1. turn' = [turn EXCEPT ![r] = [FailedUnlessSaved(turn[r]) EXCEPT !.pc = "finishing"]]
        /\ wallet' = wallet
    BY <1>4 DEF Catch, Goes, Becomes
  <2>. HIDE DEF failed
  <2>. QED BY <1>1, <1>2, <2>1, Here
<1>5. CASE ~IsClientAbort(r) /\ ~turn[r].saved
  <2>1. turn' = [turn EXCEPT ![r] = [FailedUnlessSaved(Refunded(turn[r]))
                                       EXCEPT !.pc = "finishing"]]
        /\ wallet' = WalletAfterRefund(turn[r])
    BY <1>5 DEF Catch, Goes, Becomes
  <2>2. Refunded(turn[r]) \in TurnRecord /\ Refunded(turn[r]).saved = turn[r].saved
        /\ Refunded(turn[r]).row = turn[r].row /\ Refunded(turn[r]).slot = turn[r].slot
    BY Here DEF Refunded, TurnRecord, Trial
  <2>. HIDE DEF failed
  <2>. QED BY <1>1, <1>2, <2>1, <2>2
<1>. QED BY <1>3, <1>4, <1>5

LEMMA ClaimStep ==
  ASSUME IInv, NEW r \in Turns, Claim(r)
  PROVE  IInv'
<1>1. CASE Goes(r, "gated", turn[r]) /\ UNCHANGED wallet
  <2>1. OnlyMoves(r) /\ turn'[r] = [turn[r] EXCEPT !.pc = "gated"]
    BY <1>1, GoesOn DEF Stages
  <2>2. Sound(turn'[r], signal[r])
    BY <2>1, Here DEF Claim, At, Sound, Closing, TurnRecord
  <2>3. turn'[r].trial = turn[r].trial /\ turn'[r].slot = turn[r].slot
    BY <2>1, Here DEF TurnRecord
  <2>. QED BY <1>1, <2>1, <2>2, <2>3, QuietStep DEF Claim
<1>2. CASE wallet > 0 /\ wallet' = wallet - 1
           /\ Goes(r, "gated", [turn[r] EXCEPT !.trial = "held"])
  <2>. DEFINE new == [turn[r] EXCEPT !.trial = "held", !.pc = "gated"]
  <2>1. turn' = [turn EXCEPT ![r] = new]
    BY <1>2 DEF Goes, Becomes
  <2>2. new \in TurnRecord /\ new.trial = "held" /\ new.slot = turn[r].slot
    BY Here DEF TurnRecord, Stages, Trial
  <2>3. Sound(new, signal[r]) /\ turn[r].trial # "held"
    BY Here DEF Claim, At, Sound, Closing, TurnRecord
  <2>. HIDE DEF new
  <2>4. OnlyMoves(r) /\ turn'[r] = new
    BY <2>1, <2>2, MovesTo
  <2>5. SlotsAreHeld' /\ slots' \in 0..MaxConcurrent
    <3>1. SlotKept(r)
      BY <2>2, <2>4 DEF Claim, SlotKept
    <3>. QED BY <3>1, <2>4, SlotStep DEF IInv
  <2>6. TrialsConserved' /\ wallet' \in 0..Trials
    <3>1. Held' = Held \cup {r} /\ r \notin Held
      BY <2>2, <2>3, <2>4, Here DEF Held, OnlyMoves
    <3>2. Cardinality(Held) \in Nat /\ Cardinality(Held') = Cardinality(Held) + 1
      BY <3>1, FinitelyMany, CountOne
    <3>3. wallet \in Nat /\ Trials \in Nat /\ wallet + Cardinality(Held) = Trials
      BY LifecycleAssumption DEF IInv, TypeOK, TrialsConserved, Held
    <3>4. wallet' + Cardinality(Held') = Trials /\ wallet' \in 0..Trials
      BY <1>2, <3>2, <3>3
    <3>5. Held' = {q \in Turns : turn'[q].trial = "held"}
      BY DEF Held
    <3>. HIDE DEF Held
    <3>. QED BY <3>4, <3>5 DEF TrialsConserved
  <2>7. turn' \in [Turns -> TurnRecord] /\ \A q \in Turns : Sound(turn'[q], signal'[q])
    BY <2>3, <2>4, SoundStep DEF Claim, registry
  <2>8. TypeOK' /\ StopTargetsRunning'
    BY <2>5, <2>6, <2>7 DEF Claim, registry, IInv, TypeOK, StopTargetsRunning, TurnRecord, Trial
  <2>. QED BY <2>5, <2>6, <2>7, <2>8 DEF IInv
<1>. QED BY <1>1, <1>2 DEF Claim

LEMMA AcquireSlotStep ==
  ASSUME IInv, NEW r \in Turns, AcquireSlot(r)
  PROVE  IInv'
<1>. DEFINE new == [turn[r] EXCEPT !.slot = TRUE, !.pc = "setup"]
<1>1. turn' = [turn EXCEPT ![r] = new]
  BY DEF AcquireSlot, Goes, Becomes
<1>2. new \in TurnRecord /\ new.slot /\ new.trial = turn[r].trial
  BY Here DEF TurnRecord, Stages
<1>3. Sound(new, signal[r]) /\ ~turn[r].slot
  BY Here DEF AcquireSlot, At, Sound, Closing, TurnRecord
<1>. HIDE DEF new
<1>4. OnlyMoves(r) /\ turn'[r] = new
  BY <1>1, <1>2, MovesTo
<1>5. TrialsConserved' /\ wallet' \in 0..Trials
  <2>1. TrialKept(r)
    BY <1>2, <1>4 DEF AcquireSlot, TrialKept
  <2>. QED BY <2>1, <1>4, TrialStep DEF IInv
<1>6. SlotsAreHeld' /\ slots' \in 0..MaxConcurrent
  <2>1. Holding' = Holding \cup {r} /\ r \notin Holding
    BY <1>2, <1>3, <1>4, Here DEF Holding, OnlyMoves
  <2>2. Cardinality(Holding) \in Nat /\ Cardinality(Holding') = Cardinality(Holding) + 1
    BY <2>1, FinitelyMany, CountOne
  <2>3. slots \in Nat /\ MaxConcurrent \in Nat /\ slots <= Cardinality(Holding)
    BY LifecycleAssumption DEF IInv, TypeOK, SlotsAreHeld, Holding
  <2>4. slots' <= Cardinality(Holding') /\ slots' \in 0..MaxConcurrent
    BY <2>2, <2>3 DEF AcquireSlot
  <2>5. Holding' = {q \in Turns : turn'[q].slot}
    BY DEF Holding
  <2>. HIDE DEF Holding
  <2>. QED BY <2>4, <2>5 DEF SlotsAreHeld
<1>7. turn' \in [Turns -> TurnRecord] /\ \A q \in Turns : Sound(turn'[q], signal'[q])
  BY <1>3, <1>4, SoundStep DEF AcquireSlot, registry
<1>8. TypeOK' /\ StopTargetsRunning'
  BY <1>5, <1>6, <1>7
     DEF AcquireSlot, registry, IInv, TypeOK, StopTargetsRunning, TurnRecord, Trial
<1>. QED BY <1>5, <1>6, <1>7, <1>8 DEF IInv

\* The two steps on the registry, with what they do to the map of the stop
\* endpoint shown apart.
LEMMA RegistryStep ==
  ASSUME IInv, NEW r \in Turns, OnlyMoves(r), turn'[r].trial = turn[r].trial,
         turn'[r].slot = turn[r].slot, Sound(turn'[r], signal[r]),
         UNCHANGED <<wallet, slots, signal, phase>>,
         active' \subseteq Turns, latest' \in [Sessions -> Turns \cup {None}],
         StopTargetsRunning'
  PROVE  IInv'
<1>1. TrialKept(r) /\ SlotKept(r)
  BY DEF TrialKept, SlotKept
<1>2. TrialsConserved' /\ wallet' \in 0..Trials
  BY <1>1, TrialStep DEF IInv
<1>3. SlotsAreHeld' /\ slots' \in 0..MaxConcurrent
  BY <1>1, SlotStep DEF IInv
<1>4. turn' \in [Turns -> TurnRecord] /\ \A q \in Turns : Sound(turn'[q], signal'[q])
  BY SoundStep
<1>5. TypeOK'
  BY <1>2, <1>3, <1>4 DEF IInv, TypeOK, TurnRecord, Trial
<1>. QED BY <1>2, <1>3, <1>4, <1>5 DEF IInv

LEMMA RegisterStep ==
  ASSUME IInv, NEW r \in Turns, Register(r)
  PROVE  IInv'
<1>1. OnlyMoves(r) /\ turn'[r] = [turn[r] EXCEPT !.pc = "registered"]
  BY GoesOn DEF Register, Stages
<1>2. Sound(turn'[r], signal[r])
  BY <1>1, Here DEF Register, At, Sound, Closing, TurnRecord
<1>3. turn'[r].trial = turn[r].trial /\ turn'[r].slot = turn[r].slot
  BY <1>1, Here DEF TurnRecord
<1>4. active' \subseteq Turns /\ latest' \in [Sessions -> Turns \cup {None}]
  BY DEF Register, IInv, TypeOK
<1>5. StopTargetsRunning'
  BY DEF Register, IInv, TypeOK, StopTargetsRunning
<1>. QED BY <1>1, <1>2, <1>3, <1>4, <1>5, RegistryStep DEF Register

LEMMA UnregisterStep ==
  ASSUME IInv, NEW r \in Turns, Unregister(r)
  PROVE  IInv'
<1>1. OnlyMoves(r) /\ turn'[r] = [turn[r] EXCEPT !.pc = "releasing"]
  BY GoesOn DEF Unregister, Stages
<1>2. Sound(turn'[r], signal[r])
  BY <1>1, Here DEF Unregister, At, Sound, Closing, TurnRecord
<1>3. turn'[r].trial = turn[r].trial /\ turn'[r].slot = turn[r].slot
  BY <1>1, Here DEF TurnRecord
<1>4. active' \subseteq Turns /\ latest' \in [Sessions -> Turns \cup {None}]
  BY DEF Unregister, IInv, TypeOK
<1>5. StopTargetsRunning'
  BY DEF Unregister, IInv, TypeOK, StopTargetsRunning
<1>. QED BY <1>1, <1>2, <1>3, <1>4, <1>5, RegistryStep DEF Unregister

-----------------------------------------------------------------------------
(* Everything else that happens.                                           *)

\* A reason other than exhausted credits says nothing about the stage.
LEMMA SignalStep ==
  ASSUME IInv, UNCHANGED <<turn, wallet, slots, active, latest>>,
         phase' \in {"serving", "draining", "aborting", "exited"},
         signal' \in [Turns -> Reasons],
         \A r \in Turns : signal'[r] = signal[r] \/ signal'[r] # "credits"
  PROVE  IInv'
<1>1. TypeOK' /\ TrialsConserved' /\ SlotsAreHeld' /\ StopTargetsRunning'
  BY DEF IInv, TypeOK, TrialsConserved, SlotsAreHeld, StopTargetsRunning, Reasons
<1>2. ASSUME NEW r \in Turns PROVE Sound(turn'[r], signal'[r])
  BY DEF IInv, Sound
<1>. QED BY <1>1, <1>2 DEF IInv

LEMMA StopStep ==
  ASSUME IInv, NEW s \in Sessions, Stop(s)
  PROVE  IInv'
<1>1. signal \in [Turns -> Reasons] /\ latest[s] \in Turns
  BY DEF Stop, IInv, TypeOK, Reasons
<1>2. signal' \in [Turns -> Reasons]
      /\ \A r \in Turns : signal'[r] = signal[r] \/ signal'[r] # "credits"
  BY <1>1 DEF Stop, Reasons
<1>. QED BY <1>2, SignalStep DEF Stop, IInv, TypeOK

LEMMA ExpireSlotsStep ==
  ASSUME IInv, ExpireSlots
  PROVE  IInv'
<1>1. SlotsAreHeld'
  <2>1. Cardinality(Holding) \in Nat
    BY FinitelyMany, CountOne
  <2>2. slots' = 0 /\ Holding = {r \in Turns : turn'[r].slot}
    BY DEF ExpireSlots, Holding
  <2>. HIDE DEF Holding
  <2>. QED BY <2>1, <2>2 DEF SlotsAreHeld
<1>2. TypeOK' /\ TrialsConserved' /\ StopTargetsRunning'
  BY LifecycleAssumption
     DEF ExpireSlots, registry, IInv, TypeOK, TrialsConserved, StopTargetsRunning
<1>. QED BY <1>1, <1>2 DEF ExpireSlots, registry, IInv

LEMMA SigtermStep ==
  ASSUME IInv, Sigterm
  PROVE  IInv'
BY SignalStep DEF Sigterm, registry, IInv, TypeOK, Reasons

LEMMA AbortStragglersStep ==
  ASSUME IInv, AbortStragglers
  PROVE  IInv'
<1>1. signal' \in [Turns -> Reasons]
      /\ \A r \in Turns : signal'[r] = signal[r] \/ signal'[r] # "credits"
  BY DEF AbortStragglers, IInv, TypeOK, Reasons
<1>. QED BY <1>1, SignalStep DEF AbortStragglers

LEMMA ExitStep ==
  ASSUME IInv, Exit
  PROVE  IInv'
<1>1. ASSUME NEW r \in Turns
      PROVE  /\ turn'[r] \in TurnRecord /\ Sound(turn'[r], signal'[r])
             /\ turn'[r].trial = turn[r].trial /\ turn'[r].slot = turn[r].slot
  <2>1. signal'[r] = None /\ None # "credits"
    BY LifecycleAssumption DEF Exit
  <2>2. CASE turn[r].pc \in {"idle", "ended"}
    <3>1. turn'[r] = turn[r]
      BY <2>2 DEF Exit
    <3>. QED BY <2>1, <3>1, Here DEF Sound
  <2>3. CASE turn[r].pc \notin {"idle", "ended"}
    <3>1. turn'[r] = [turn[r] EXCEPT !.pc = "killed"]
      BY <2>3 DEF Exit
    <3>2. turn'[r] \in TurnRecord /\ turn'[r].trial = turn[r].trial
          /\ turn'[r].slot = turn[r].slot
      BY <3>1, Here DEF TurnRecord, Stages
    <3>3. Sound(turn'[r], signal'[r])
      BY <2>1, <3>1, Here DEF Sound, Closing, TurnRecord
    <3>. QED BY <3>2, <3>3
  <2>. QED BY <2>2, <2>3
<1>2. turn' \in [Turns -> TurnRecord]
  BY <1>1 DEF Exit
<1>3. TrialsConserved' /\ SlotsAreHeld'
  <2>1. {r \in Turns : turn'[r].trial = "held"} = {r \in Turns : turn[r].trial = "held"}
        /\ {r \in Turns : turn'[r].slot} = {r \in Turns : turn[r].slot}
    BY <1>1
  <2>. QED BY <2>1 DEF Exit, IInv, TrialsConserved, SlotsAreHeld
<1>4. StopTargetsRunning'
  BY DEF Exit, StopTargetsRunning
<1>5. TypeOK'
  BY <1>2 DEF Exit, IInv, TypeOK, TurnRecord, Trial
<1>. QED BY <1>1, <1>3, <1>4, <1>5 DEF IInv

LEMMA NextIInv == IInv /\ [Next]_vars => IInv'
<1>. SUFFICES ASSUME IInv, [Next]_vars PROVE IInv'
  OBVIOUS
<1>1. ASSUME NEW r \in Turns, Handler(r) PROVE IInv'
  BY <1>1, RefuseStep, AcquireSlotStep, AbandonRowStep, InsertRowStep, SetupFailsStep,
     RegisterStep, PreflightRefuseStep, BeginStreamStep, CreditsRunOutStep, ErrorChunkStep,
     StreamEndsStep, DoneChunkStep, RejectReplyStep, AcceptReplyStep, CommitStep, BillStep,
     DeliverStep, ThrowStep, CatchStep, ReturnTrialStep, UnregisterStep, ReleaseSlotStep
     DEF Handler
<1>2. CASE UNCHANGED vars
  BY <1>2 DEF vars, IInv, TypeOK, TrialsConserved, SlotsAreHeld, StopTargetsRunning
<1>. QED BY <1>1, <1>2, ClaimStep, StopStep, ExpireSlotsStep, SigtermStep,
            AbortStragglersStep, ExitStep DEF Next

-----------------------------------------------------------------------------
(* Theorems.                                                               *)

\* The inductive invariant: the counts agree with what the handlers hold, and
\* each handler's record fits its stage and the reason it was aborted for.
THEOREM Invariant == Spec => []IInv
BY InitIInv, NextIInv, PTL DEF Spec

\* The handlers, the wallet, the slot counter and the registry keep their types.
THEOREM TypeCorrect == Spec => []TypeOK
<1>1. IInv => TypeOK
  BY DEF IInv
<1>. QED BY <1>1, Invariant, PTL

\* No trial use is lost or minted on any of the paths that give one back
\* (refundTrialIfClaimed and its callers).
THEOREM TrialsAreConserved == Spec => []TrialsConserved
<1>1. IInv => TrialsConserved
  BY DEF IInv
<1>. QED BY <1>1, Invariant, PTL

\* A turn that ended without a saved reply has given its trial use back.
THEOREM UnansweredKeepTheirTrial == Spec => []NoReplyNoTrial
<1>1. IInv => NoReplyNoTrial
  BY DEF IInv, Sound, NoReplyNoTrial
<1>. QED BY <1>1, Invariant, PTL

\* The concurrency counter never exceeds the handlers that will release it.
THEOREM CountedSlotsAreHeld == Spec => []SlotsAreHeld
<1>1. IInv => SlotsAreHeld
  BY DEF IInv
<1>. QED BY <1>1, Invariant, PTL

\* No reply is paid by the trial and by credits, or twice by credits.
THEOREM RepliesArePaidOnce == Spec => []PaidOnce
<1>1. IInv => PaidOnce
  BY DEF IInv, Sound, PaidOnce
<1>. QED BY <1>1, Invariant, PTL

\* stopSessionStream only ever aborts a registered stream of its session.
THEOREM StopsAimAtRunning == Spec => []StopTargetsRunning
<1>1. IInv => StopTargetsRunning
  BY DEF IInv
<1>. QED BY <1>1, Invariant, PTL

-----------------------------------------------------------------------------
(* What a step may charge and mark.                                        *)

\* A handler charges without a saved reply only for a generation it found
\* stopped, and no step takes a saved reply back.
Charges(r) ==
  /\ turn[r].saved => turn'[r].saved
  /\ \/ turn'[r].charges = turn[r].charges
     \/ turn'[r].saved
     \/ IsClientAbort(r) /\ turn[r].pc \notin Closing

\* A record whose stage changes keeps its charges and its reply.
LEMMA GoesKeeps ==
  ASSUME IInv, NEW r \in Turns, NEW pc \in Stages, NEW t \in TurnRecord, Goes(r, pc, t)
  PROVE  turn'[r].charges = t.charges /\ turn'[r].saved = t.saved
BY Here DEF Goes, Becomes, TurnRecord

LEMMA RefundedType ==
  ASSUME NEW t \in TurnRecord
  PROVE  /\ Refunded(t) \in TurnRecord
         /\ Refunded(t).charges = t.charges /\ Refunded(t).saved = t.saved
BY DEF Refunded, TurnRecord, Trial

LEMMA PlainCharges ==
  ASSUME IInv, NEW r \in Turns,
         \/ Claim(r) \/ InsertRow(r) \/ AcquireSlot(r) \/ Register(r) \/ PreflightRefuse(r)
         \/ BeginStream(r) \/ CreditsRunOut(r) \/ ErrorChunk(r) \/ StreamEnds(r)
         \/ RejectReply(r) \/ Deliver(r) \/ Throw(r) \/ Unregister(r) \/ ReleaseSlot(r)
  PROVE  Charges(r)
<1>1. PICK pc \in Stages, t \in TurnRecord :
        Goes(r, pc, t) /\ t.charges = turn[r].charges /\ t.saved = turn[r].saved
  <2>1. /\ [turn[r] EXCEPT !.trial = "held"] \in TurnRecord
        /\ [turn[r] EXCEPT !.row = "complete"] \in TurnRecord
        /\ [turn[r] EXCEPT !.row = "failed"] \in TurnRecord
        /\ [turn[r] EXCEPT !.slot = TRUE] \in TurnRecord
        /\ [turn[r] EXCEPT !.slot = FALSE] \in TurnRecord
    BY Here DEF TurnRecord, Trial
  <2>2. /\ [turn[r] EXCEPT !.trial = "held"].charges = turn[r].charges
        /\ [turn[r] EXCEPT !.trial = "held"].saved = turn[r].saved
        /\ [turn[r] EXCEPT !.row = "complete"].charges = turn[r].charges
        /\ [turn[r] EXCEPT !.row = "complete"].saved = turn[r].saved
        /\ [turn[r] EXCEPT !.row = "failed"].charges = turn[r].charges
        /\ [turn[r] EXCEPT !.row = "failed"].saved = turn[r].saved
        /\ [turn[r] EXCEPT !.slot = TRUE].charges = turn[r].charges
        /\ [turn[r] EXCEPT !.slot = TRUE].saved = turn[r].saved
        /\ [turn[r] EXCEPT !.slot = FALSE].charges = turn[r].charges
        /\ [turn[r] EXCEPT !.slot = FALSE].saved = turn[r].saved
    BY Here DEF TurnRecord
  <2>3. \A pc \in {"gated", "rowed", "setup", "registered", "finishing", "streaming",
                   "catching", "releasing", "ended"} : pc \in Stages
    BY DEF Stages
  <2>4. turn[r] \in TurnRecord
    BY Here
  <2>5. CASE Claim(r) \/ InsertRow(r) \/ AcquireSlot(r) \/ ReleaseSlot(r)
    BY <2>1, <2>2, <2>3, <2>4, <2>5 DEF Claim, InsertRow, AcquireSlot, ReleaseSlot
  <2>6. CASE ErrorChunk(r) \/ RejectReply(r)
    BY <2>1, <2>2, <2>3, <2>6 DEF ErrorChunk, RejectReply, Failed
  <2>. QED BY <2>3, <2>4, <2>5, <2>6 DEF Register, PreflightRefuse, BeginStream, CreditsRunOut,
                                         StreamEnds, Deliver, Throw, Unregister
<1>. QED BY <1>1, GoesKeeps DEF Charges

LEMMA RefundCharges ==
  ASSUME IInv, NEW r \in Turns,
         Refuse(r) \/ AbandonRow(r) \/ SetupFails(r) \/ ReturnTrial(r)
  PROVE  Charges(r)
<1>. DEFINE refunded == Refunded(turn[r])
<1>1. turn[r] \in TurnRecord /\ refunded \in TurnRecord
      /\ refunded.charges = turn[r].charges /\ refunded.saved = turn[r].saved
  BY Here, RefundedType
<1>2. "ended" \in Stages /\ "leaving" \in Stages
  BY DEF Stages
<1>. HIDE DEF refunded
<1>3. [refunded EXCEPT !.slot = FALSE] \in TurnRecord
      /\ [refunded EXCEPT !.slot = FALSE].charges = turn[r].charges
      /\ [refunded EXCEPT !.slot = FALSE].saved = turn[r].saved
  BY <1>1 DEF TurnRecord
<1>4. PICK pc \in Stages, t \in TurnRecord :
        Goes(r, pc, t) /\ t.charges = turn[r].charges /\ t.saved = turn[r].saved
  BY <1>1, <1>2, <1>3 DEF refunded, Refuse, AbandonRow, SetupFails, ReturnTrial
<1>. QED BY <1>4, GoesKeeps DEF Charges

LEMMA LookCharges ==
  ASSUME IInv, NEW r \in Turns, DoneChunk(r) \/ AcceptReply(r)
  PROVE  Charges(r)
<1>1. turn[r].pc \notin Closing /\ ~turn[r].saved
  BY Here DEF DoneChunk, AcceptReply, At, Closing, Sound
<1>2. CASE IsClientAbort(r)
  BY <1>1, <1>2 DEF Charges
<1>3. CASE ~IsClientAbort(r)
  <2>1. turn'[r].charges = turn[r].charges
    BY <1>3, Here DEF DoneChunk, AcceptReply, Goes, Becomes, TurnRecord
  <2>. QED BY <1>1, <2>1 DEF Charges
<1>. QED BY <1>2, <1>3

LEMMA SavingCharges ==
  ASSUME IInv, NEW r \in Turns, Bill(r) \/ \E paid \in BOOLEAN : Commit(r, paid)
  PROVE  Charges(r)
<1>1. CASE Bill(r)
  <2>1. turn[r].saved
    BY <1>1, Here DEF Bill, At, Sound
  <2>. DEFINE cleared == [turn[r] EXCEPT !.row = "complete"]
  <2>2. cleared \in TurnRecord /\ cleared.saved = turn[r].saved
    BY Here DEF TurnRecord
  <2>3. "billed" \in Stages
    BY DEF Stages
  <2>. HIDE DEF cleared
  <2>4. Refunded(cleared) \in TurnRecord /\ Refunded(cleared).saved = turn[r].saved
    BY <2>2, RefundedType
  <2>5. ASSUME NEW deducted \in {0, 1}
        PROVE  /\ [Refunded(cleared) EXCEPT !.charges = deducted] \in TurnRecord
               /\ [Refunded(cleared) EXCEPT !.charges = deducted].saved = turn[r].saved
    <3>. DEFINE old == Refunded(cleared)
    <3>1. old \in TurnRecord /\ old.saved = turn[r].saved /\ deducted \in 0..2
      BY <2>4
    <3>. HIDE DEF old
    <3>2. [old EXCEPT !.charges = deducted] \in TurnRecord
          /\ [old EXCEPT !.charges = deducted].saved = turn[r].saved
      BY <3>1 DEF TurnRecord
    <3>. QED BY <3>2 DEF old
  <2>6. PICK t \in TurnRecord : Goes(r, "billed", t) /\ t.saved = turn[r].saved
    BY <1>1, <2>2, <2>5 DEF Bill, cleared
  <2>7. turn'[r].saved
    BY <2>1, <2>3, <2>6, GoesKeeps
  <2>. QED BY <2>7 DEF Charges
<1>2. CASE \E paid \in BOOLEAN : Commit(r, paid)
  <2>. PICK paid \in BOOLEAN : Commit(r, paid)
    BY <1>2
  <2>2. "saved" \in Stages
    BY DEF Stages
  <2>3. [turn[r] EXCEPT !.saved = TRUE, !.charges = IF paid THEN 1 ELSE 0] \in TurnRecord
        /\ [turn[r] EXCEPT !.saved = TRUE, !.charges = IF paid THEN 1 ELSE 0].saved
    <3>. DEFINE price == IF paid THEN 1 ELSE 0
    <3>1. price \in 0..2
      OBVIOUS
    <3>. HIDE DEF price
    <3>2. [turn[r] EXCEPT !.saved = TRUE, !.charges = price] \in TurnRecord
          /\ [turn[r] EXCEPT !.saved = TRUE, !.charges = price].saved
      BY <3>1, Here DEF TurnRecord
    <3>. QED BY <3>2 DEF price
  <2>4. Goes(r, "saved", [turn[r] EXCEPT !.saved = TRUE, !.charges = IF paid THEN 1 ELSE 0])
    BY DEF Commit
  <2>1. turn'[r].saved
    BY <2>2, <2>3, <2>4, GoesKeeps
  <2>. QED BY <2>1 DEF Charges
<1>. QED BY <1>1, <1>2

LEMMA CatchCharges ==
  ASSUME IInv, NEW r \in Turns, Catch(r)
  PROVE  Charges(r)
<1>0. turn[r].pc \notin Closing /\ turn[r].charges <= 1 /\ "finishing" \in Stages
      /\ turn[r] \in TurnRecord
  BY Here DEF Catch, At, Closing, Sound, Stages
<1>1. ASSUME NEW t \in TurnRecord, Goes(r, "finishing", FailedUnlessSaved(t))
      PROVE  turn'[r].charges = t.charges /\ turn'[r].saved = t.saved
  <2>1. FailedUnlessSaved(t) \in TurnRecord /\ FailedUnlessSaved(t).charges = t.charges
        /\ FailedUnlessSaved(t).saved = t.saved
    BY DEF FailedUnlessSaved, Failed, TurnRecord
  <2>. QED BY <1>0, <1>1, <2>1, GoesKeeps
<1>2. CASE IsClientAbort(r)
  <2>1. PICK charge \in BOOLEAN :
          Goes(r, "finishing", FailedUnlessSaved(Settled(turn[r], charge)))
    BY <1>2 DEF Catch
  <2>2. Settled(turn[r], charge) \in TurnRecord
        /\ Settled(turn[r], charge).saved = turn[r].saved
    BY <1>0, SettledType
  <2>3. turn'[r].saved = turn[r].saved
    BY <1>1, <2>1, <2>2
  <2>. QED BY <1>0, <1>2, <2>3 DEF Charges
<1>3. CASE ~IsClientAbort(r)
  <2>1. PICK t \in {turn[r], Refunded(turn[r])} : Goes(r, "finishing", FailedUnlessSaved(t))
    BY <1>3 DEF Catch
  <2>2. t \in TurnRecord /\ t.charges = turn[r].charges /\ t.saved = turn[r].saved
    BY <1>0, RefundedType
  <2>3. turn'[r].charges = turn[r].charges /\ turn'[r].saved = turn[r].saved
    BY <1>1, <2>1, <2>2
  <2>. QED BY <2>3 DEF Charges
<1>. QED BY <1>2, <1>3

\* A handler's step is about its own record.
LEMMA OthersStay ==
  ASSUME IInv, NEW r \in Turns, Claim(r) \/ Handler(r), NEW q \in Turns, q # r
  PROVE  turn'[q] = turn[q]
BY Here DEF Handler, Goes, Becomes, Claim, Refuse, AcquireSlot, AbandonRow, InsertRow,
   SetupFails, Register, PreflightRefuse, BeginStream, CreditsRunOut, ErrorChunk, StreamEnds,
   DoneChunk, RejectReply, AcceptReply, Commit, Bill, Deliver, Throw, Catch, ReturnTrial,
   Unregister, ReleaseSlot

LEMMA ChargesStep ==
  ASSUME IInv, [Next]_vars, NEW q \in Turns
  PROVE  Charges(q)
<1>1. ASSUME NEW r \in Turns, Claim(r) \/ Handler(r) PROVE Charges(q)
  <2>1. CASE q = r
    BY <1>1, <2>1, PlainCharges, RefundCharges, LookCharges, SavingCharges, CatchCharges
       DEF Handler
  <2>2. CASE q # r
    <3>1. turn'[q] = turn[q]
      BY <1>1, <2>2, OthersStay
    <3>. QED BY <3>1 DEF Charges
  <2>. QED BY <2>1, <2>2
<1>2. ASSUME Exit PROVE Charges(q)
  <2>1. turn'[q].charges = turn[q].charges /\ turn'[q].saved = turn[q].saved
    BY <1>2, Here DEF Exit, TurnRecord
  <2>. QED BY <2>1 DEF Charges
<1>3. ASSUME turn' = turn PROVE Charges(q)
  BY <1>3 DEF Charges
<1>4. ASSUME NEW s \in Sessions, Stop(s) PROVE Charges(q)
  BY <1>3, <1>4 DEF Stop
<1>. QED BY <1>1, <1>2, <1>3, <1>4
         DEF Next, ExpireSlots, Sigterm, AbortStragglers, vars

\* The user row of an answered turn never shows a retry button: a mark is made
\* only in steps that find no saved reply, and none is made before the save.
THEOREM AnsweredDoNotFail == Spec => SavedTurnsDoNotFail
<1>1. ASSUME IInv, IInv', [Next]_vars
      PROVE  \A r \in Turns : turn[r].saved => turn'[r].row # "failed"
  BY <1>1, ChargesStep DEF Charges, IInv, Sound
<1>2. IInv /\ IInv' /\ [Next]_vars
        => [\A r \in Turns : turn[r].saved => turn'[r].row # "failed"]_vars
  BY <1>1
<1>. QED BY <1>2, Invariant, PTL DEF Spec, SavedTurnsDoNotFail

\* Credits are taken only for a saved reply or for a generation the player
\* stopped: a handler that finds its signal aborted and is not yet closing was
\* not cut by exhausted credits, and a deploy is no client abort.
THEOREM FailuresCostNothing == Spec => FailuresAreFree
<1>1. ASSUME IInv, [Next]_vars, NEW r \in Turns,
             turn'[r].charges > turn[r].charges, ~turn'[r].saved
      PROVE  signal[r] = "user-stop"
  <2>1. turn[r].charges \in 0..2
    BY <1>1, Here DEF TurnRecord
  <2>2. turn'[r].charges # turn[r].charges
    BY <1>1, <2>1
  <2>3. IsClientAbort(r) /\ turn[r].pc \notin Closing
    BY <1>1, <2>2, ChargesStep DEF Charges
  <2>4. signal[r] \in Reasons /\ signal[r] # "credits"
    BY <1>1, <2>3, Here DEF Sound
  <2>. QED BY <2>3, <2>4 DEF IsClientAbort, Reasons
<1>2. IInv /\ [Next]_vars
        => [\A r \in Turns : turn'[r].charges > turn[r].charges /\ ~turn'[r].saved
              => signal[r] = "user-stop"]_vars
  BY <1>1
<1>. QED BY <1>2, Invariant, PTL DEF Spec, FailuresAreFree

-----------------------------------------------------------------------------
(* Stops that come before the last look at the signal.                     *)

\* A reply is saved from the stage the last look leads to, and that look does
\* not find the turn stopped.
Saves(r) ==
  /\ turn'[r].saved => turn[r].saved \/ At(r, "saving")
  /\ turn'[r].pc = "saving" => At(r, "saving") \/ ~IsClientAbort(r)

LEMMA GoesSaves ==
  ASSUME IInv, NEW r \in Turns, NEW pc \in Stages \ {"saving"}, NEW t \in TurnRecord,
         Goes(r, pc, t), t.saved = turn[r].saved
  PROVE  Saves(r)
<1>1. turn'[r].pc = pc
  BY Here DEF Goes, Becomes, TurnRecord
<1>. QED BY <1>1, GoesKeeps DEF Saves

LEMMA PlainSaves ==
  ASSUME IInv, NEW r \in Turns,
         \/ Claim(r) \/ InsertRow(r) \/ AcquireSlot(r) \/ Register(r) \/ PreflightRefuse(r)
         \/ BeginStream(r) \/ CreditsRunOut(r) \/ ErrorChunk(r) \/ StreamEnds(r)
         \/ RejectReply(r) \/ Deliver(r) \/ Throw(r) \/ Unregister(r) \/ ReleaseSlot(r)
  PROVE  Saves(r)
<1>1. /\ [turn[r] EXCEPT !.trial = "held"] \in TurnRecord
      /\ [turn[r] EXCEPT !.row = "complete"] \in TurnRecord
      /\ [turn[r] EXCEPT !.row = "failed"] \in TurnRecord
      /\ [turn[r] EXCEPT !.slot = TRUE] \in TurnRecord
      /\ [turn[r] EXCEPT !.slot = FALSE] \in TurnRecord
  BY Here DEF TurnRecord, Trial
<1>2. /\ [turn[r] EXCEPT !.trial = "held"].saved = turn[r].saved
      /\ [turn[r] EXCEPT !.row = "complete"].saved = turn[r].saved
      /\ [turn[r] EXCEPT !.row = "failed"].saved = turn[r].saved
      /\ [turn[r] EXCEPT !.slot = TRUE].saved = turn[r].saved
      /\ [turn[r] EXCEPT !.slot = FALSE].saved = turn[r].saved
  BY Here DEF TurnRecord
<1>3. \A pc \in {"gated", "rowed", "setup", "registered", "finishing", "streaming",
                 "catching", "releasing", "ended"} : pc \in Stages \ {"saving"}
  BY DEF Stages
<1>4. turn[r] \in TurnRecord
  BY Here
<1>5. PICK pc \in Stages \ {"saving"}, t \in TurnRecord :
        Goes(r, pc, t) /\ t.saved = turn[r].saved
  <2>1. CASE Claim(r) \/ InsertRow(r) \/ AcquireSlot(r) \/ ReleaseSlot(r)
    BY <1>1, <1>2, <1>3, <1>4, <2>1 DEF Claim, InsertRow, AcquireSlot, ReleaseSlot
  <2>2. CASE ErrorChunk(r) \/ RejectReply(r)
    BY <1>1, <1>2, <1>3, <2>2 DEF ErrorChunk, RejectReply, Failed
  <2>. QED BY <1>3, <1>4, <2>1, <2>2 DEF Register, PreflightRefuse, BeginStream, CreditsRunOut,
                                         StreamEnds, Deliver, Throw, Unregister
<1>. QED BY <1>5, GoesSaves

LEMMA RefundSaves ==
  ASSUME IInv, NEW r \in Turns,
         Refuse(r) \/ AbandonRow(r) \/ SetupFails(r) \/ ReturnTrial(r)
  PROVE  Saves(r)
<1>. DEFINE refunded == Refunded(turn[r])
<1>1. turn[r] \in TurnRecord /\ refunded \in TurnRecord /\ refunded.saved = turn[r].saved
  BY Here, RefundedType
<1>2. "ended" \in Stages \ {"saving"} /\ "leaving" \in Stages \ {"saving"}
  BY DEF Stages
<1>. HIDE DEF refunded
<1>3. [refunded EXCEPT !.slot = FALSE] \in TurnRecord
      /\ [refunded EXCEPT !.slot = FALSE].saved = turn[r].saved
  BY <1>1 DEF TurnRecord
<1>4. PICK pc \in Stages \ {"saving"}, t \in TurnRecord :
        Goes(r, pc, t) /\ t.saved = turn[r].saved
  BY <1>1, <1>2, <1>3 DEF refunded, Refuse, AbandonRow, SetupFails, ReturnTrial
<1>. QED BY <1>4, GoesSaves

\* The two looks at the signal, and what becomes of a turn that threw.
LEMMA LookSaves ==
  ASSUME IInv, NEW r \in Turns, DoneChunk(r) \/ AcceptReply(r)
  PROVE  Saves(r)
<1>1. CASE IsClientAbort(r)
  <2>1. PICK charge \in BOOLEAN : Goes(r, "finishing", Failed(Settled(turn[r], charge)))
    BY <1>1 DEF DoneChunk, AcceptReply
  <2>2. Settled(turn[r], charge) \in TurnRecord
        /\ Settled(turn[r], charge).saved = turn[r].saved
    <3>1. turn[r].charges <= 1
      BY Here DEF DoneChunk, AcceptReply, At, Sound, Closing
    <3>. QED BY <3>1, Here, SettledType
  <2>3. Failed(Settled(turn[r], charge)) \in TurnRecord
        /\ Failed(Settled(turn[r], charge)).saved = turn[r].saved
    BY <2>2 DEF Failed, TurnRecord
  <2>4. "finishing" \in Stages \ {"saving"}
    BY DEF Stages
  <2>. QED BY <2>1, <2>3, <2>4, GoesSaves
<1>2. CASE ~IsClientAbort(r)
  <2>1. turn'[r].saved = turn[r].saved
    BY <1>2, Here DEF DoneChunk, AcceptReply, Goes, Becomes, TurnRecord
  <2>. QED BY <1>2, <2>1 DEF Saves
<1>. QED BY <1>1, <1>2

LEMMA CatchSaves ==
  ASSUME IInv, NEW r \in Turns, Catch(r)
  PROVE  Saves(r)
<1>0. turn[r].charges <= 1 /\ "finishing" \in Stages \ {"saving"} /\ turn[r] \in TurnRecord
  BY Here DEF Catch, At, Closing, Sound, Stages
<1>1. ASSUME NEW t \in TurnRecord, t.saved = turn[r].saved,
             Goes(r, "finishing", FailedUnlessSaved(t))
      PROVE  Saves(r)
  <2>1. FailedUnlessSaved(t) \in TurnRecord /\ FailedUnlessSaved(t).saved = t.saved
    BY DEF FailedUnlessSaved, Failed, TurnRecord
  <2>. QED BY <1>0, <1>1, <2>1, GoesSaves
<1>2. CASE IsClientAbort(r)
  BY <1>0, <1>1, <1>2, SettledType DEF Catch
<1>3. CASE ~IsClientAbort(r)
  <2>1. PICK t \in {turn[r], Refunded(turn[r])} : Goes(r, "finishing", FailedUnlessSaved(t))
    BY <1>3 DEF Catch
  <2>. QED BY <1>0, <1>1, <2>1, RefundedType
<1>. QED BY <1>2, <1>3

LEMMA SavesStep ==
  ASSUME IInv, [Next]_vars, NEW q \in Turns
  PROVE  Saves(q)
<1>1. ASSUME NEW r \in Turns, Claim(r) \/ Handler(r) PROVE Saves(q)
  <2>1. CASE q = r
    <3>1. CASE Bill(r)
      <4>1. turn[r].saved
        BY <3>1, Here DEF Bill, At, Sound
      <4>2. turn'[r].saved /\ IInv'
        BY <4>1, ChargesStep, NextIInv DEF Charges
      <4>3. turn'[r].pc # "saving"
        BY <4>2 DEF IInv, Sound, Closing
      <4>. QED BY <2>1, <4>1, <4>3 DEF Saves
    <3>2. CASE \E paid \in BOOLEAN : Commit(r, paid)
      BY <2>1, <3>2 DEF Commit, Saves
    <3>. QED BY <1>1, <2>1, <3>1, <3>2, PlainSaves, RefundSaves, LookSaves, CatchSaves DEF Handler
  <2>2. CASE q # r
    <3>1. turn'[q] = turn[q]
      BY <1>1, <2>2, OthersStay
    <3>. QED BY <3>1 DEF Saves, At
  <2>. QED BY <2>1, <2>2
<1>2. ASSUME Exit PROVE Saves(q)
  <2>1. turn'[q].saved = turn[q].saved /\ turn'[q].pc # "saving"
    BY <1>2, Here DEF Exit, TurnRecord
  <2>. QED BY <2>1 DEF Saves
<1>3. ASSUME turn' = turn PROVE Saves(q)
  BY <1>3 DEF Saves, At
<1>4. ASSUME NEW s \in Sessions, Stop(s) PROVE Saves(q)
  BY <1>3, <1>4 DEF Stop
<1>. QED BY <1>1, <1>2, <1>3, <1>4
         DEF Next, ExpireSlots, Sigterm, AbortStragglers, vars

\* No stop reaches a turn between its last look at the signal and the save.
StopInTime == \A s \in Sessions : Stop(s) => turn[latest[s]].pc # "saving"
StopsComeInTime == [][StopInTime]_vars

UnstoppedSave == \A r \in Turns : At(r, "saving") => signal[r] # "user-stop"

\* No reason turns into a stop by the player but by the stop endpoint.
LEMMA StoppedByStop ==
  ASSUME IInv, [Next]_vars, NEW q \in Turns, signal'[q] = "user-stop"
  PROVE  signal[q] = "user-stop" \/ \E s \in Sessions : Stop(s) /\ latest[s] = q
<1>0. signal \in [Turns -> Reasons] /\ None # "user-stop"
  BY Here, LifecycleAssumption
<1>1. ASSUME NEW r \in Turns, Claim(r) \/ Handler(r) PROVE signal[q] = "user-stop"
  BY <1>0, <1>1
     DEF Handler, Claim, Refuse, AcquireSlot, AbandonRow, InsertRow, SetupFails, Register,
         PreflightRefuse, BeginStream, CreditsRunOut, ErrorChunk, StreamEnds, DoneChunk,
         RejectReply, AcceptReply, Commit, Bill, Deliver, Throw, Catch, ReturnTrial, Unregister,
         ReleaseSlot, registry
<1>2. ASSUME NEW s \in Sessions, Stop(s) PROVE signal[q] = "user-stop" \/ latest[s] = q
  BY <1>0, <1>2 DEF Stop
<1>. QED BY <1>0, <1>1, <1>2
         DEF Next, ExpireSlots, Sigterm, AbortStragglers, Exit, registry, vars

\* stream-registry.ts:41-43, as far as it is so: a generation that was stopped
\* before its handler's last look at the signal is discarded, whatever else
\* aborts it, throws or comes in between.
THEOREM TimelyStopsDiscard == Spec /\ StopsComeInTime => StopDiscards
<1>1. Init => UnstoppedSave
  <2>. SUFFICES ASSUME Init, NEW r \in Turns PROVE ~ At(r, "saving")
    BY DEF UnstoppedSave
  <2>. QED BY DEF Init, At, Fresh
<1>2. ASSUME IInv, UnstoppedSave, [Next]_vars, [StopInTime]_vars
      PROVE  UnstoppedSave'
  <2>. SUFFICES ASSUME NEW r \in Turns, turn'[r].pc = "saving", signal'[r] = "user-stop"
                PROVE  FALSE
    BY DEF UnstoppedSave, At
  <2>1. At(r, "saving") \/ ~ IsClientAbort(r)
    BY <1>2, SavesStep DEF Saves
  <2>2. signal[r] # "user-stop"
    BY <1>2, <2>1, LifecycleAssumption DEF UnstoppedSave, IsClientAbort
  <2>3. PICK s \in Sessions : Stop(s) /\ latest[s] = r
    BY <1>2, <2>2, StoppedByStop
  <2>4. signal' # signal /\ turn' = turn
    BY <2>2, <2>3 DEF Stop
  <2>5. turn[r].pc # "saving"
    BY <1>2, <2>3, <2>4 DEF StopInTime, vars
  <2>. QED BY <2>4, <2>5
<1>3. ASSUME IInv, UnstoppedSave, [Next]_vars
      PROVE  [\A r \in Turns : signal[r] = "user-stop" /\ ~turn[r].saved => ~turn'[r].saved]_vars
  BY <1>3, SavesStep DEF Saves, UnstoppedSave
<1>. QED BY <1>1, <1>2, <1>3, Invariant, PTL DEF Spec, StopsComeInTime, StopDiscards

-----------------------------------------------------------------------------
(* Streams that are registered before the drain gives up waiting.          *)

Early == \A r \in Turns : Register(r) => phase \in {"serving", "draining"}
RegistrationsComeEarly == [][Early]_vars

ToldWhenAborting == phase = "aborting" => \A r \in active : signal[r] # None

\* messages.ts:1371-1373, as far as it is so: if no request registers its
\* stream after the drain went over to aborting, the process does not end
\* before every stream that is still open was told.
THEOREM RegisteredStreamsAreTold == Spec /\ RegistrationsComeEarly => DeployTellsEveryStream
<1>1. Init => ToldWhenAborting
  BY DEF Init, ToldWhenAborting
<1>2. ASSUME IInv, ToldWhenAborting, [Next]_vars, [Early]_vars
      PROVE  ToldWhenAborting'
  <2>0. signal \in [Turns -> Reasons] /\ active \subseteq Turns
        /\ None \notin {"user-stop", "credits", "server-shutdown"}
    BY <1>2, Here, LifecycleAssumption DEF IInv, TypeOK, Reasons
  <2>1. ASSUME NEW r \in Turns, Claim(r) \/ Handler(r), ~ Register(r) PROVE ToldWhenAborting'
    BY <1>2, <2>0, <2>1
       DEF Handler, Claim, Refuse, AcquireSlot, AbandonRow, InsertRow, SetupFails,
           PreflightRefuse, BeginStream, CreditsRunOut, ErrorChunk, StreamEnds, DoneChunk,
           RejectReply, AcceptReply, Commit, Bill, Deliver, Throw, Catch, ReturnTrial, Unregister,
           ReleaseSlot, registry, ToldWhenAborting
  <2>2. ASSUME NEW r \in Turns, Register(r) PROVE ToldWhenAborting'
    <3>1. turn' # turn
      BY <1>2, <2>2, Here DEF Register, At, Goes, Becomes, TurnRecord
    <3>2. phase # "aborting" /\ phase' = phase
      BY <1>2, <2>2, <3>1 DEF Early, vars, Register
    <3>. QED BY <3>2 DEF ToldWhenAborting
  <2>3. ASSUME NEW s \in Sessions, Stop(s) PROVE ToldWhenAborting'
    BY <1>2, <2>0, <2>3 DEF Stop, ToldWhenAborting
  <2>4. ASSUME AbortStragglers PROVE ToldWhenAborting'
    BY <2>0, <2>4 DEF AbortStragglers, ToldWhenAborting
  <2>5. ASSUME ExpireSlots \/ Sigterm \/ Exit \/ UNCHANGED vars PROVE ToldWhenAborting'
    BY <1>2, <2>5 DEF ExpireSlots, Sigterm, Exit, registry, vars, ToldWhenAborting
  <2>. QED BY <1>2, <2>1, <2>2, <2>3, <2>4, <2>5 DEF Next
<1>3. ToldWhenAborting => [Exit => \A r \in active : signal[r] # None]_vars
  BY DEF ToldWhenAborting, Exit
<1>. QED BY <1>1, <1>2, <1>3, Invariant, PTL
         DEF Spec, RegistrationsComeEarly, DeployTellsEveryStream
=============================================================================
