---------------------------- MODULE TurnLifecycle ----------------------------
(***************************************************************************)
(* What one send holds while it runs, and how it gives it back: a Sonnet   *)
(* trial use, a concurrency slot, the entry of the stream registry that    *)
(* the stop endpoint and the deploy drain work on, the user row that shows *)
(* a retry button, and the credits of a reply or of a stopped generation.  *)
(*                                                                         *)
(* The turns are those of one user on the official key, each with a user   *)
(* row of its own.  Each handler runs from one await to the next; stops,   *)
(* expiries of the slot counter and a SIGTERM come in between.  What a     *)
(* turn reads and writes of the session is in SessionTurns.                *)
(***************************************************************************)
EXTENDS Naturals, FiniteSets

CONSTANTS
  Turns,          \* the send requests of the behaviour
  Sessions,       \* the sessions they are sent in
  SessionOf,      \* the session of each turn
  Trials,         \* trial uses in the wallet at the start
  MaxConcurrent,  \* the plan's limit on generations at a time
  None            \* no stream, no reason

ASSUME LifecycleAssumption ==
  /\ IsFiniteSet(Turns) /\ SessionOf \in [Turns -> Sessions]
  /\ Trials \in Nat /\ MaxConcurrent \in Nat \ {0}
  /\ None \notin Turns /\ None \notin {"user-stop", "credits", "server-shutdown"}

VARIABLES
  turn,     \* the local variables of each handler
  wallet,   \* creditWallets.grokTrialRemaining
  slots,    \* the user's concurrency counter
  active,   \* activeStreams
  latest,   \* sessionStreams: the stream the stop endpoint finds
  signal,   \* why each turn's AbortController was aborted
  phase     \* the process: serving, draining, aborting stragglers, exited

vars == <<turn, wallet, slots, active, latest, signal, phase>>

Fresh == [pc |-> "idle", trial |-> "none", slot |-> FALSE, row |-> "none",
          saved |-> FALSE, charges |-> 0, settled |-> FALSE]

Init ==
  /\ turn = [r \in Turns |-> Fresh]
  /\ wallet = Trials
  /\ slots = 0
  /\ active = {}
  /\ latest = [s \in Sessions |-> None]
  /\ signal = [r \in Turns |-> None]
  /\ phase = "serving"

registry == <<active, latest, signal>>

At(r, pc) == turn[r].pc = pc

AnyAbort(r) == signal[r] # None
\* Everything but the shutdown of a deploy.
IsClientAbort(r) == signal[r] \notin {None, "server-shutdown"}

-----------------------------------------------------------------------------
(* The parts of a handler's step.                                          *)

\* refundTrialIfClaimed gives a claimed use back, once per request.
RefundedAgain(t) == t
Refunded(t) == IF t.trial = "held" THEN [t EXCEPT !.trial = "returned"] ELSE t
WalletAfterRefund(t) == IF t.trial = "held" THEN wallet + 1 ELSE wallet

\* releaseConcurrency: DECR, and DEL at zero or below.
Released == IF slots > 0 THEN slots - 1 ELSE 0

Failed(t) == [t EXCEPT !.row = "failed"]

\* settleStoppedGeneration, which charges only a turn that claimed no trial.
Settled(t, charge) ==
  [t EXCEPT !.settled = TRUE,
            !.charges = IF charge /\ t.trial = "none" THEN @ + 1 ELSE @]

Becomes(r, t) == turn' = [turn EXCEPT ![r] = t]
Goes(r, pc, t) == Becomes(r, [t EXCEPT !.pc = pc])

-----------------------------------------------------------------------------
(* Before the stream.                                                      *)

\* A request for the trial model claims a use before any gate is passed.
Claim(r) ==
  /\ At(r, "idle") /\ phase = "serving"
  /\ \/ Goes(r, "gated", turn[r]) /\ UNCHANGED wallet
     \/ /\ wallet > 0
        /\ Goes(r, "gated", [turn[r] EXCEPT !.trial = "held"])
        /\ wallet' = wallet - 1
  /\ UNCHANGED <<slots, registry, phase>>

\* Suspension, credits, model access, the rate limit or the concurrency limit.
Refuse(r) ==
  /\ At(r, "gated")
  /\ Goes(r, "ended", Refunded(turn[r]))
  /\ wallet' = WalletAfterRefund(turn[r])
  /\ UNCHANGED <<slots, registry, phase>>

AcquireSlot(r) ==
  /\ At(r, "gated") /\ slots < MaxConcurrent
  /\ slots' = slots + 1
  /\ Goes(r, "setup", [turn[r] EXCEPT !.slot = TRUE])
  /\ UNCHANGED <<wallet, registry, phase>>

AbandonKeepingTrial(r) ==
  /\ At(r, "setup")
  /\ Goes(r, "ended", [turn[r] EXCEPT !.slot = FALSE])
  /\ slots' = Released
  /\ UNCHANGED <<wallet, registry, phase>>
AbandonKeepingSlot(r) ==
  /\ At(r, "setup")
  /\ Goes(r, "ended", [Refunded(turn[r]) EXCEPT !.slot = FALSE])
  /\ wallet' = WalletAfterRefund(turn[r])
  /\ UNCHANGED <<slots, registry, phase>>
\* A retry whose turn has changed, or a session deleted since it was read.
AbandonRow(r) ==
  /\ At(r, "setup")
  /\ Goes(r, "ended", [Refunded(turn[r]) EXCEPT !.slot = FALSE])
  /\ wallet' = WalletAfterRefund(turn[r])
  /\ slots' = Released
  /\ UNCHANGED <<registry, phase>>

InsertRow(r) ==
  /\ At(r, "setup")
  /\ Goes(r, "rowed", [turn[r] EXCEPT !.row = "complete"])
  /\ UNCHANGED <<wallet, slots, registry, phase>>

\* Anything thrown before the stream opens: the row, if inserted, stays.
SetupFails(r) ==
  /\ At(r, "setup") \/ At(r, "rowed")
  /\ Goes(r, "ended", [Refunded(turn[r]) EXCEPT !.slot = FALSE])
  /\ wallet' = WalletAfterRefund(turn[r])
  /\ slots' = Released
  /\ UNCHANGED <<registry, phase>>

\* registerStream
Register(r) ==
  /\ At(r, "rowed")
  /\ active' = active \cup {r}
  /\ latest' = [latest EXCEPT ![SessionOf[r]] = r]
  /\ Goes(r, "registered", turn[r])
  /\ UNCHANGED <<wallet, slots, signal, phase>>

-----------------------------------------------------------------------------
(* The generation.                                                         *)

\* A prompt that costs more than the balance; trial turns are exempt.
PreflightRefuse(r) ==
  /\ At(r, "registered") /\ turn[r].trial = "none"
  /\ Goes(r, "finishing", turn[r])
  /\ UNCHANGED <<wallet, slots, registry, phase>>

BeginStream(r) ==
  /\ At(r, "registered")
  /\ Goes(r, "streaming", turn[r])
  /\ UNCHANGED <<wallet, slots, registry, phase>>

\* The balance is used up by the text streamed so far.
CreditsRunOut(r) ==
  /\ At(r, "streaming") /\ turn[r].trial = "none"
  /\ signal' = [signal EXCEPT ![r] = IF @ = None THEN "credits" ELSE @]
  /\ Goes(r, "finishing", turn[r])
  /\ UNCHANGED <<wallet, slots, active, latest, phase>>

\* The provider reports an error, its inactivity timeout among them.
ErrorChunk(r) ==
  /\ At(r, "streaming")
  /\ Goes(r, "finishing", Failed(turn[r]))
  /\ UNCHANGED <<wallet, slots, registry, phase>>

\* A provider that sees the aborted signal between two chunks just returns.
StreamEnds(r) ==
  /\ At(r, "streaming") /\ signal[r] # None
  /\ Goes(r, "finishing", turn[r])
  /\ UNCHANGED <<wallet, slots, registry, phase>>

\* The last chunk, and the first look at the signal.
DoneChunk(r) ==
  /\ At(r, "streaming")
  /\ IF IsClientAbort(r)
     THEN \E charge \in BOOLEAN : Goes(r, "finishing", Failed(Settled(turn[r], charge)))
     ELSE Goes(r, "reviewing", turn[r])
  /\ UNCHANGED <<wallet, slots, registry, phase>>

\* An empty reply, or one that fell into repetition.
RejectReply(r) ==
  /\ At(r, "reviewing")
  /\ Goes(r, "finishing", Failed(turn[r]))
  /\ UNCHANGED <<wallet, slots, registry, phase>>

\* The second look at the signal, after the parsing and the judges.
AcceptReply(r) ==
  /\ At(r, "reviewing")
  /\ IF IsClientAbort(r)
     THEN \E charge \in BOOLEAN : Goes(r, "finishing", Failed(Settled(turn[r], charge)))
     ELSE Goes(r, "saving", turn[r])
  /\ UNCHANGED <<wallet, slots, registry, phase>>

\* The commit transaction.  A turn with a paid correction looks at the signal
\* again and pays for itself in here; its story is not one a trial covers.
Commit(r, paid) ==
  /\ At(r, "saving")
  /\ paid => signal[r] = None
  /\ Goes(r, "saved", [turn[r] EXCEPT !.saved = TRUE, !.charges = IF paid THEN 1 ELSE 0])
  /\ UNCHANGED <<wallet, slots, registry, phase>>

\* The price of the reply, after clearTurnFailure: nothing (a stop, a filtered
\* reply, or the trial's own model served), or credits, in here or already in
\* the commit; a trial use is given back when credits pay.
ChargeWithoutRefund(r) ==
  /\ At(r, "saved")
  /\ Goes(r, "billed", [turn[r] EXCEPT !.row = "complete", !.charges = 1])
  /\ UNCHANGED <<wallet, slots, registry, phase>>
Bill(r) ==
  /\ At(r, "saved")
  /\ LET cleared == [turn[r] EXCEPT !.row = "complete"]
     IN \/ /\ turn[r].charges = 0
           /\ Goes(r, "billed", cleared) /\ UNCHANGED wallet
        \/ /\ turn[r].charges > 0 \/ ~IsClientAbort(r)
           /\ \E deducted \in {0, 1} :
                /\ turn[r].charges > 0 => deducted = turn[r].charges
                /\ Goes(r, "billed", [Refunded(cleared) EXCEPT !.charges = deducted])
           /\ wallet' = WalletAfterRefund(turn[r])
  /\ UNCHANGED <<slots, registry, phase>>

\* persistSwipeCredits has run; the done event is sent.
Deliver(r) ==
  /\ At(r, "billed")
  /\ Goes(r, "finishing", turn[r])
  /\ UNCHANGED <<wallet, slots, registry, phase>>

\* A provider, database or parser failure anywhere inside the try.
Throw(r) ==
  /\ \E pc \in {"registered", "streaming", "reviewing", "saving", "billed"} : At(r, pc)
  /\ Goes(r, "catching", turn[r])
  /\ UNCHANGED <<wallet, slots, registry, phase>>

FailedAlways(t) == Failed(t)
FailedUnlessSaved(t) == IF t.saved THEN t ELSE Failed(t)

\* A stopped generation is settled; any other failure costs the player nothing.
Catch(r) ==
  /\ At(r, "catching")
  /\ \/ /\ IsClientAbort(r) /\ UNCHANGED wallet
        /\ \E charge \in BOOLEAN :
             Goes(r, "finishing", FailedUnlessSaved(Settled(turn[r], charge)))
     \/ /\ ~IsClientAbort(r) /\ turn[r].saved /\ UNCHANGED wallet
        /\ Goes(r, "finishing", FailedUnlessSaved(turn[r]))
     \/ /\ ~IsClientAbort(r) /\ ~turn[r].saved /\ wallet' = WalletAfterRefund(turn[r])
        /\ Goes(r, "finishing", FailedUnlessSaved(Refunded(turn[r])))
  /\ UNCHANGED <<slots, registry, phase>>

\* finally: the trial, then the registry, then the slot.
ReturnTrial(r) ==
  /\ At(r, "finishing")
  /\ IF turn[r].saved
     THEN Goes(r, "leaving", turn[r]) /\ UNCHANGED wallet
     ELSE Goes(r, "leaving", Refunded(turn[r])) /\ wallet' = WalletAfterRefund(turn[r])
  /\ UNCHANGED <<slots, registry, phase>>

StaysFindable(r) ==
  /\ At(r, "leaving")
  /\ active' = active \ {r}
  /\ Goes(r, "releasing", turn[r])
  /\ UNCHANGED <<wallet, slots, latest, signal, phase>>
\* A newer stream of the session stays the one the stop endpoint finds.
Unregister(r) ==
  /\ At(r, "leaving")
  /\ active' = active \ {r}
  /\ latest' = [latest EXCEPT ![SessionOf[r]] = IF @ = r THEN None ELSE @]
  /\ Goes(r, "releasing", turn[r])
  /\ UNCHANGED <<wallet, slots, signal, phase>>

EndKeepingSlot(r) ==
  /\ At(r, "releasing")
  /\ Goes(r, "ended", [turn[r] EXCEPT !.slot = FALSE])
  /\ UNCHANGED <<wallet, slots, registry, phase>>
ReleaseSlot(r) ==
  /\ At(r, "releasing")
  /\ slots' = Released
  /\ Goes(r, "ended", [turn[r] EXCEPT !.slot = FALSE])
  /\ UNCHANGED <<wallet, registry, phase>>

-----------------------------------------------------------------------------
(* The player, the counter's expiry and the deploy.                        *)

\* stopSessionStream aborts the stream last registered for the session.
Stop(s) ==
  /\ latest[s] # None
  /\ signal[latest[s]] = None
  /\ signal' = [signal EXCEPT ![latest[s]] = "user-stop"]
  /\ UNCHANGED <<turn, wallet, slots, active, latest, phase>>

\* The counter's 90 seconds run out under generations that take longer.
ExpireSlots ==
  /\ slots > 0 /\ slots' = 0
  /\ UNCHANGED <<turn, wallet, registry, phase>>

\* SIGTERM: no further request is accepted.
Sigterm ==
  /\ phase = "serving" /\ phase' = "draining"
  /\ UNCHANGED <<turn, wallet, slots, registry>>

\* The registry is empty, or 50 seconds have passed: abort who is left.
AbortStragglers ==
  /\ phase = "draining" /\ phase' = "aborting"
  /\ signal' = [r \in Turns |-> IF r \in active /\ signal[r] = None
                                THEN "server-shutdown" ELSE signal[r]]
  /\ UNCHANGED <<turn, wallet, slots, active, latest>>

\* They have all left, or 10 more seconds have passed: nothing of the process
\* remains but what it wrote to the database and to Redis.
Exit ==
  /\ phase = "aborting" /\ phase' = "exited"
  /\ turn' = [r \in Turns |-> IF turn[r].pc \in {"idle", "ended"} THEN turn[r]
                              ELSE [turn[r] EXCEPT !.pc = "killed"]]
  /\ active' = {}
  /\ latest' = [s \in Sessions |-> None]
  /\ signal' = [r \in Turns |-> None]
  /\ UNCHANGED <<wallet, slots>>

-----------------------------------------------------------------------------
Handler(r) ==
  \/ Refuse(r) \/ AcquireSlot(r) \/ AbandonRow(r) \/ InsertRow(r) \/ SetupFails(r)
  \/ Register(r) \/ PreflightRefuse(r) \/ BeginStream(r)
  \/ CreditsRunOut(r) \/ ErrorChunk(r) \/ StreamEnds(r) \/ DoneChunk(r)
  \/ RejectReply(r) \/ AcceptReply(r) \/ (\E paid \in BOOLEAN : Commit(r, paid))
  \/ Bill(r) \/ Deliver(r) \/ Throw(r) \/ Catch(r)
  \/ ReturnTrial(r) \/ Unregister(r) \/ ReleaseSlot(r)

Next ==
  \/ \E r \in Turns : Claim(r) \/ Handler(r)
  \/ \E s \in Sessions : Stop(s)
  \/ ExpireSlots \/ Sigterm \/ AbortStragglers \/ Exit

Spec == Init /\ [][Next]_vars

\* A handler's next step comes: its awaits are bounded by the provider's
\* connection and inactivity timeouts and by query-deadline.ts.
FairSpec == Spec /\ \A r \in Turns : WF_vars(Handler(r))

-----------------------------------------------------------------------------
(* Properties.                                                             *)

Stages == {"idle", "gated", "setup", "rowed", "registered", "streaming", "reviewing",
           "saving", "saved", "billed", "catching", "finishing", "leaving", "releasing",
           "ended", "killed"}

\* The shape of the handlers, the wallet, the counter and the registry.
TypeOK ==
  /\ turn \in [Turns -> [pc : Stages, trial : {"none", "held", "returned"}, slot : BOOLEAN,
                         row : {"none", "complete", "failed"}, saved : BOOLEAN,
                         charges : 0..2, settled : BOOLEAN]]
  /\ wallet \in 0..Trials
  /\ slots \in 0..MaxConcurrent
  /\ active \subseteq Turns
  /\ latest \in [Sessions -> Turns \cup {None}]
  /\ signal \in [Turns -> {None, "user-stop", "credits", "server-shutdown"}]
  /\ phase \in {"serving", "draining", "aborting", "exited"}

\* messages.ts:912-917: a trial use is either in the wallet or claimed by one
\* turn that has not given it back, whichever paths call the refund and how
\* often: none is lost and none is minted.
TrialsConserved == wallet + Cardinality({r \in Turns : turn[r].trial = "held"}) = Trials

\* A turn that ended without a saved reply has given its trial use back.
NoReplyNoTrial ==
  \A r \in Turns : turn[r].pc = "ended" /\ ~turn[r].saved => turn[r].trial # "held"

\* A slot that is counted is held by a handler that will give it back: early
\* returns, throws and the counter's expiry never lock the user out.
SlotsAreHeld == slots <= Cardinality({r \in Turns : turn[r].slot})

\* A reply about to be delivered is paid at most once: by the trial or by
\* credits, in the commit or in the bill.
PaidOnce ==
  \A r \in Turns : turn[r].pc = "billed" =>
    turn[r].charges + (IF turn[r].trial = "held" THEN 1 ELSE 0) <= 1

\* Credits are taken for a saved reply or a generation the player stopped,
\* never for one that failed, ran out of credits or was cut by a deploy.
FailuresAreFree ==
  [][\A r \in Turns : turn'[r].charges > turn[r].charges /\ ~turn'[r].saved
       => signal[r] = "user-stop"]_vars

\* The user row of a turn whose reply was saved never gets a retry button, by
\* whatever fails after the save.
SavedTurnsDoNotFail ==
  [][\A r \in Turns : turn[r].saved => turn'[r].row # "failed"]_vars

\* The stop endpoint finds only a stream that is running, and of that session.
StopTargetsRunning ==
  \A s \in Sessions : latest[s] # None => latest[s] \in active /\ SessionOf[latest[s]] = s

\* Unless the process is killed first, the handlers give every slot back and
\* the user need not wait for the counter to expire.
EverySlotComesBack == <>[](phase = "exited" \/ slots = 0)

\* stream-registry.ts:41-43: a stopped generation is discarded.
StopDiscards ==
  [][\A r \in Turns : signal[r] = "user-stop" /\ ~turn[r].saved => ~turn'[r].saved]_vars

\* stopped-generation.ts:2-7: a generation the player stopped is settled.
StopsAreSettled ==
  \A r \in Turns :
    signal[r] = "user-stop" /\ turn[r].pc = "ended" /\ ~turn[r].saved => turn[r].settled

\* messages.ts:1371-1373: a deploy waits for a registered generation, and one
\* that takes too long is told before the process ends.
DeployTellsEveryStream == [][Exit => \A r \in active : signal[r] # None]_vars
=============================================================================
