----------------------------- MODULE StudioRun -----------------------------
(***************************************************************************)
(* Agent runs on one world: the row of each run with its credit checkpoint,*)
(* the workers that stream it, and the wallet, which is a CreditLedger.    *)
(*                                                                         *)
(* A step of a run is generated, paid and then applied to the world write  *)
(* by write.  Before and after the model answers, the worker journals the  *)
(* step in the row under its claim, so that whoever comes after a pause, a *)
(* deploy or a crash finds it.  The world is one document: every write     *)
(* stores the worker's whole copy, and what keeps it from landing on a     *)
(* newer save of the editor is the revision in the checkpoint.             *)
(*                                                                         *)
(* A claim is named by the worker it was minted for; a worker serves one   *)
(* run and holds at most one claim.                                        *)
(***************************************************************************)
EXTENDS Integers, FiniteSets, Functions

CONSTANTS
  Runs, Workers,
  None,
  Credits,       \* amounts of the ledger
  Opening,       \* credits in the wallet at the start
  MaxBalance,    \* bound on top-ups
  HoldCredits,   \* held for a step
  Costs,         \* what a step may turn out to cost
  MaxWrites,     \* bound on the writes of a step
  MaxSteps,      \* maxIterations
  MaxRestarts,   \* MAX_STALE_RESTARTS
  MaxTroubles    \* bound on saves of the editor, stops, deploys and crashes

MaxTries == MaxSteps + MaxRestarts
Refs == Workers \X (1 .. MaxTries)

ASSUME StudioAssumption ==
  /\ Costs \subseteq Credits \ {0} /\ {0, 1, Opening, HoldCredits} \subseteq Credits
  /\ Credits \subseteq Nat
  /\ {MaxWrites, MaxSteps, MaxRestarts} \subseteq Nat
  /\ IsFiniteSet(Workers)
  /\ None \notin Workers \cup Refs \cup Nat

VARIABLES
  balance, hold, charge, refunded, lost,  \* the wallet
  world,     \* its revision, the saves and the agent writes it contains
  row,       \* agentRuns
  worker,    \* streamAgentLoop of each request
  stopping,  \* runs whose stop has not reached the database
  log,       \* the saves of the editor, and how often each write was stored
  faults     \* stops, deploys and crashes so far

wallet == <<balance, hold, charge, refunded, lost>>
vars == <<wallet, world, row, worker, stopping, log, faults>>

Wallet == INSTANCE CreditLedger

Writes == Refs \X (1 .. MaxWrites)
Journal(phase, ref, cost, todo) ==
  [phase |-> phase, ref |-> ref, cost |-> cost, todo |-> todo, done |-> 0, paid |-> FALSE]
Nothing == Journal("none", None, 0, 0)
Preflight == Journal("preflight", None, 0, 0)

Unborn == [status |-> "unborn", why |-> "", claim |-> None, rev |-> 0, step |-> 0,
           stale |-> FALSE, journal |-> Nothing]
Idle == [pc |-> "idle", run |-> None, claimed |-> FALSE, rev |-> 0, copy |-> {},
         saves |-> 0, tries |-> 0, step |-> 0, held |-> FALSE, replay |-> FALSE,
         result |-> Nothing, abort |-> "", restarts |-> 0, late |-> FALSE]

Init ==
  /\ Wallet!Init /\ balance = Opening
  /\ world = [rev |-> 0, saves |-> 0, writes |-> {}]
  /\ row = [r \in Runs |-> Unborn]
  /\ worker = [w \in Workers |-> Idle]
  /\ stopping = {}
  /\ log = [saves |-> 0, landed |-> [x \in Writes |-> 0]]
  /\ faults = 0

-----------------------------------------------------------------------------
(* The row of a run and the worker that may write it.                      *)

Row(w) == row[worker[w].run]
Ref(w) == worker[w].result.ref
Aborted(w) == worker[w].abort # ""
Shutdown(w) == worker[w].abort = "shutdown"
Live(w) == worker[w].pc \notin {"idle", "gone", "dead"}

\* ownedRunWhere, and the condition of every checkpoint transaction.
Owns(w) ==
  /\ Row(w).status = "running"
  /\ Row(w).claim = IF worker[w].claimed THEN w ELSE None
AnyRevision(w) == TRUE
Current(w) == Row(w).rev = world.rev

\* Whatever the owner writes is also a sign of life.
SetRow(w, new) == row' = [row EXCEPT ![worker[w].run] = [new EXCEPT !.stale = FALSE]]
Becomes(w, new) == worker' = [worker EXCEPT ![w] = new]
Goes(w, pc) == Becomes(w, [worker[w] EXCEPT !.pc = pc])
Leaves(w, pc) == Becomes(w, [Idle EXCEPT !.pc = pc])
\* What is read of a worker that is done with its step.
Out(w, pc) ==
  Becomes(w, [Idle EXCEPT !.pc = pc, !.run = worker[w].run, !.claimed = worker[w].claimed,
                          !.abort = worker[w].abort, !.late = worker[w].late,
                          !.held = worker[w].held, !.tries = worker[w].tries])

\* finalizeRun without consuming the claim: an owner's status and no more.
Marks(w, status) ==
  IF Owns(w) /\ ~ Shutdown(w) THEN SetRow(w, [Row(w) EXCEPT !.status = status])
                              ELSE UNCHANGED row
\* restoreStudioCreditPause
Restored(w) == [Row(w) EXCEPT !.status = "awaiting_credits", !.claim = None]
\* The catch of the loop, for anything but a lost claim.
Fails(w) ==
  /\ IF worker[w].claimed /\ ~ Aborted(w) /\ Owns(w) THEN SetRow(w, Restored(w))
                                                     ELSE Marks(w, "error")
  /\ Out(w, "exit")

Trouble == log.saves + faults < MaxTroubles

Rest == <<wallet, world, stopping, log, faults>>
Budget == <<stopping, log, faults>>

-----------------------------------------------------------------------------
(* Requests: a new run, a resumed one, the answer to a card.               *)

Free == balance - Wallet!Held(Refs)
OthersRunning(r) == \E x \in Runs \ {r} : row[x].status = "running"
Enters(w, r, new) ==
  worker' = [worker EXCEPT ![w] = [new EXCEPT !.run = r, !.pc = "loop"]]

\* A new run supersedes the running ones under the lock of the world.
Start(w, r) ==
  /\ worker[w].pc = "idle" /\ row[r].status = "unborn"
  /\ row' = [x \in Runs |->
       IF x = r THEN [Unborn EXCEPT !.status = "running"]
       ELSE IF row[x].status = "running"
            THEN [row[x] EXCEPT !.status = "completed", !.why = "superseded",
                                !.stale = FALSE]
            ELSE row[x]]
  /\ Enters(w, r, Idle)
  /\ UNCHANGED Rest

\* isStudioCreditResumeEligible
Eligible(r) ==
  \/ row[r].status = "awaiting_credits"
  \/ /\ row[r].status \in {"running", "error"}
     /\ row[r].why \notin {"stopped", "superseded"}
     /\ row[r].claim # None /\ row[r].stale
AlsoPaid(j) == TRUE
\* rebaseStudioCreditCheckpoint: only a paid result refuses a newer world.
Rebasable(j) == ~ j.paid
Rebased(r) ==
  IF row[r].rev = world.rev THEN row[r].journal ELSE Preflight

Resume(w, r) ==
  /\ worker[w].pc = "idle"
  /\ row[r].journal.phase = "generated" \/ Free > 0
  /\ Eligible(r) /\ row[r].journal.phase \in {"preflight", "generated"}
  /\ ~ OthersRunning(r)
  /\ row[r].rev = world.rev \/ Rebasable(row[r].journal)
  /\ row' = [row EXCEPT ![r] =
       [@ EXCEPT !.status = "running", !.why = "", !.claim = w, !.stale = FALSE,
                 !.rev = world.rev, !.journal = Rebased(r)]]
  /\ Enters(w, r, [Idle EXCEPT !.claimed = TRUE, !.step = row[r].step,
       !.copy = world.writes, !.saves = world.saves,
       !.replay = Rebased(r).phase = "generated", !.result = Rebased(r)])
  /\ UNCHANGED Rest

\* The answer to a card takes the run back under the lock of the world, and
\* submits the picture before it writes the row again.
Answer(w, r) ==
  /\ worker[w].pc = "idle" /\ row[r].status = "awaiting_approval"
  /\ ~ OthersRunning(r)
  /\ row' = [row EXCEPT ![r].status = "running", ![r].stale = FALSE]
  /\ worker' = [worker EXCEPT ![w] = [Idle EXCEPT !.run = r, !.pc = "answer",
                                                  !.step = row[r].step + 1]]
  /\ UNCHANGED Rest

Reenter(w) ==
  /\ worker[w].pc = "answer"
  /\ SetRow(w, [Row(w) EXCEPT !.status = "running", !.step = worker[w].step])
  /\ Goes(w, "loop")
  /\ UNCHANGED Rest

-----------------------------------------------------------------------------
(* A step up to the answer of the model.                                   *)

Shelves(w, j) == Becomes(w, [worker[w] EXCEPT !.pc = "pause", !.result = j])

\* The top of the loop: the revision that the step is computed from, and the
\* world with it unless a result is replayed.
Loop(w) ==
  /\ worker[w].pc = "loop"
  /\ LET self == worker[w]
         seen == [self EXCEPT !.rev = world.rev, !.copy = world.writes,
                              !.saves = world.saves, !.result = Preflight]
     IN \/ /\ Aborted(w) \/ self.step >= MaxSteps
           /\ Out(w, "final")
        \/ /\ ~ Aborted(w) /\ self.step < MaxSteps /\ self.replay
           /\ Becomes(w, [self EXCEPT !.pc = "bill"])
        \/ /\ ~ Aborted(w) /\ self.step < MaxSteps /\ ~ self.replay
           /\ Becomes(w, [seen EXCEPT !.pc = IF Free < HoldCredits THEN "pause" ELSE "stage"])
  /\ UNCHANGED <<Rest, row>>

\* restartStaleStep
MayRestart(w) == worker[w].restarts < MaxRestarts
Again(w) ==
  [Idle EXCEPT !.pc = "loop", !.run = worker[w].run, !.claimed = worker[w].claimed,
               !.abort = worker[w].abort, !.step = worker[w].step,
               !.tries = worker[w].tries, !.restarts = worker[w].restarts + 1]

\* stageStudioCreditIteration of what the worker holds.
Staged(w) == [Row(w) EXCEPT !.claim = w, !.rev = worker[w].rev, !.step = worker[w].step,
                            !.journal = worker[w].result]

StagePreflight(w) ==
  /\ worker[w].pc = "stage"
  /\ \/ ~ Owns(w) /\ Out(w, "exit") /\ UNCHANGED row
     \/ /\ Owns(w) /\ worker[w].rev # world.rev
        /\ Becomes(w, IF MayRestart(w) THEN [Again(w) EXCEPT !.late = worker[w].late] ELSE [worker[w] EXCEPT !.pc = "pause"])
        /\ UNCHANGED row
     \/ /\ Owns(w) /\ worker[w].rev = world.rev
        /\ SetRow(w, Staged(w))
        /\ Becomes(w, [worker[w] EXCEPT !.pc = "reserve", !.claimed = TRUE, !.tries = @ + 1])
  /\ UNCHANGED Rest

NextRef(w) == <<w, worker[w].tries>>
Reserve(w) ==
  /\ worker[w].pc = "reserve"
  /\ \/ /\ Wallet!Loses(0) /\ Wallet!Reserve(NextRef(w), HoldCredits, 0)
        /\ Becomes(w, [worker[w] EXCEPT !.pc = "generate", !.held = TRUE])
     \/ /\ HoldCredits > 0 /\ HoldCredits + Wallet!HeldForOthers(NextRef(w)) > balance
        /\ Goes(w, "pause") /\ UNCHANGED wallet
  /\ UNCHANGED <<world, row, Budget>>

\* The model answers with a cost and so many writes.
Answers(w) ==
  /\ worker[w].pc = "generate" /\ ~ Aborted(w)
  /\ \E c \in Costs, n \in 0 .. MaxWrites :
       Becomes(w, [worker[w] EXCEPT !.pc = "bill",
                   !.result = Journal("generated", NextRef(w), c, n)])
  /\ UNCHANGED <<Rest, row>>

\* It answers without its usage: a result that nobody can price.
AnswersUnpriced(w) ==
  /\ worker[w].pc = "generate" /\ ~ Aborted(w)
  /\ Shelves(w, Journal("unpriced", NextRef(w), 0, 0))
  /\ UNCHANGED <<Rest, row>>

\* The provider fails, or throws at an abort.
ProviderFails(w) ==
  /\ worker[w].pc = "generate"
  /\ Marks(w, IF Aborted(w) THEN "completed" ELSE "error")
  /\ Out(w, "exit")
  /\ UNCHANGED Rest

\* An abort between two chunks ends the answer without an exception.
Cut(w) ==
  /\ worker[w].pc = "generate" /\ Aborted(w)
  /\ Out(w, "exit")
  /\ UNCHANGED <<Rest, row>>

\* The heartbeat finds no progress, or the run too long, in one of the two
\* phases that take their time.
Watchdog(w) ==
  /\ worker[w].pc \in {"generate", "write"} /\ ~ Aborted(w)
  /\ Marks(w, "error")
  /\ Becomes(w, [worker[w] EXCEPT !.abort = "watchdog"])
  /\ UNCHANGED Rest

-----------------------------------------------------------------------------
(* Paying.                                                                 *)

\* Under a hold of its own a step is settled, otherwise deducted; either is
\* refused what the wallet does not have beside the holds of others.
Pays(w, c) ==
  LET ref == Ref(w)
  IN IF worker[w].held THEN Wallet!Settle(ref, c, 0)
     ELSE IF charge[ref] = None THEN Wallet!Deduct(ref, c, 0)
          ELSE UNCHANGED <<balance, hold, charge, refunded>>
CannotPay(w, c) ==
  LET ref == Ref(w)
  IN charge[ref] = None /\ c + Wallet!HeldForOthers(ref) > balance

\* A stopped worker pays for what the provider did, and drops it.
PayAborted(w) ==
  /\ worker[w].pc = "bill" /\ Aborted(w) /\ ~ Shutdown(w)
  /\ \/ ~ worker[w].held /\ Out(w, "exit") /\ UNCHANGED wallet
     \/ /\ worker[w].held /\ Wallet!Loses(0) /\ Pays(w, worker[w].result.cost)
        /\ Leaves(w, "gone")
     \/ /\ worker[w].held /\ CannotPay(w, worker[w].result.cost)
        /\ Shelves(w, Preflight) /\ UNCHANGED wallet
  /\ UNCHANGED <<world, row, Budget>>

ReleaseUnlessAborted(w, ref) ==
  IF worker[w].held /\ ~ Aborted(w) /\ hold[ref].status \in {"active", "lapsed"}
  THEN Wallet!Loses(0) /\ Wallet!Release(ref)
  ELSE UNCHANGED wallet
ReleaseHold(w, ref) ==
  IF worker[w].held /\ hold[ref].status \in {"active", "lapsed"}
  THEN Wallet!Loses(0) /\ Wallet!Release(ref)
  ELSE UNCHANGED wallet

ReplaySkipsBill(w) == IF worker[w].replay THEN "write" ELSE "settle"
\* A replayed result goes through the settlement too, which charges it once.
AfterStaging(w) == "settle"
StageGenerated(w) ==
  /\ worker[w].pc = "bill" /\ ~ (Aborted(w) /\ ~ Shutdown(w))
  /\ \/ worker[w].replay /\ Goes(w, AfterStaging(w)) /\ UNCHANGED <<wallet, row>>
     \/ /\ ~ worker[w].replay /\ ~ Owns(w)
        /\ Out(w, "exit") /\ UNCHANGED <<wallet, row>>
     \/ /\ ~ worker[w].replay /\ Owns(w) /\ worker[w].rev # world.rev
        /\ IF MayRestart(w) THEN \E late \in BOOLEAN :
                     Becomes(w, [Again(w) EXCEPT !.late = late]) /\ ReleaseHold(w, Ref(w))
                            ELSE Goes(w, "pause") /\ UNCHANGED wallet
        /\ UNCHANGED row
     \/ /\ ~ worker[w].replay /\ Owns(w) /\ worker[w].rev = world.rev
        /\ SetRow(w, Staged(w))
        /\ Goes(w, AfterStaging(w)) /\ UNCHANGED wallet
  /\ UNCHANGED <<world, Budget>>

\* The charge and the mark that the result is paid are one transaction.
Settle(w) ==
  /\ worker[w].pc = "settle"
  /\ \/ ~ Owns(w) /\ Out(w, "exit") /\ UNCHANGED <<wallet, row>>
     \/ Owns(w) /\ ~ Current(w) /\ Fails(w) /\ UNCHANGED wallet
     \/ /\ Owns(w) /\ Current(w) /\ CannotPay(w, Row(w).journal.cost)
        /\ Becomes(w, [worker[w] EXCEPT !.pc = "pause", !.rev = Row(w).rev,
                                        !.result = Row(w).journal])
        /\ UNCHANGED <<wallet, row>>
     \/ /\ Owns(w) /\ Current(w)
        /\ Wallet!Loses(0) /\ Pays(w, Row(w).journal.cost)
        /\ SetRow(w, [Row(w) EXCEPT !.journal.paid = TRUE])
        /\ \E late \in BOOLEAN :
             /\ late => worker[w].held
             /\ Becomes(w, [worker[w] EXCEPT !.pc = IF Aborted(w) THEN "exit" ELSE "write",
                              !.held = FALSE, !.replay = FALSE, !.late = @ \/ late])
  /\ UNCHANGED <<world, Budget>>

-----------------------------------------------------------------------------
(* Applying.                                                               *)

Done(w) == worker[w].result.done
Overrun(w) == Done(w) > worker[w].result.todo
Finished(w) == Done(w) = worker[w].result.todo

\* One write: the whole copy of the worker with one change, and the progress
\* of the checkpoint with it.  A write that the checkpoint has is skipped.
Unjournaled(w) == [Row(w) EXCEPT !.rev = world.rev + 1]
Progressed(w) == [Row(w) EXCEPT !.rev = world.rev + 1, !.journal.done = Done(w) + 1]
Write(w) ==
  LET self == worker[w]
      key == <<Ref(w), Done(w) + 1>>
      new == self.copy \cup {key}
  IN /\ self.pc = "write" /\ ~ Finished(w) /\ ~ Aborted(w)
     /\ \/ /\ ~ Owns(w)
           /\ Out(w, "exit") /\ UNCHANGED <<world, row, log>>
        \/ Owns(w) /\ ~ Current(w) /\ Fails(w) /\ UNCHANGED <<world, log>>
        \/ /\ Owns(w) /\ Current(w)
           /\ world' = [rev |-> world.rev + 1, saves |-> self.saves, writes |-> new]
           /\ log' = [log EXCEPT !.landed[key] = @ + 1]
           /\ SetRow(w, Progressed(w))
           /\ Becomes(w, [self EXCEPT !.copy = new, !.result.done = @ + 1])
     /\ UNCHANGED <<wallet, stopping, faults>>

\* The end of a step that is not the last: its result is consumed and the next step
\* journaled, against the world as it is now.
FinishIteration(w) ==
  /\ worker[w].pc = "write" /\ Finished(w) /\ ~ Aborted(w)
  /\ \/ ~ Owns(w) /\ Out(w, "exit") /\ UNCHANGED row
     \/ /\ Owns(w)
        /\ SetRow(w, [Row(w) EXCEPT !.rev = world.rev, !.step = worker[w].step + 1,
                                    !.journal = Preflight])
        /\ Becomes(w, [worker[w] EXCEPT !.pc = "loop", !.step = @ + 1,
                         !.copy = {}, !.saves = 0, !.rev = 0, !.result = Nothing])
  /\ UNCHANGED Rest

\* A step ends the run, or puts up a card.
Concludes(w) ==
  /\ worker[w].pc = "write" /\ Finished(w) /\ ~ Aborted(w)
  /\ \E pc \in {"final", "card"} : Out(w, pc)
  /\ UNCHANGED <<Rest, row>>

\* An abort leaves the writes, and then the loop; one that came in before the
\* first of them may still be seen where the result was paid.
Breaks(w) ==
  /\ worker[w].pc = "write" /\ Aborted(w)
  /\ Out(w, "final") \/ (Done(w) = 0 /\ Out(w, "exit"))
  /\ UNCHANGED <<Rest, row>>

\* finalizeRun: who ends in peace consumes the claim with the terminal status.
Consumed(w, status) ==
  [Row(w) EXCEPT !.status = status, !.claim = None, !.journal = Nothing]
Finalize(w) ==
  /\ worker[w].pc \in {"final", "card"}
  /\ LET status == IF worker[w].pc = "final" THEN "completed" ELSE "awaiting_approval"
     IN IF worker[w].claimed /\ ~ Aborted(w)
        THEN IF Owns(w) THEN SetRow(w, Consumed(w, status)) ELSE UNCHANGED row
        ELSE Marks(w, status)
  /\ Becomes(w, [worker[w] EXCEPT !.pc = "exit", !.claimed = @ /\ (Aborted(w) \/ ~ Owns(w))])
  /\ UNCHANGED Rest

-----------------------------------------------------------------------------
(* Pausing and leaving.                                                    *)

\* pauseStudioForCredits
Paused(w) ==
  [Row(w) EXCEPT !.status = "awaiting_credits", !.claim = None, !.step = worker[w].step,
                 !.rev = worker[w].rev, !.journal = worker[w].result]
Pause(w) ==
  /\ worker[w].pc = "pause"
  /\ IF Owns(w) THEN SetRow(w, Paused(w)) ELSE UNCHANGED row
  /\ Becomes(w, [worker[w] EXCEPT !.pc = "exit", !.claimed = @ /\ ~ Owns(w)])
  /\ UNCHANGED Rest

\* The finally of the loop: a deploy gives the step back, and the hold of a
\* step that was not paid is released.
Exit(w) ==
  /\ worker[w].pc = "exit"
  /\ Shutdown(w) /\ Owns(w)
  /\ SetRow(w, IF worker[w].claimed THEN Restored(w) ELSE [Row(w) EXCEPT !.status = "error"])
  /\ Goes(w, "release")
  /\ UNCHANGED Rest

Release(w) ==
  /\ worker[w].pc = "release" \/ (worker[w].pc = "exit" /\ ~ (Shutdown(w) /\ Owns(w)))
  /\ ReleaseHold(w, NextRef(w))
  /\ Leaves(w, "gone")
  /\ UNCHANGED <<world, row, Budget>>

-----------------------------------------------------------------------------
(* What happens around the loop.                                           *)

\* A renewal that was sent under a hold may be refused after its settlement:
\* it is then late.
RenewalReply(w) ==
  /\ Live(w) /\ worker[w].late
  /\ Becomes(w, [worker[w] EXCEPT !.late = FALSE, !.abort = IF @ = "" THEN "lease" ELSE @])
  /\ UNCHANGED <<Rest, row>>

\* The stop endpoint aborts a worker in its own process, and then writes.
StopArrives(r) ==
  /\ row[r].status \in {"running", "awaiting_approval"} /\ Trouble
  /\ \E here \in SUBSET {w \in Workers : Live(w) /\ worker[w].run = r /\ worker[w].pc # "answer"} :
       worker' = [w \in Workers |->
         IF w \in here /\ ~ Aborted(w) THEN [worker[w] EXCEPT !.abort = "stop"] ELSE worker[w]]
  /\ stopping' = stopping \cup {r}
  /\ faults' = faults + 1
  /\ UNCHANGED <<wallet, world, row, log>>
Stopped(r) ==
  [row[r] EXCEPT !.status = "completed", !.why = "stopped", !.stale = FALSE,
     !.claim = IF row[r].status = "running" THEN None ELSE @,
     !.journal = IF row[r].status = "running" THEN Nothing ELSE @]
StopWrites(r) ==
  /\ r \in stopping
  /\ stopping' = stopping \ {r}
  /\ row' = [row EXCEPT ![r] =
       IF @.status \in {"running", "awaiting_approval"} THEN Stopped(r) ELSE @]
  /\ UNCHANGED <<wallet, world, worker, log, faults>>

\* The creator starts over from a pause.
Discard(r) ==
  /\ row[r].status = "awaiting_credits"
  /\ row' = [row EXCEPT ![r] = [Stopped(r) EXCEPT !.claim = None, !.journal = Nothing]]
  /\ UNCHANGED <<Rest, worker>>

\* A worker learns that its run is no longer its own: the poll of the
\* heartbeat, the broadcast, and the abort of a superseded run.
Notice(w) ==
  /\ Live(w) /\ ~ Aborted(w) /\ worker[w].pc \notin {"answer", "exit", "release"}
  /\ Row(w).status # "running" \/ (worker[w].claimed /\ Row(w).claim # w)
  /\ Becomes(w, [worker[w] EXCEPT !.abort = "stop"])
  /\ UNCHANGED <<Rest, row>>

Drain(w) ==
  /\ Live(w) /\ ~ Aborted(w) /\ worker[w].pc # "answer" /\ Trouble
  /\ Becomes(w, [worker[w] EXCEPT !.abort = "shutdown"])
  /\ faults' = faults + 1
  /\ UNCHANGED <<wallet, world, row, stopping, log>>

Crash(w) ==
  /\ Live(w) /\ Trouble
  /\ Leaves(w, "dead")
  /\ faults' = faults + 1
  /\ UNCHANGED <<wallet, world, row, stopping, log>>

\* Five minutes without a sign of life: a worker signs every five seconds,
\* for as long as it owns the run and is not aborted.
Silent(r) ==
  \A w \in Workers : Live(w) /\ worker[w].run = r => Aborted(w) \/ ~ Owns(w)
Age(r) ==
  /\ row[r].status \in {"running", "error"} /\ row[r].claim # None /\ ~ row[r].stale
  /\ Silent(r)
  /\ row' = [row EXCEPT ![r].stale = TRUE]
  /\ UNCHANGED <<Rest, worker>>

\* The editor stores what it has, merged with what the agent wrote.
EditorSave ==
  /\ Trouble
  /\ world' = [world EXCEPT !.rev = @ + 1, !.saves = @ + 1]
  /\ log' = [log EXCEPT !.saves = @ + 1]
  /\ UNCHANGED <<wallet, row, worker, stopping, faults>>

TopUp ==
  /\ balance < MaxBalance /\ Wallet!Loses(0) /\ Wallet!Fund(1, 0)
  /\ UNCHANGED <<world, row, worker, Budget>>

\* A live worker renews its hold long before it lapses.
Lapse(w) ==
  /\ worker[w].pc = "dead" /\ Wallet!Loses(0)
  /\ \E n \in 1 .. MaxTries : Wallet!Lapse({<<w, n>>})
  /\ UNCHANGED <<world, row, worker, Budget>>

-----------------------------------------------------------------------------
Step(w) ==
  \/ Reenter(w) \/ Loop(w) \/ StagePreflight(w) \/ Reserve(w)
  \/ Answers(w) \/ AnswersUnpriced(w) \/ ProviderFails(w) \/ Cut(w)
  \/ PayAborted(w) \/ StageGenerated(w) \/ Settle(w)
  \/ Write(w) \/ FinishIteration(w) \/ Concludes(w) \/ Breaks(w) \/ Finalize(w)
  \/ Pause(w) \/ Exit(w) \/ Release(w)

Next ==
  \/ \E w \in Workers : \/ Step(w) \/ Watchdog(w) \/ RenewalReply(w)
                        \/ Notice(w) \/ Drain(w) \/ Crash(w) \/ Lapse(w)
  \/ \E w \in Workers, r \in Runs : Start(w, r) \/ Resume(w, r) \/ Answer(w, r)
  \/ \E r \in Runs : StopArrives(r) \/ StopWrites(r) \/ Discard(r) \/ Age(r)
  \/ EditorSave \/ TopUp

Spec == Init /\ [][Next]_vars

-----------------------------------------------------------------------------
Pcs == {"idle", "answer", "loop", "stage", "reserve", "generate", "bill", "settle",
        "write", "final", "card", "pause", "exit", "release", "gone", "dead"}
JournalType ==
  [phase : {"none", "preflight", "generated", "unpriced"}, ref : Refs \cup {None},
   cost : Costs \cup {0}, todo : 0 .. MaxWrites, done : 0 .. MaxWrites, paid : BOOLEAN]
RowType ==
  [status : {"unborn", "running", "awaiting_credits", "awaiting_approval",
             "completed", "error"},
   why : {"", "stopped", "superseded"}, claim : Workers \cup {None}, rev : Nat,
   step : Nat, stale : BOOLEAN, journal : JournalType]
WorkerType ==
  [pc : Pcs, run : Runs \cup {None}, claimed : BOOLEAN, rev : Nat,
   copy : SUBSET Writes, saves : Nat, tries : 0 .. MaxTries, step : Nat,
   held : BOOLEAN, replay : BOOLEAN, result : JournalType,
   abort : {"", "stop", "lease", "watchdog", "shutdown"},
   restarts : 0 .. MaxRestarts, late : BOOLEAN]
TypeOK ==
  /\ Wallet!TypeOK
  /\ world \in [rev : Nat, saves : Nat, writes : SUBSET Writes]
  /\ row \in [Runs -> RowType] /\ worker \in [Workers -> WorkerType]
  /\ stopping \subseteq Runs
  /\ log \in [saves : Nat, landed : [Writes -> Nat]]
  /\ faults \in Nat

\* The world has every save of the editor and every write that was stored,
\* although each write replaces all of it with a copy made earlier.
NothingIsOverwritten ==
  world.saves = log.saves /\ world.writes = {x \in Writes : log.landed[x] > 0}

\* No write is in the world unless its step was charged.
PaidBeforeApplied == \A x \in world.writes : charge[x[1]] # None

\* A crash, a deploy or a resume between two writes repeats none of them.
AppliedOnce == \A x \in Writes : log.landed[x] <= 1

\* A worker that did not crash leaves no credits held, however it ended.
HoldsAreReleased ==
  \A w \in Workers, n \in 1 .. MaxTries :
    worker[w].pc = "gone" => hold[<<w, n>>].status # "active"

\* A paid result that is not applied stays in a checkpoint that can be
\* resumed, unless the creator ends the run.  The exception is a worker whose
\* lease was refused: its renewal was still on the way when it settled.
Owed(r) == row[r].journal.paid /\ row[r].journal.done < row[r].journal.todo
Resumable(r) ==
  \/ row[r].status = "awaiting_credits"
  \/ row[r].status \in {"running", "error"} /\ row[r].claim # None
Kept(r) ==
  /\ Resumable(r)'
  /\ row'[r].journal.ref = row[r].journal.ref /\ row'[r].journal.done >= row[r].journal.done
EndedBy(r, causes) ==
  \E w \in Workers : row[r].claim = w /\ worker[w].abort \in causes
PaidWorkIsKept ==
  [][\A r \in Runs :
       Owed(r) /\ Resumable(r) =>
         \/ Kept(r) \/ row'[r].why \in {"stopped", "superseded"}
         \/ EndedBy(r, {"stop", "lease"})]_vars

\* At most one run of a world is running.
OneRunner ==
  \A q, r \in Runs : row[q].status = "running" /\ row[r].status = "running" => q = r
=============================================================================
