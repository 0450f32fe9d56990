---------------------------- MODULE SessionTurns ----------------------------
(***************************************************************************)
(* One play session as the database sees it: the session row (state and    *)
(* run_memories.generation), its messages, and the turns that read them at *)
(* the start of a request and write them back tens of seconds later.       *)
(*                                                                         *)
(* Every write to the row is made under SELECT ... FOR UPDATE (or the      *)
(* NOWAIT form of session-lock.ts), so a locked read-modify-write is one   *)
(* action.  The reads a turn makes before its commit are not locked and    *)
(* are actions of their own: everything that can go wrong in this module   *)
(* happens between them.                                                   *)
(***************************************************************************)
EXTENDS Naturals, Sequences, FiniteSets

CONSTANTS
  Keys,        \* ids of the world's variables
  Vals,        \* their values
  Default,     \* the world's default value of every variable
  OnceKeys,    \* boolean variables declared onceTrue
  True,        \* the value at which a onceTrue variable latches
  SetupKeys,   \* setup-scoped variables, which a revert keeps
  Contexts,    \* one-shot context entries for the next turn
  Rules,       \* behaviours whose firing ruleState records (fireCounts, toggles)
  Requests,    \* the turn requests of the behaviour, each made once
  Kinds,       \* which of "send", "regenerate", "continue" they may be
  MaxGen,      \* bound on the number of timeline replacements
  None         \* no value

ASSUME DataAssumption ==
  /\ Default \in Vals /\ True \in Vals /\ None \notin Vals
  /\ OnceKeys \subseteq Keys /\ SetupKeys \subseteq Keys
  /\ MaxGen \in Nat /\ Requests \cap Nat = {}
  /\ Kinds \subseteq {"send", "regenerate", "continue"}

VARIABLES
  session,     \* the play_sessions row: game state and timeline generation
  transcript,  \* the messages of the session, oldest first
  req,         \* the local variables of each turn request
  acked,       \* ghost: the acknowledged UI write still standing on each key
  queued,      \* ghost: contexts accepted and not yet read by a committed turn
  dirty,       \* ghost: keys moved by something else since the last snapshot
  aligned      \* ghost: the last step to set the state was that of the last reply

vars == <<session, transcript, req, acked, queued, dirty, aligned>>

Variables == [Keys -> Vals]
State == [vars : Variables, pending : SUBSET Contexts, fired : SUBSET Rules, turn : Nat]
MessageIds == (Nat \cup Requests) \X {"user", "assistant"}

Initial == [vars |-> [k \in Keys |-> Default], pending |-> {}, fired |-> {}, turn |-> 0]

-----------------------------------------------------------------------------
(* The pure functions of the engine and of game-state.ts.                  *)

Unvalidated(k, old, new) == new
Validate(k, old, new) == IF k \in OnceKeys /\ old = True THEN True ELSE new

AssignEffects(v, effects) == effects
\* What the effects of a reply make of the variables; None is an untouched key.
ApplyEffects(v, effects) ==
  [k \in Keys |-> IF effects[k] = None THEN v[k] ELSE Validate(k, v[k], effects[k])]

BlindOverwrite(live, base, out) == out
ReconcileTurnState(live, base, out) ==
  [vars    |-> [k \in Keys |-> IF out.vars[k] # base.vars[k] THEN out.vars[k]
                                                             ELSE live.vars[k]],
   pending |-> IF out.pending # base.pending THEN out.pending ELSE live.pending,
   fired   |-> out.fired,
   turn    |-> out.turn]

ReconcileRegenerationState(live, base, out) ==
  [ReconcileTurnState(live, base, out) EXCEPT !.vars = out.vars]

RewindingPatch(live, patch) == [live EXCEPT !.vars = ApplyEffects(live.vars, patch), !.turn = 0]
ForgetfulPatch(live, patch) == [live EXCEPT !.vars = ApplyEffects(live.vars, patch), !.pending = {}]
\* A UI patch: the keys it names, never turnCount, and onceTrue facts stay true.
MergeGameStatePatch(live, patch) ==
  [live EXCEPT !.vars = ApplyEffects(live.vars, patch)]

\* The first recoverable baseline belongs to the message, not to a swipe.
MessageGenerationState(swipes) ==
  IF \E i \in DOMAIN swipes : swipes[i].base # None
  THEN swipes[CHOOSE i \in DOMAIN swipes :
                /\ swipes[i].base # None
                /\ \A j \in 1..(i - 1) : swipes[j].base = None].base
  ELSE None

CurrentState(current, swipes, active) == current
\* The state a replacement reply starts from.
RegenerationState(current, swipes, active) ==
  LET after  == swipes[active].snap
      stored == MessageGenerationState(swipes)
      before == IF stored = None THEN after ELSE stored
  IN [vars    |-> before.vars,
      pending |-> IF current.pending = after.pending THEN before.pending
                                                     ELSE current.pending,
      fired   |-> before.fired,
      turn    |-> current.turn]

-----------------------------------------------------------------------------
(* The transcript.                                                         *)

\* `text` names the words a message now shows by the generation that wrote
\* them last: an edit, a continuation or another reply changes them.
Words(log) == {<<log[i].id, log[i].text>> : i \in DOMAIN log}
Replies(log) == {i \in DOMAIN log : log[i].role = "assistant"}
Last(log) == log[Len(log)]
LastReply(log) == CHOOSE i \in Replies(log) : \A j \in Replies(log) : j <= i
IsLastReply(id) == Replies(transcript) # {} /\ transcript[LastReply(transcript)].id = id

UserRow(r, gen) == [id |-> <<r, "user">>, role |-> "user", text |-> gen, swipes |-> <<>>,
                    active |-> 0]
Reply(id, gen, swipe) == [id |-> id, role |-> "assistant", text |-> gen,
                               swipes |-> <<swipe>>, active |-> 1]
Greeting(id, gen) == Reply(id, gen, [snap |-> Initial, base |-> None])

Snapshot(message) == message.swipes[message.active].snap

Remove(log, i) == SubSeq(log, 1, i - 1) \o SubSeq(log, i + 1, Len(log))

-----------------------------------------------------------------------------
Idle == [kind |-> "send", pc |-> "idle", base |-> Initial, gen |-> 0, basis |-> {},
         target |-> None, swipes |-> <<>>, active |-> 0, start |-> Initial]
Done(r) == [Idle EXCEPT !.pc = "done", !.kind = req[r].kind]

Init ==
  /\ session = [state |-> Initial, gen |-> 0]
  /\ transcript = <<Greeting(<<0, "assistant">>, 0)>>
  /\ req = [r \in Requests |-> Idle]
  /\ acked = [k \in Keys |-> None]
  /\ queued = {}
  /\ dirty = {}
  /\ aligned = TRUE

ghosts == <<acked, queued, dirty, aligned>>


-----------------------------------------------------------------------------
(* Sending a message.                                                      *)

\* The handler reads the session: state and generation, without a lock.
SendLoad(r) ==
  /\ "send" \in Kinds /\ req[r].pc = "idle"
  /\ req' = [req EXCEPT ![r].kind = "send", ![r].pc = "loaded",
                        ![r].base = session.state, ![r].gen = session.gen]
  /\ UNCHANGED <<session, transcript, ghosts>>

SendInsertUserRow(r) ==
  /\ req[r].kind = "send" /\ req[r].pc = "loaded"
  /\ transcript' = Append(transcript, UserRow(r, session.gen))
  /\ req' = [req EXCEPT ![r].pc = "rowed", ![r].target = <<r, "user">>]
  /\ UNCHANGED <<session, ghosts>>

\* A retry answers the unanswered user row that ends the transcript.
SendReuseUserRow(r) ==
  /\ req[r].kind = "send" /\ req[r].pc = "loaded"
  /\ transcript # <<>> /\ Last(transcript).role = "user"
  /\ req' = [req EXCEPT ![r].pc = "rowed", ![r].target = Last(transcript).id]
  /\ UNCHANGED <<session, transcript, ghosts>>

\* The prompt is built from the messages there are now.
SendReadHistory(r) ==
  /\ req[r].kind = "send" /\ req[r].pc = "rowed"
  /\ req' = [req EXCEPT ![r].pc = "streaming", ![r].start = req[r].base,
                        ![r].basis = Words(transcript)]
  /\ UNCHANGED <<session, transcript, ghosts>>

\* The commit's check, under the row lock, that no history was replaced since
\* the request read the session; otherwise the turn throws and gives up.
AnyTimeline(r) == TRUE
SameTimeline(r) == session.gen = req[r].gen

\* The keys a turn moved away from what it read, and the context it read.
Wrote(base, out) == {k \in Keys : out.vars[k] # base.vars[k]}

SendCommit(r, effects, added, firing) ==
  LET base == req[r].base
      out  == [vars    |-> ApplyEffects(base.vars, effects),
               pending |-> added,
               fired   |-> base.fired \cup firing,
               turn    |-> base.turn + 1]
      new  == ReconcileTurnState(session.state, base, out)
  IN /\ req[r].kind = "send" /\ req[r].pc = "streaming"
     /\ SameTimeline(r)
     /\ session' = [session EXCEPT !.state = new]
     /\ transcript' = Append(transcript,
                             Reply(<<r, "assistant">>, session.gen,
                                   [snap |-> new, base |-> req[r].start]))
     /\ acked' = [k \in Keys |-> IF k \in Wrote(base, out) THEN None ELSE acked[k]]
     /\ queued' = (queued \ base.pending) \cup added
     /\ dirty' = {} /\ aligned' = TRUE
     /\ req' = [req EXCEPT ![r] = Done(r)]

-----------------------------------------------------------------------------
(* Regenerating the last reply.                                            *)

\* The target row is read and checked to be the latest message ...
RegenerateReadMessage(r) ==
  /\ "regenerate" \in Kinds /\ req[r].pc = "idle"
  /\ transcript # <<>> /\ Last(transcript).role = "assistant"
  /\ req' = [req EXCEPT ![r].kind = "regenerate", ![r].pc = "targeted",
                        ![r].target = Last(transcript).id,
                        ![r].swipes = Last(transcript).swipes,
                        ![r].active = Last(transcript).active]
  /\ UNCHANGED <<session, transcript, ghosts>>

\* ... and only then are the session's state and generation read.
RegenerateLoad(r) ==
  /\ req[r].kind = "regenerate" /\ req[r].pc = "targeted"
  /\ req' = [req EXCEPT ![r].pc = "loaded", ![r].base = session.state,
                        ![r].gen = session.gen,
                        ![r].start = RegenerationState(session.state, req[r].swipes,
                                                       req[r].active)]
  /\ UNCHANGED <<session, transcript, ghosts>>

\* The history before the target.
RegenerateReadHistory(r) ==
  /\ req[r].kind = "regenerate" /\ req[r].pc = "loaded"
  /\ req' = [req EXCEPT ![r].pc = "streaming", ![r].basis =
       {<<transcript[i].id, transcript[i].text>> : i \in {j \in DOMAIN transcript :
          \A t \in DOMAIN transcript : transcript[t].id = req[r].target => j < t}}]
  /\ UNCHANGED <<session, transcript, ghosts>>

\* UPDATE messages ... WHERE id, which finds no row if the message is gone.
SetSwipes(log, id, gen, swipes, active) ==
  [i \in DOMAIN log |->
     IF log[i].id = id
     THEN [log[i] EXCEPT !.text = gen, !.swipes = swipes, !.active = active]
     ELSE log[i]]

\* A replacement reply owns its complete variable outcome and retires the
\* generation it started from.
RegenerateCommit(r, effects, added, firing) ==
  LET start == req[r].start
      out   == [vars    |-> ApplyEffects(start.vars, effects),
                pending |-> added,
                fired   |-> start.fired \cup firing,
                turn    |-> start.turn]
      new   == ReconcileRegenerationState(session.state, req[r].base, out)
      all   == Append(req[r].swipes, [snap |-> new, base |-> start])
  IN /\ req[r].kind = "regenerate" /\ req[r].pc = "streaming"
     /\ SameTimeline(r) /\ session.gen < MaxGen
     /\ session' = [state |-> new, gen |-> session.gen + 1]
     /\ transcript' = SetSwipes(transcript, req[r].target, session.gen + 1, all, Len(all))
     /\ acked' = [k \in Keys |-> None]
     /\ queued' = new.pending
     /\ dirty' = {} /\ aligned' = IsLastReply(req[r].target)
     /\ req' = [req EXCEPT ![r] = Done(r)]

-----------------------------------------------------------------------------
(* Continuing the last reply.                                              *)

ContinueLoad(r) ==
  /\ "continue" \in Kinds /\ req[r].pc = "idle"
  /\ req' = [req EXCEPT ![r].kind = "continue", ![r].pc = "loaded",
                        ![r].base = session.state, ![r].gen = session.gen]
  /\ UNCHANGED <<session, transcript, ghosts>>

ContinueReadHistory(r) ==
  /\ req[r].kind = "continue" /\ req[r].pc = "loaded"
  /\ Replies(transcript) # {}
  /\ LET last == transcript[LastReply(transcript)]
     IN req' = [req EXCEPT ![r].pc = "streaming", ![r].target = last.id,
                           ![r].swipes = last.swipes,
                           ![r].basis = Words(transcript)]
  /\ UNCHANGED <<session, transcript, ghosts>>

\* The active swipe is extended in place; untouched keys stay live.
ContinueCommit(r, effects, added, firing) ==
  LET base == req[r].base
      out  == [vars    |-> ApplyEffects(base.vars, effects),
               pending |-> base.pending \cup added,
               fired   |-> base.fired \cup firing,
               turn    |-> base.turn]
      new  == ReconcileTurnState(session.state, base, out)
      at   == CHOOSE i \in DOMAIN transcript : transcript[i].id = req[r].target
      old  == transcript[at]
      swipe == [snap |-> new,
                base |-> RegenerationState(base, req[r].swipes, old.active)]
  IN /\ req[r].kind = "continue" /\ req[r].pc = "streaming"
     /\ SameTimeline(r) /\ session.gen < MaxGen
     /\ session' = [state |-> new, gen |-> session.gen + 1]
     /\ transcript' = SetSwipes(transcript, old.id, session.gen + 1,
                                [old.swipes EXCEPT ![old.active] = swipe], old.active)
     /\ acked' = [k \in Keys |-> IF k \in Wrote(base, out) THEN None ELSE acked[k]]
     /\ queued' = queued \cup added
     /\ dirty' = {} /\ aligned' = IsLastReply(old.id)
     /\ req' = [req EXCEPT ![r] = Done(r)]

\* A turn that ends without a reply: a refusal before the stream, an upstream
\* failure, a stop, a shutdown, or a commit whose generation was retired.
GiveUp(r) ==
  /\ req[r].pc \notin {"idle", "done"}
  /\ req' = [req EXCEPT ![r] = Done(r)]
  /\ UNCHANGED <<session, transcript, ghosts>>

-----------------------------------------------------------------------------
(* What the player's interface and the card's behaviours do meanwhile.     *)

\* PATCH /:id/state with one variable.
PatchState(k, v) ==
  LET new == MergeGameStatePatch(session.state, [j \in Keys |-> IF j = k THEN v ELSE None])
  IN /\ session' = [session EXCEPT !.state = new]
     /\ acked' = [acked EXCEPT ![k] = new.vars[k]]
     /\ dirty' = dirty \cup {k}
     /\ UNCHANGED <<transcript, req, queued, aligned>>

\* A button's behaviours set a variable, may leave words for the next turn and
\* have their firing recorded in ruleState.
ExecuteAction(k, v, words, firing) ==
  LET new == [MergeGameStatePatch(session.state, [j \in Keys |-> IF j = k THEN v ELSE None])
                EXCEPT !.pending = @ \cup words, !.fired = @ \cup firing]
  IN /\ session' = [session EXCEPT !.state = new]
     /\ acked' = [acked EXCEPT ![k] = new.vars[k]]
     /\ queued' = queued \cup words
     /\ dirty' = dirty \cup {k}
     /\ UNCHANGED <<transcript, req, aligned>>

\* POST /:id/context appends.
InjectContext(c) ==
  /\ session' = [session EXCEPT !.state.pending = @ \cup {c}]
  /\ queued' = queued \cup {c}
  /\ UNCHANGED <<transcript, req, acked, dirty, aligned>>

-----------------------------------------------------------------------------
(* Replacing the timeline.  Each of these rotates the generation, which    *)
(* run-scopes.ts draws at random: here, a number never used before.        *)

Rotate(state) ==
  /\ session.gen < MaxGen
  /\ session' = [state |-> state, gen |-> session.gen + 1]
  /\ queued' = state.pending
  /\ UNCHANGED req

\* An edited message keeps the state; only what was derived from it goes.
EditMessage(i) ==
  /\ i \in DOMAIN transcript
  /\ Rotate(session.state)
  /\ transcript' = [transcript EXCEPT ![i].text = session.gen + 1]
  /\ UNCHANGED <<acked, dirty, aligned>>

DeleteMessage(i) ==
  /\ i \in DOMAIN transcript
  /\ Rotate(session.state)
  /\ transcript' = Remove(transcript, i)
  /\ aligned' = FALSE
  /\ UNCHANGED <<acked, dirty>>

\* preserveSetupScopedVariables
KeepSetup(live, restored) ==
  [restored EXCEPT !.vars = [k \in Keys |-> IF k \in SetupKeys THEN live.vars[k] ELSE @[k]]]

\* Keep the first n messages and the state of the last reply among them.
Revert(n) ==
  LET log      == SubSeq(transcript, 1, n)
      restored == IF n = 0 THEN Initial
                  ELSE IF Replies(log) = {} THEN session.state
                  ELSE Snapshot(log[LastReply(log)])
  IN /\ n < Len(transcript)
     /\ Rotate(KeepSetup(session.state, restored))
     /\ transcript' = log
     /\ acked' = [k \in Keys |-> IF k \in SetupKeys THEN acked[k] ELSE None]
     /\ dirty' = SetupKeys /\ aligned' = (Replies(log) # {})

RevertToMessage == \E n \in 1..Len(transcript) : Revert(n)

\* Without a message id: the last reply and the user row before it go.
RevertLastExchange ==
  /\ Replies(transcript) # {}
  /\ LET at == LastReply(transcript)
     IN Revert(IF at > 1 /\ transcript[at - 1].role = "user" THEN at - 2 ELSE at - 1)

\* The first reply becomes the greeting again, or a new greeting is inserted.
Restart ==
  LET first == CHOOSE i \in Replies(transcript) : \A j \in Replies(transcript) : i <= j
      id    == IF Replies(transcript) = {} THEN <<session.gen + 1, "assistant">>
                                           ELSE transcript[first].id
  IN /\ Rotate(Initial)
     /\ transcript' = <<Greeting(id, session.gen + 1)>>
     /\ acked' = [k \in Keys |-> None]
     /\ dirty' = {} /\ aligned' = TRUE

-----------------------------------------------------------------------------
Effects == [Keys -> Vals \cup {None}]

SendStep(r) ==
  \/ SendLoad(r) \/ SendInsertUserRow(r) \/ SendReuseUserRow(r) \/ SendReadHistory(r)
  \/ \E effects \in Effects, added \in SUBSET Contexts, firing \in SUBSET Rules :
       SendCommit(r, effects, added, firing)

RegenerateStep(r) ==
  \/ RegenerateReadMessage(r) \/ RegenerateLoad(r) \/ RegenerateReadHistory(r)
  \/ \E effects \in Effects, added \in SUBSET Contexts, firing \in SUBSET Rules :
       RegenerateCommit(r, effects, added, firing)

ContinueStep(r) ==
  \/ ContinueLoad(r) \/ ContinueReadHistory(r)
  \/ \E effects \in Effects, added \in SUBSET Contexts, firing \in SUBSET Rules :
       ContinueCommit(r, effects, added, firing)

InterfaceStep ==
  \/ \E k \in Keys, v \in Vals : PatchState(k, v)
  \/ \E k \in Keys, v \in Vals, words \in SUBSET Contexts, firing \in SUBSET Rules :
       ExecuteAction(k, v, words, firing)
  \/ \E c \in Contexts : InjectContext(c)

TimelineStep ==
  \/ \E i \in DOMAIN transcript : EditMessage(i) \/ DeleteMessage(i)
  \/ RevertToMessage \/ RevertLastExchange \/ Restart

Next ==
  \/ \E r \in Requests : SendStep(r) \/ RegenerateStep(r) \/ ContinueStep(r) \/ GiveUp(r)
  \/ InterfaceStep
  \/ TimelineStep

Spec == Init /\ [][Next]_vars

-----------------------------------------------------------------------------
(* Properties.                                                             *)

Stages == {"idle", "targeted", "loaded", "rowed", "streaming", "done"}
Swipe == [snap : State, base : State \cup {None}]
Message == [id : MessageIds, role : {"user", "assistant"}, text : Nat, swipes : Seq(Swipe),
            active : Nat]
Turn == [kind : {"send", "regenerate", "continue"}, pc : Stages, base : State, gen : Nat,
         basis : SUBSET (MessageIds \X Nat), target : MessageIds \cup {None},
         swipes : Seq(Swipe), active : Nat, start : State]

\* The shape of the session row, its messages and the turns in flight.
TypeOK ==
  /\ session \in [state : State, gen : Nat]
  /\ transcript \in Seq(Message)
  /\ req \in [Requests -> Turn]
  /\ acked \in [Keys -> Vals \cup {None}]
  /\ queued \subseteq Contexts
  /\ dirty \subseteq Keys
  /\ aligned \in BOOLEAN

\* A variable written by the interface keeps its value until the interface
\* writes it again, a committed turn itself moved it, or the history is
\* replaced: no commit of a turn that merely overlapped the write may undo it
\* (reconcileTurnState and its callers).
UiWriteSurvives ==
  \A k \in Keys : acked[k] # None => session.state.vars[k] = acked[k]

\* A reply is committed only if every message it was generated from still reads
\* as it did: the generation check of the commit refuses a turn whose history a
\* revert, restart, edit, deletion or other reply replaced while it streamed.
Commits(r) ==
  /\ req[r].pc = "streaming" /\ req'[r].pc = "done"
  /\ <<session, transcript>>' # <<session, transcript>>
CommitsAreGrounded ==
  [][\A r \in Requests : Commits(r) => req[r].basis \subseteq Words(transcript)]_vars

\* Between turns the session differs from the snapshot of its last reply only
\* in what the interface wrote since, so reverting to that reply, branching
\* from it or reloading it loses nothing else, the turn counter included.
StateTracksTranscript ==
  aligned =>
    LET snap == Snapshot(transcript[LastReply(transcript)])
    IN /\ session.state.turn = snap.turn
       /\ snap.pending \subseteq session.state.pending
       /\ snap.fired \subseteq session.state.fired
       /\ \A k \in Keys \ dirty : session.state.vars[k] = snap.vars[k]

\* All alternatives of a reply describe outcomes of the same starting
\* variables, however many regenerations and continuations raced.
AlternativesShareBaseline ==
  \A i \in DOMAIN transcript :
    LET swipes == transcript[i].swipes
    IN \A a, b \in DOMAIN swipes :
         swipes[a].base # None /\ swipes[b].base # None
           => swipes[a].base.vars = swipes[b].base.vars

\* A onceTrue fact stays true through patches, behaviours and turns: only a
\* step that replaces history may take it back.
OnceTrueIsPermanent ==
  [][session'.gen = session.gen =>
       \A k \in OnceKeys : session.state.vars[k] = True => session'.state.vars[k] = True]_vars

\* sessions.ts:801: an injected context cannot be clobbered by a concurrent
\* turn; it waits until a turn that read it commits.
QueuedContextWaits == queued \subseteq session.state.pending

RegenerateCommits(r) ==
  req[r].kind = "regenerate" /\ req[r].pc = "streaming" /\ session'.gen # session.gen
    /\ req'[r].pc = "done"

\* turn-swipes.ts:5: the server appends every regeneration to the swipes of its
\* message, so the message is there and a swipe, once made, is kept.
RegenerationAppends ==
  [][\A r \in Requests : RegenerateCommits(r) =>
       \E i \in DOMAIN transcript :
          /\ transcript[i].id = req[r].target
          /\ Len(transcript'[i].swipes) = Len(transcript[i].swipes) + 1
          /\ SubSeq(transcript'[i].swipes, 1, Len(transcript[i].swipes))
               = transcript[i].swipes]_vars
=============================================================================
