------------------------- MODULE SessionStateProofs -------------------------
(***************************************************************************)
(* Proofs about the data a SessionTurns session keeps, on top of           *)
(* SessionTurnsProofs: the alternatives of a reply share their baseline,   *)
(* the state follows the snapshot of the last reply, and what it takes to  *)
(* clear a onceTrue fact, to drop a queued context and to lose a swipe.    *)
(***************************************************************************)
EXTENDS SessionTurnsProofs

-----------------------------------------------------------------------------
(* The baselines of a message's alternatives.                              *)

\* Every recorded baseline among these swipes has the variables v.
HasBaseline(swipes, v) ==
  \A a \in DOMAIN swipes : swipes[a].base # None => swipes[a].base.vars = v

SharesBaseline(swipes) ==
  \A a, b \in DOMAIN swipes : swipes[a].base # None /\ swipes[b].base # None
                                => swipes[a].base.vars = swipes[b].base.vars

\* What a turn in flight holds of its target: a regeneration starts from the
\* baseline of the swipes it read, and the swipes a continuation read are those
\* of its target for as long as the timeline is the one it read.
Baselined(q) ==
  /\ q.kind = "regenerate" /\ q.pc \in {"targeted", "loaded", "streaming"} =>
       SharesBaseline(q.swipes)
  /\ q.kind = "regenerate" /\ q.pc \in {"loaded", "streaming"} =>
       HasBaseline(q.swipes, q.start.vars)
  /\ q.kind = "continue" /\ q.pc = "streaming" /\ q.gen = session.gen =>
       \E i \in DOMAIN transcript : /\ transcript[i].id = q.target
                                    /\ transcript[i].swipes = q.swipes

BaselineInv ==
  /\ \A i \in DOMAIN transcript : SharesBaseline(transcript[i].swipes)
  /\ \A r \in Requests : Baselined(req[r])

\* The baseline a message offers is that of one of its swipes, if any has one.
LEMMA MessageGenerationStateIsABaseline ==
  ASSUME NEW swipes \in Seq(Swipe), NEW a \in DOMAIN swipes, swipes[a].base # None
  PROVE  \E i \in DOMAIN swipes : /\ swipes[i].base # None
                                  /\ MessageGenerationState(swipes) = swipes[i].base
<1>. DEFINE S == {i \in DOMAIN swipes : swipes[i].base # None}
<1>1. S \in SUBSET Nat /\ S # {} /\ DOMAIN swipes = 1..Len(swipes) /\ Len(swipes) \in Nat
  BY LenProperties
<1>2. PICK m \in S : \A x \in S : m <= x
  BY <1>1, LeastElement
<1>3. \A j \in 1..(m - 1) : swipes[j].base = None
  <2>. SUFFICES ASSUME NEW j \in 1..(m - 1) PROVE swipes[j].base = None
    OBVIOUS
  <2>1. j \in DOMAIN swipes
    BY <1>1
  <2>. QED BY <1>1, <1>2, <2>1
<1>. DEFINE first == CHOOSE i \in DOMAIN swipes : /\ swipes[i].base # None
                                                 /\ \A j \in 1..(i - 1) : swipes[j].base = None
<1>4. first \in DOMAIN swipes /\ swipes[first].base # None
  BY <1>3
<1>5. MessageGenerationState(swipes) = swipes[first].base
  BY DEF MessageGenerationState
<1>. HIDE DEF first
<1>. QED BY <1>4, <1>5

\* A replacement reply starts from the variables every alternative started
\* from.
LEMMA RegenerationStateHasBaseline ==
  ASSUME NEW current \in State, NEW swipes \in Seq(Swipe), NEW active \in 1..Len(swipes),
         SharesBaseline(swipes)
  PROVE  HasBaseline(swipes, RegenerationState(current, swipes, active).vars)
<1>. SUFFICES ASSUME NEW a \in DOMAIN swipes, swipes[a].base # None
              PROVE  swipes[a].base.vars = RegenerationState(current, swipes, active).vars
  BY DEF HasBaseline
<1>1. PICK i \in DOMAIN swipes : /\ swipes[i].base # None
                                 /\ MessageGenerationState(swipes) = swipes[i].base
  BY MessageGenerationStateIsABaseline
<1>2. RegenerationState(current, swipes, active).vars = MessageGenerationState(swipes).vars
  BY <1>1 DEF RegenerationState
<1>. QED BY <1>1, <1>2 DEF SharesBaseline

-----------------------------------------------------------------------------
(* The kinds of step again.                                                *)

LEMMA BaselineLocal ==
  ASSUME IInv, BaselineInv, NEW r \in Requests, NEW q, Baselined(q),
         UNCHANGED <<session, transcript>>,
         req' = [req EXCEPT ![r] = q]
  PROVE  BaselineInv'
<1>1. ASSUME NEW s \in Requests PROVE Baselined(req'[s])
  BY DEF IInv, TypeOK, BaselineInv
<1>2. ASSUME NEW s \in Requests PROVE Baselined(req[s])'
  BY <1>1 DEF Baselined
<1>3. (\A i \in DOMAIN transcript : SharesBaseline(transcript[i].swipes))'
  BY DEF BaselineInv
<1>. QED BY <1>2, <1>3 DEF BaselineInv

LEMMA BaselineAppend ==
  ASSUME IInv, BaselineInv, NEW r \in Requests, NEW q \in Turn, q.pc \in {"rowed", "done"},
         NEW m \in Message, SharesBaseline(m.swipes),
         session'.gen = session.gen, transcript' = Append(transcript, m),
         req' = [req EXCEPT ![r] = q]
  PROVE  BaselineInv'
<1>1. /\ Len(transcript) \in Nat /\ DOMAIN transcript = 1..Len(transcript)
      /\ transcript \in Seq(Message)
  BY MessagesOf DEF IInv, WellFormed
<1>2. /\ DOMAIN transcript' = 1..(Len(transcript) + 1)
      /\ \A i \in DOMAIN transcript : transcript'[i] = transcript[i]
      /\ transcript'[Len(transcript) + 1] = m
  BY <1>1, AppendProperties
<1>3. \A i \in DOMAIN transcript : i \in DOMAIN transcript'
  BY <1>1, <1>2
<1>4. ASSUME NEW i \in DOMAIN transcript' PROVE SharesBaseline(transcript'[i].swipes)
  <2>1. CASE i = Len(transcript) + 1
    BY <1>2, <2>1
  <2>2. CASE i # Len(transcript) + 1
    <3>1. i \in DOMAIN transcript
      BY <1>1, <1>2, <2>2
    <3>. QED BY <1>2, <3>1 DEF BaselineInv
  <2>. QED BY <2>1, <2>2
<1>5. ASSUME NEW s \in Requests PROVE Baselined(req[s])'
  <2>1. CASE s = r
    <3>1. req'[s] = q
      BY <2>1 DEF IInv, TypeOK
    <3>. QED BY <3>1 DEF Baselined
  <2>2. CASE s # r
    <3>1. req'[s] = req[s] /\ Baselined(req[s])
      BY <2>2 DEF IInv, TypeOK, BaselineInv
    <3>. QED BY <1>2, <1>3, <3>1 DEF Baselined
  <2>. QED BY <2>1, <2>2
<1>6. (\A i \in DOMAIN transcript : SharesBaseline(transcript[i].swipes))'
  BY <1>4
<1>. QED BY <1>5, <1>6 DEF BaselineInv

LEMMA BaselineRotate ==
  ASSUME IInv, BaselineInv, session'.gen = session.gen + 1,
         \A i \in DOMAIN transcript' : SharesBaseline(transcript'[i].swipes),
         \A s \in Requests : req'[s] = req[s] \/ req'[s] = Done(s)
  PROVE  BaselineInv'
<1>1. ASSUME NEW s \in Requests PROVE Baselined(req[s])'
  <2>1. CASE req'[s] = Done(s)
    BY <2>1, DoneType DEF Baselined
  <2>2. CASE req'[s] = req[s]
    <3>1. req[s].gen <= session.gen /\ req[s].gen \in Nat /\ session.gen \in Nat
      BY TurnFields DEF TurnOK
    <3>2. req'[s].gen # session'.gen
      BY <2>2, <3>1
    <3>3. Baselined(req[s])
      BY DEF BaselineInv
    <3>. QED BY <2>2, <3>2, <3>3 DEF Baselined
  <2>. QED BY <2>1, <2>2
<1>2. (\A i \in DOMAIN transcript : SharesBaseline(transcript[i].swipes))'
  OBVIOUS
<1>. QED BY <1>1, <1>2 DEF BaselineInv

\* The messages of the new transcript show the swipes of messages of the old.
LEMMA BaselineSelect ==
  ASSUME BaselineInv,
         \A i \in DOMAIN transcript' : \E j \in DOMAIN transcript :
            transcript'[i].swipes = transcript[j].swipes
  PROVE  \A i \in DOMAIN transcript' : SharesBaseline(transcript'[i].swipes)
BY DEF BaselineInv

LEMMA BaselineSetSwipes ==
  ASSUME BaselineInv, NEW id, NEW gen, NEW swipes, NEW active, SharesBaseline(swipes),
         IInv, transcript' = SetSwipes(transcript, id, gen, swipes, active)
  PROVE  \A i \in DOMAIN transcript' : SharesBaseline(transcript'[i].swipes)
<1>1. \A i \in DOMAIN transcript : transcript[i] \in Message
  BY MessagesOf DEF IInv
<1>2. DOMAIN transcript' = DOMAIN transcript
  BY DEF SetSwipes
<1>3. ASSUME NEW i \in DOMAIN transcript
      PROVE  transcript'[i].swipes = swipes \/ transcript'[i].swipes = transcript[i].swipes
  BY <1>1 DEF SetSwipes, Message
<1>. QED BY <1>2, <1>3 DEF BaselineInv

-----------------------------------------------------------------------------
(* Every step keeps the baselines: the requests' reads and the commits,    *)

LEMMA SendBaseline ==
  ASSUME IInv, BaselineInv, NEW r \in Requests, SendStep(r)
  PROVE  BaselineInv'
<1>1. ASSUME NEW q, q.kind = "send" PROVE Baselined(q)
  BY <1>1 DEF Baselined
<1>2. CASE SendLoad(r)
  <2>. DEFINE q == [req[r] EXCEPT !.kind = "send", !.pc = "loaded",
                                  !.base = session.state, !.gen = session.gen]
  <2>1. q.kind = "send"
    BY TurnFields DEF Turn
  <2>2. req' = [req EXCEPT ![r] = q] /\ UNCHANGED <<session, transcript>>
    BY <1>2 DEF SendLoad
  <2>. HIDE DEF q
  <2>. QED BY <1>1, <2>1, <2>2, BaselineLocal
<1>3. CASE SendInsertUserRow(r)
  <2>. DEFINE m == UserRow(r, session.gen)
              q == [req[r] EXCEPT !.pc = "rowed", !.target = <<r, "user">>]
  <2>1. m \in Message /\ SharesBaseline(m.swipes)
    BY TurnFields, EmptySeq DEF UserRow, Message, MessageIds, SharesBaseline
  <2>2. q \in Turn /\ q.pc = "rowed"
    <3>1. <<r, "user">> \in MessageIds /\ "rowed" \in Stages
      BY DEF Stages, MessageIds
    <3>2. req[r] \in Turn
      BY TurnFields
    <3>. HIDE DEF m
    <3>. QED BY <3>1, <3>2 DEF Turn
  <2>3. /\ req' = [req EXCEPT ![r] = q] /\ transcript' = Append(transcript, m)
        /\ session'.gen = session.gen
    BY <1>3 DEF SendInsertUserRow
  <2>. HIDE DEF q, m
  <2>. QED BY <2>1, <2>2, <2>3, BaselineAppend
<1>4. CASE SendReuseUserRow(r)
  <2>. DEFINE q == [req[r] EXCEPT !.pc = "rowed", !.target = Last(transcript).id]
  <2>1. q.kind = "send"
    BY <1>4, TurnFields DEF Turn, SendReuseUserRow
  <2>2. req' = [req EXCEPT ![r] = q] /\ UNCHANGED <<session, transcript>>
    BY <1>4 DEF SendReuseUserRow
  <2>. HIDE DEF q
  <2>. QED BY <1>1, <2>1, <2>2, BaselineLocal
<1>5. CASE SendReadHistory(r)
  <2>. DEFINE q == [req[r] EXCEPT !.pc = "streaming", !.start = req[r].base,
                                  !.basis = Words(transcript)]
  <2>1. q.kind = "send"
    BY <1>5, TurnFields DEF Turn, SendReadHistory
  <2>2. req' = [req EXCEPT ![r] = q] /\ UNCHANGED <<session, transcript>>
    BY <1>5 DEF SendReadHistory
  <2>. HIDE DEF q
  <2>. QED BY <1>1, <2>1, <2>2, BaselineLocal
<1>6. ASSUME NEW effects \in Effects, NEW added \in SUBSET Contexts,
             NEW firing \in SUBSET Rules, SendCommit(r, effects, added, firing)
      PROVE  BaselineInv'
  <2>. DEFINE out == [vars    |-> ApplyEffects(req[r].base.vars, effects),
                      pending |-> added,
                      fired   |-> req[r].base.fired \cup firing,
                      turn    |-> req[r].base.turn + 1]
              new   == ReconcileTurnState(session.state, req[r].base, out)
              swipe == [snap |-> new, base |-> req[r].start]
              m     == Reply(<<r, "assistant">>, session.gen, swipe)
  <2>1. /\ session' = [session EXCEPT !.state = new]
        /\ transcript' = Append(transcript, m)
        /\ req' = [req EXCEPT ![r] = Done(r)]
    BY <1>6 DEF SendCommit
  <2>2. new \in State
    <3>1. req[r].base \in State /\ req[r].base.turn + 1 \in Nat
      BY TurnFields DEF State
    <3>2. out \in State
      BY <3>1, OutcomeType
    <3>. HIDE DEF out
    <3>. QED BY <3>1, <3>2, TurnFields, ReconcileTurnStateType
  <2>. HIDE DEF new
  <2>3. swipe \in Swipe
    BY <2>2, TurnFields DEF Swipe
  <2>. HIDE DEF swipe
  <2>4. <<swipe>> \in Seq(Swipe) /\ m.swipes = <<swipe>>
    BY <2>3 DEF Reply
  <2>5. m \in Message
    BY <2>4, TurnFields DEF Reply, Message, MessageIds
  <2>6. SharesBaseline(m.swipes)
    BY <2>4 DEF SharesBaseline
  <2>. HIDE DEF m
  <2>7. session'.gen = session.gen
    BY <2>1, SessionFields DEF IInv, TypeOK
  <2>. QED BY <2>1, <2>5, <2>6, <2>7, DoneType, BaselineAppend
<1>. QED BY <1>2, <1>3, <1>4, <1>5, <1>6 DEF SendStep

\* A new alternative starts where the others did.
LEMMA AppendKeepsBaseline ==
  ASSUME NEW swipes \in Seq(Swipe), NEW swipe \in Swipe, SharesBaseline(swipes),
         HasBaseline(swipes, swipe.base.vars)
  PROVE  SharesBaseline(Append(swipes, swipe))
<1>. DEFINE all == Append(swipes, swipe)
<1>1. /\ DOMAIN swipes = 1..Len(swipes) /\ Len(swipes) \in Nat
      /\ DOMAIN all = 1..(Len(swipes) + 1)
      /\ \A i \in DOMAIN swipes : all[i] = swipes[i]
      /\ all[Len(swipes) + 1] = swipe
  BY AppendProperties, LenProperties
<1>. HIDE DEF all
<1>2. \A i \in DOMAIN all : all[i] = swipe \/ (i \in DOMAIN swipes /\ all[i] = swipes[i])
  <2>. SUFFICES ASSUME NEW i \in DOMAIN all, i # Len(swipes) + 1
                PROVE  i \in DOMAIN swipes
    BY <1>1
  <2>. QED BY <1>1
<1>3. ASSUME NEW a \in DOMAIN all, NEW b \in DOMAIN all, all[a].base # None, all[b].base # None
      PROVE  all[a].base.vars = all[b].base.vars
  BY <1>2, <1>3, Zenon DEF SharesBaseline, HasBaseline
<1>. QED BY <1>3 DEF SharesBaseline, all

\* So does the extended form of one of them.
LEMMA ExceptKeepsBaseline ==
  ASSUME NEW swipes \in Seq(Swipe), NEW swipe \in Swipe, NEW at \in DOMAIN swipes,
         SharesBaseline(swipes), HasBaseline(swipes, swipe.base.vars)
  PROVE  SharesBaseline([swipes EXCEPT ![at] = swipe])
<1>. DEFINE all == [swipes EXCEPT ![at] = swipe]
<1>1. DOMAIN all = DOMAIN swipes
  OBVIOUS
<1>2. \A i \in DOMAIN swipes : all[i] = swipe \/ all[i] = swipes[i]
  OBVIOUS
<1>. HIDE DEF all
<1>3. ASSUME NEW a \in DOMAIN all, NEW b \in DOMAIN all, all[a].base # None, all[b].base # None
      PROVE  all[a].base.vars = all[b].base.vars
  BY <1>1, <1>2, <1>3, Zenon DEF SharesBaseline, HasBaseline
<1>. QED BY <1>3 DEF SharesBaseline, all

LEMMA RegenerateBaseline ==
  ASSUME IInv, BaselineInv, NEW r \in Requests, RegenerateStep(r)
  PROVE  BaselineInv'
<1>0. Baselined(req[r]) /\ req[r] \in Turn /\ Targeted(req[r])
  BY TurnFields DEF BaselineInv, TurnOK
<1>1. CASE RegenerateReadMessage(r)
  <2>. DEFINE m == Last(transcript)
              q == [req[r] EXCEPT !.kind = "regenerate", !.pc = "targeted", !.target = m.id,
                                  !.swipes = m.swipes, !.active = m.active]
  <2>1. SharesBaseline(m.swipes)
    <3>1. Len(transcript) \in 1..Len(transcript) /\ DOMAIN transcript = 1..Len(transcript)
      BY <1>1, TurnFields, EmptySeq, LenProperties DEF RegenerateReadMessage
    <3>. QED BY <3>1 DEF Last, BaselineInv
  <2>2. req' = [req EXCEPT ![r] = q] /\ UNCHANGED <<session, transcript>>
    BY <1>1 DEF RegenerateReadMessage
  <2>. HIDE DEF m
  <2>3. q.kind = "regenerate" /\ q.pc = "targeted" /\ q.swipes = m.swipes
    BY <1>0 DEF Turn
  <2>. HIDE DEF q
  <2>4. Baselined(q)
    BY <2>1, <2>3 DEF Baselined
  <2>. QED BY <2>2, <2>4, BaselineLocal
<1>2. CASE RegenerateLoad(r)
  <2>. DEFINE from == RegenerationState(session.state, req[r].swipes, req[r].active)
              q == [req[r] EXCEPT !.pc = "loaded", !.base = session.state,
                                  !.gen = session.gen, !.start = from]
  <2>1. req[r].kind = "regenerate" /\ req[r].pc = "targeted"
    BY <1>2 DEF RegenerateLoad
  <2>2. SharesBaseline(req[r].swipes) /\ req[r].active \in 1..Len(req[r].swipes)
    BY <1>0, <2>1 DEF Baselined, Targeted
  <2>3. HasBaseline(req[r].swipes, from.vars)
    BY <2>2, TurnFields, RegenerationStateHasBaseline
  <2>4. req' = [req EXCEPT ![r] = q] /\ UNCHANGED <<session, transcript>>
    BY <1>2 DEF RegenerateLoad
  <2>. HIDE DEF from
  <2>5. q.kind = "regenerate" /\ q.pc = "loaded" /\ q.swipes = req[r].swipes /\ q.start = from
    BY <1>0, <2>1 DEF Turn
  <2>. HIDE DEF q
  <2>6. Baselined(q)
    BY <2>2, <2>3, <2>5 DEF Baselined
  <2>. QED BY <2>4, <2>6, BaselineLocal
<1>3. CASE RegenerateReadHistory(r)
  <2>. DEFINE before == {<<transcript[i].id, transcript[i].text>> : i \in {j \in DOMAIN transcript :
                           \A t \in DOMAIN transcript : transcript[t].id = req[r].target => j < t}}
              q == [req[r] EXCEPT !.pc = "streaming", !.basis = before]
  <2>1. req[r].kind = "regenerate" /\ req[r].pc = "loaded"
    BY <1>3 DEF RegenerateReadHistory
  <2>2. req' = [req EXCEPT ![r] = q] /\ UNCHANGED <<session, transcript>>
    BY <1>3 DEF RegenerateReadHistory
  <2>. HIDE DEF before
  <2>3. /\ q.kind = "regenerate" /\ q.pc = "streaming"
        /\ q.swipes = req[r].swipes /\ q.start = req[r].start
    BY <1>0, <2>1 DEF Turn
  <2>. HIDE DEF q
  <2>4. Baselined(q)
    BY <1>0, <2>1, <2>3 DEF Baselined
  <2>. QED BY <2>2, <2>4, BaselineLocal
<1>4. ASSUME NEW effects \in Effects, NEW added \in SUBSET Contexts,
             NEW firing \in SUBSET Rules, RegenerateCommit(r, effects, added, firing)
      PROVE  BaselineInv'
  <2>. DEFINE start == req[r].start
              out   == [vars    |-> ApplyEffects(start.vars, effects),
                        pending |-> added,
                        fired   |-> start.fired \cup firing,
                        turn    |-> start.turn]
              new   == ReconcileRegenerationState(session.state, req[r].base, out)
              swipe == [snap |-> new, base |-> start]
              all   == Append(req[r].swipes, swipe)
  <2>1. start \in State /\ start.turn \in Nat
    BY TurnFields DEF State
  <2>2. new \in State
    <3>1. out \in State
      BY <2>1, OutcomeType
    <3>. HIDE DEF out
    <3>. QED BY <3>1, TurnFields, ReconcileRegenerationStateType
  <2>3. /\ session' = [state |-> new, gen |-> session.gen + 1]
        /\ transcript' = SetSwipes(transcript, req[r].target, session.gen + 1, all, Len(all))
        /\ req' = [req EXCEPT ![r] = Done(r)]
        /\ req[r].kind = "regenerate" /\ req[r].pc = "streaming"
    BY <1>4 DEF RegenerateCommit
  <2>. HIDE DEF new
  <2>4. swipe \in Swipe /\ swipe.base = start
    BY <2>1, <2>2 DEF Swipe
  <2>. HIDE DEF swipe
  <2>5. SharesBaseline(req[r].swipes) /\ HasBaseline(req[r].swipes, start.vars)
    BY <1>0, <2>3 DEF Baselined
  <2>6. SharesBaseline(all)
    BY <2>4, <2>5, TurnFields, AppendKeepsBaseline
  <2>. HIDE DEF all, start
  <2>7. \A i \in DOMAIN transcript' : SharesBaseline(transcript'[i].swipes)
    BY <2>3, <2>6, BaselineSetSwipes
  <2>8. \A s \in Requests : req'[s] = req[s] \/ req'[s] = Done(s)
    BY <2>3 DEF IInv, TypeOK
  <2>9. session'.gen = session.gen + 1
    BY <2>3
  <2>. QED BY <2>7, <2>8, <2>9, BaselineRotate
<1>. QED BY <1>1, <1>2, <1>3, <1>4 DEF RegenerateStep

\* The message a continuation extends is the one it read, with the swipes it
\* read, while the generation is the one it read.
LEMMA ContinuationTarget ==
  ASSUME IInv, BaselineInv, NEW r \in Requests,
         req[r].kind = "continue", req[r].pc = "streaming", SameTimeline(r)
  PROVE  LET at  == CHOOSE i \in DOMAIN transcript : transcript[i].id = req[r].target
             old == transcript[at]
         IN /\ at \in DOMAIN transcript /\ old \in Message
            /\ old.id = req[r].target /\ old.id[2] = "assistant" /\ old.role = "assistant"
            /\ old.swipes = req[r].swipes
            /\ old.active \in 1..Len(old.swipes) /\ DOMAIN old.swipes = 1..Len(old.swipes)
<1>. DEFINE at == CHOOSE i \in DOMAIN transcript : transcript[i].id = req[r].target
<1>1. PICK i \in DOMAIN transcript : /\ transcript[i].id = req[r].target
                                     /\ transcript[i].swipes = req[r].swipes
  BY DEF BaselineInv, Baselined, SameTimeline
<1>2. at = i
  BY <1>1 DEF IInv, WellFormed
<1>. HIDE DEF at
<1>3. transcript[i].id[2] = "assistant"
  BY <1>1, TurnFields DEF TurnOK, Targeted
<1>4. transcript[i] \in Message /\ transcript[i].role = "assistant"
      /\ transcript[i].active \in 1..Len(transcript[i].swipes)
  BY <1>3, MessagesOf DEF IInv, WellFormed
<1>5. DOMAIN transcript[i].swipes = 1..Len(transcript[i].swipes)
  BY <1>4, LenProperties DEF Message
<1>. QED BY <1>1, <1>2, <1>3, <1>4, <1>5 DEF at

LEMMA ContinueBaseline ==
  ASSUME IInv, BaselineInv, NEW r \in Requests, ContinueStep(r)
  PROVE  BaselineInv'
<1>0. req[r] \in Turn
  BY TurnFields
<1>1. CASE ContinueLoad(r)
  <2>. DEFINE q == [req[r] EXCEPT !.kind = "continue", !.pc = "loaded",
                                  !.base = session.state, !.gen = session.gen]
  <2>1. q.kind = "continue" /\ q.pc = "loaded"
    BY <1>0 DEF Turn
  <2>2. req' = [req EXCEPT ![r] = q] /\ UNCHANGED <<session, transcript>>
    BY <1>1 DEF ContinueLoad
  <2>. HIDE DEF q
  <2>3. Baselined(q)
    BY <2>1 DEF Baselined
  <2>. QED BY <2>2, <2>3, BaselineLocal
<1>2. CASE ContinueReadHistory(r)
  <2>. DEFINE at == LastReply(transcript)
              m  == transcript[at]
              q  == [req[r] EXCEPT !.pc = "streaming", !.target = m.id, !.swipes = m.swipes,
                                   !.basis = Words(transcript)]
  <2>1. at \in DOMAIN transcript
    BY <1>2, LastReplyType DEF IInv, ContinueReadHistory, Replies
  <2>2. /\ req' = [req EXCEPT ![r] = q] /\ UNCHANGED <<session, transcript>>
        /\ req[r].kind = "continue"
    BY <1>2 DEF ContinueReadHistory
  <2>. HIDE DEF at
  <2>3. q.kind = "continue" /\ q.target = m.id /\ q.swipes = m.swipes
    BY <1>0, <2>2 DEF Turn
  <2>. HIDE DEF q
  <2>4. Baselined(q)
    BY <2>1, <2>3 DEF Baselined
  <2>. QED BY <2>2, <2>4, BaselineLocal
<1>3. ASSUME NEW effects \in Effects, NEW added \in SUBSET Contexts,
             NEW firing \in SUBSET Rules, ContinueCommit(r, effects, added, firing)
      PROVE  BaselineInv'
  <2>. DEFINE base == req[r].base
              out  == [vars    |-> ApplyEffects(base.vars, effects),
                       pending |-> base.pending \cup added,
                       fired   |-> base.fired \cup firing,
                       turn    |-> base.turn]
              new  == ReconcileTurnState(session.state, base, out)
              at   == CHOOSE i \in DOMAIN transcript : transcript[i].id = req[r].target
              old  == transcript[at]
              from == RegenerationState(base, req[r].swipes, old.active)
              swipe == [snap |-> new, base |-> from]
              all  == [old.swipes EXCEPT ![old.active] = swipe]
  <2>1. base \in State /\ out \in State
    <3>1. base.pending \cup added \in SUBSET Contexts /\ base.turn \in Nat
      BY TurnFields DEF State
    <3>. QED BY <3>1, TurnFields, OutcomeType
  <2>2. new \in State
    BY <2>1, TurnFields, ReconcileTurnStateType
  <2>3. /\ session' = [state |-> new, gen |-> session.gen + 1]
        /\ transcript' = SetSwipes(transcript, old.id, session.gen + 1, all, old.active)
        /\ req' = [req EXCEPT ![r] = Done(r)]
        /\ req[r].kind = "continue" /\ req[r].pc = "streaming" /\ SameTimeline(r)
    BY <1>3 DEF ContinueCommit
  <2>. HIDE DEF out, new
  <2>4. /\ at \in DOMAIN transcript /\ old \in Message /\ old.swipes = req[r].swipes
        /\ old.active \in 1..Len(old.swipes) /\ DOMAIN old.swipes = 1..Len(old.swipes)
    BY <2>3, ContinuationTarget
  <2>5. SharesBaseline(old.swipes)
    BY <2>4 DEF BaselineInv
  <2>. HIDE DEF at, base
  <2>6. from \in State /\ HasBaseline(old.swipes, from.vars)
    BY <2>1, <2>4, <2>5, TurnFields, RegenerationStateType, RegenerationStateHasBaseline
  <2>. HIDE DEF from, old
  <2>7. swipe \in Swipe /\ swipe.base = from
    BY <2>2, <2>6 DEF Swipe
  <2>. HIDE DEF swipe
  <2>8. SharesBaseline(all)
    BY <2>4, <2>5, <2>6, <2>7, TurnFields, ExceptKeepsBaseline
  <2>. HIDE DEF all
  <2>9. \A i \in DOMAIN transcript' : SharesBaseline(transcript'[i].swipes)
    BY <2>3, <2>8, BaselineSetSwipes
  <2>10. \A s \in Requests : req'[s] = req[s] \/ req'[s] = Done(s)
    BY <2>3 DEF IInv, TypeOK
  <2>11. session'.gen = session.gen + 1
    BY <2>3
  <2>. QED BY <2>9, <2>10, <2>11, BaselineRotate
<1>. QED BY <1>1, <1>2, <1>3 DEF ContinueStep

LEMMA GiveUpBaseline ==
  ASSUME IInv, BaselineInv, NEW r \in Requests, GiveUp(r)
  PROVE  BaselineInv'
<1>1. Baselined(Done(r))
  BY DoneType DEF Baselined
<1>. QED BY <1>1, BaselineLocal DEF GiveUp

-----------------------------------------------------------------------------
(* ... what the interface writes, and what replaces the timeline.          *)

LEMMA InterfaceBaseline ==
  ASSUME IInv, BaselineInv, InterfaceStep
  PROVE  BaselineInv'
<1>1. session'.gen = session.gen /\ UNCHANGED <<transcript, req>>
  BY SessionFields
     DEF InterfaceStep, PatchState, ExecuteAction, InjectContext, IInv, TypeOK
<1>2. ASSUME NEW r \in Requests PROVE Baselined(req[r])'
  BY <1>1 DEF BaselineInv, Baselined
<1>. QED BY <1>1, <1>2 DEF BaselineInv

\* Messages of a shortened transcript are messages of the whole.
LEMMA PrefixMessages ==
  ASSUME NEW log, WellFormed(log), NEW n \in 0..Len(log)
  PROVE  /\ Len(SubSeq(log, 1, n)) = n /\ DOMAIN SubSeq(log, 1, n) = 1..n
         /\ \A i \in 1..n : i \in DOMAIN log /\ SubSeq(log, 1, n)[i] = log[i]
<1>1. /\ Len(log) \in Nat /\ DOMAIN log = 1..Len(log)
      /\ \A i \in DOMAIN log : log[i] \in Message
  BY MessagesOf
<1>2. /\ SubSeq(log, 1, n) \in Seq(Message)
      /\ Len(SubSeq(log, 1, n)) = n
      /\ \A i \in 1..n : SubSeq(log, 1, n)[i] = log[i]
  BY <1>1, SubSeqProperties
<1>3. DOMAIN SubSeq(log, 1, n) = 1..n
  BY <1>2, LenProperties
<1>. QED BY <1>1, <1>2, <1>3

LEMMA RemoveMessages ==
  ASSUME NEW log, WellFormed(log), NEW at \in DOMAIN log
  PROVE  \A i \in DOMAIN Remove(log, at) : \E j \in DOMAIN log : Remove(log, at)[i] = log[j]
<1>. DEFINE a == SubSeq(log, 1, at - 1)
            b == SubSeq(log, at + 1, Len(log))
<1>1. /\ Len(log) \in Nat /\ DOMAIN log = 1..Len(log)
      /\ \A i \in DOMAIN log : log[i] \in Message
  BY MessagesOf
<1>2. /\ a \in Seq(Message) /\ Len(a) = at - 1
      /\ \A i \in 1..(at - 1) : a[i] = log[i]
  BY <1>1, SubSeqProperties
<1>3. /\ b \in Seq(Message) /\ Len(b) = Len(log) - at
      /\ \A i \in 1..(Len(log) - at) : b[i] = log[at + i]
  <2>1. \A i \in (at + 1)..Len(log) : log[i] \in Message
    BY <1>1
  <2>. QED BY <1>1, <2>1, SubSeqProperties
<1>4. Remove(log, at) = a \o b
  BY DEF Remove
<1>. HIDE DEF a, b
<1>5. /\ a \o b \in Seq(Message) /\ Len(a \o b) = Len(a) + Len(b)
      /\ \A i \in 1..(Len(a) + Len(b)) : (a \o b)[i] = IF i <= Len(a) THEN a[i] ELSE b[i - Len(a)]
  BY <1>2, <1>3, ConcatProperties
<1>6. DOMAIN (a \o b) = 1..(Len(log) - 1)
  <2>1. DOMAIN (a \o b) = 1..Len(a \o b)
    BY <1>5, LenProperties
  <2>2. Len(a \o b) = Len(log) - 1
    BY <1>1, <1>2, <1>3, <1>5
  <2>. QED BY <2>1, <2>2
<1>. SUFFICES ASSUME NEW i \in 1..(Len(log) - 1)
              PROVE  \E j \in DOMAIN log : (a \o b)[i] = log[j]
  BY <1>4, <1>6
<1>7. CASE i <= at - 1
  <2>1. i \in 1..(at - 1) /\ i \in DOMAIN log /\ i \in 1..(Len(a) + Len(b))
    BY <1>1, <1>2, <1>3, <1>7
  <2>2. (a \o b)[i] = log[i]
    BY <1>2, <1>5, <1>7, <2>1
  <2>. QED BY <2>1, <2>2
<1>8. CASE ~(i <= at - 1)
  <2>1. /\ i - (at - 1) \in 1..(Len(log) - at) /\ i + 1 \in DOMAIN log
        /\ at + (i - (at - 1)) = i + 1 /\ i \in 1..(Len(a) + Len(b))
    <3>1. at \in 1..Len(log) /\ Len(log) \in Nat /\ Len(a) + Len(b) = Len(log) - 1
      BY <1>1, <1>2, <1>3
    <3>. HIDE DEF a, b
    <3>2. i \in Nat /\ at <= i /\ i <= Len(log) - 1
      BY <1>8, <3>1
    <3>. QED BY <1>1, <3>1, <3>2
  <2>2. (a \o b)[i] = b[i - (at - 1)]
    BY <1>2, <1>5, <1>8, <2>1
  <2>3. b[i - (at - 1)] = log[i + 1]
    BY <1>3, <2>1
  <2>. QED BY <2>1, <2>2, <2>3
<1>. QED BY <1>7, <1>8

\* A revert is to some number of messages.
LEMMA RevertsAreRevert ==
  ASSUME IInv, RevertToMessage \/ RevertLastExchange
  PROVE  \E n \in Nat : Revert(n)
<1>1. CASE RevertToMessage
  BY <1>1 DEF RevertToMessage
<1>2. CASE RevertLastExchange
  <2>1. LastReply(transcript) \in 1..Len(transcript)
    BY <1>2, LastReplyType, MessagesOf DEF RevertLastExchange, IInv, Replies
  <2>. QED BY <1>2, <2>1 DEF RevertLastExchange
<1>. QED BY <1>1, <1>2

\* Every step that replaces the timeline retires the generation.
LEMMA TimelineRotates ==
  ASSUME TimelineStep
  PROVE  session'.gen = session.gen + 1 /\ req' = req
<1>1. ASSUME NEW state, Rotate(state)
      PROVE  session'.gen = session.gen + 1 /\ req' = req
  BY <1>1 DEF Rotate
<1>2. CASE \E i \in DOMAIN transcript : EditMessage(i) \/ DeleteMessage(i)
  BY <1>1, <1>2 DEF EditMessage, DeleteMessage
<1>3. CASE RevertToMessage
  BY <1>1, <1>3 DEF RevertToMessage, Revert
<1>4. CASE RevertLastExchange
  BY <1>1, <1>4 DEF RevertLastExchange, Revert
<1>5. CASE Restart
  BY <1>1, <1>5 DEF Restart
<1>. QED BY <1>2, <1>3, <1>4, <1>5 DEF TimelineStep

LEMMA TimelineBaseline ==
  ASSUME IInv, BaselineInv, TimelineStep
  PROVE  BaselineInv'
<1>1. /\ session'.gen = session.gen + 1
      /\ \A s \in Requests : req'[s] = req[s] \/ req'[s] = Done(s)
  BY TimelineRotates
<1>2. WellFormed(transcript) /\ \A i \in DOMAIN transcript : transcript[i] \in Message
  BY MessagesOf DEF IInv
<1>3. ASSUME NEW i \in DOMAIN transcript, EditMessage(i) PROVE BaselineInv'
  <2>1. /\ DOMAIN transcript' = DOMAIN transcript
        /\ \A j \in DOMAIN transcript : transcript'[j].swipes = transcript[j].swipes
    BY <1>2, <1>3 DEF EditMessage, Message
  <2>. QED BY <1>1, <2>1, BaselineSelect, BaselineRotate
<1>4. ASSUME NEW i \in DOMAIN transcript, DeleteMessage(i) PROVE BaselineInv'
  <2>1. \A j \in DOMAIN transcript' : \E k \in DOMAIN transcript : transcript'[j] = transcript[k]
    BY <1>2, <1>4, RemoveMessages DEF DeleteMessage
  <2>. QED BY <1>1, <2>1, BaselineSelect, BaselineRotate
<1>5. ASSUME NEW n \in Nat, Revert(n) PROVE BaselineInv'
  <2>1. n \in 0..Len(transcript) /\ transcript' = SubSeq(transcript, 1, n)
    BY <1>5, SessionFields, LenProperties DEF Revert
  <2>2. \A j \in DOMAIN transcript' : \E k \in DOMAIN transcript : transcript'[j] = transcript[k]
    BY <1>2, <2>1, PrefixMessages
  <2>. QED BY <1>1, <2>2, BaselineSelect, BaselineRotate
<1>6. CASE Restart
  <2>1. \A j \in DOMAIN transcript' : SharesBaseline(transcript'[j].swipes)
    <3>1. PICK id, gen : transcript' = <<Greeting(id, gen)>>
      BY <1>6 DEF Restart
    <3>2. SharesBaseline(Greeting(id, gen).swipes)
      BY DEF Greeting, Reply, SharesBaseline
    <3>. QED BY <3>1, <3>2
  <2>. QED BY <1>1, <2>1, BaselineRotate
<1>. QED BY <1>3, <1>4, <1>5, <1>6, RevertsAreRevert DEF TimelineStep

-----------------------------------------------------------------------------
\* What the steps above keep holds initially, and so always.
LEMMA BaselineInvariant == Spec => []BaselineInv
<1>1. Init => BaselineInv
  <2>. SUFFICES ASSUME Init PROVE BaselineInv
    OBVIOUS
  <2>1. \A r \in Requests : req[r] = Idle
    BY DEF Init
  <2>2. \A r \in Requests : Baselined(req[r])
    BY <2>1 DEF Idle, Baselined
  <2>3. \A i \in DOMAIN transcript : SharesBaseline(transcript[i].swipes)
    BY DEF Init, Greeting, Reply, SharesBaseline
  <2>. QED BY <2>2, <2>3 DEF BaselineInv
<1>2. IInv /\ BaselineInv /\ [Next]_vars => BaselineInv'
  <2>. SUFFICES ASSUME IInv, BaselineInv, [Next]_vars PROVE BaselineInv'
    OBVIOUS
  <2>1. CASE UNCHANGED vars
    BY <2>1 DEF vars, BaselineInv, Baselined
  <2>. QED BY <2>1, SendBaseline, RegenerateBaseline, ContinueBaseline, GiveUpBaseline,
              InterfaceBaseline, TimelineBaseline DEF Next
<1>. QED BY Invariant, <1>1, <1>2, PTL DEF Spec

\* All alternatives of a reply describe outcomes of the same starting
\* variables, however many turns raced for it.  A regeneration read its target
\* without a lock and long ago: it is safe because its baseline comes from the
\* very list of swipes it appends to and writes back whole.  A continuation
\* replaces one swipe of the list it finds at the commit: it is safe because
\* the generation check makes that list the one its baseline comes from.
THEOREM BaselinesShared == Spec => []AlternativesShareBaseline
<1>1. BaselineInv => AlternativesShareBaseline
  BY DEF BaselineInv, AlternativesShareBaseline, SharesBaseline
<1>. QED BY BaselineInvariant, <1>1, PTL

-----------------------------------------------------------------------------
(* The session and the snapshot of its last reply.                         *)

\* The state is the snapshot, but for the moved keys and what was added since.
Tracks(state, snap, moved) ==
  /\ state.turn = snap.turn
  /\ snap.pending \subseteq state.pending
  /\ snap.fired \subseteq state.fired
  /\ \A k \in Keys \ moved : state.vars[k] = snap.vars[k]

\* StateTracksTranscript, and that there is a last reply to track.
ReplyTracked ==
  aligned => /\ Replies(transcript) # {}
             /\ Tracks(session.state, Snapshot(transcript[LastReply(transcript)]), dirty)

LEMMA LastReplyIs ==
  ASSUME NEW log, WellFormed(log), NEW i \in Replies(log), \A j \in Replies(log) : j <= i
  PROVE  LastReply(log) = i
<1>1. Replies(log) \subseteq Nat
  BY MessagesOf DEF Replies
<1>. DEFINE last == CHOOSE x \in Replies(log) : \A j \in Replies(log) : j <= x
<1>2. last \in Replies(log) /\ \A j \in Replies(log) : j <= last
  OBVIOUS
<1>3. LastReply(log) = last
  BY DEF LastReply
<1>. HIDE DEF last
<1>4. last <= i /\ i <= last /\ last \in Nat /\ i \in Nat
  BY <1>1, <1>2
<1>. QED BY <1>3, <1>4

\* A log with the same replies at the same places has the same last one.
LEMMA LastReplyKept ==
  ASSUME NEW log, NEW new, DOMAIN new = DOMAIN log,
         \A i \in DOMAIN log : new[i].role = log[i].role
  PROVE  Replies(new) = Replies(log) /\ LastReply(new) = LastReply(log)
<1>1. Replies(new) = Replies(log)
  BY DEF Replies
<1>. QED BY <1>1 DEF LastReply

LEMMA AppendReplies ==
  ASSUME NEW log, WellFormed(log), NEW m \in Message
  PROVE  /\ m.role = "user" =>
              /\ Replies(Append(log, m)) = Replies(log)
              /\ LastReply(Append(log, m)) = LastReply(log)
              /\ \A i \in Replies(log) : Append(log, m)[i] = log[i]
         /\ m.role = "assistant" /\ WellFormed(Append(log, m)) =>
              /\ Replies(Append(log, m)) # {}
              /\ Append(log, m)[LastReply(Append(log, m))] = m
<1>. DEFINE new == Append(log, m)
<1>1. /\ Len(log) \in Nat /\ DOMAIN log = 1..Len(log) /\ log \in Seq(Message)
  BY MessagesOf DEF WellFormed
<1>2. /\ DOMAIN new = 1..(Len(log) + 1)
      /\ \A i \in 1..Len(log) : new[i] = log[i]
      /\ new[Len(log) + 1] = m
  BY <1>1, AppendProperties
<1>. HIDE DEF new
<1>3. ASSUME m.role = "user"
      PROVE  /\ Replies(new) = Replies(log) /\ LastReply(new) = LastReply(log)
             /\ \A i \in Replies(log) : new[i] = log[i]
  <2>1. \A i \in DOMAIN new : i \in 1..Len(log) \/ i = Len(log) + 1
    BY <1>1, <1>2
  <2>2. \A i \in 1..Len(log) : i \in DOMAIN new
    BY <1>1, <1>2
  <2>3. Replies(new) = Replies(log)
    BY <1>1, <1>2, <1>3, <2>1, <2>2 DEF Replies
  <2>. QED BY <1>1, <1>2, <2>3 DEF LastReply, Replies
<1>4. ASSUME m.role = "assistant", WellFormed(new)
      PROVE  Replies(new) # {} /\ new[LastReply(new)] = m
  <2>1. Len(log) + 1 \in Replies(new)
    BY <1>1, <1>2, <1>4 DEF Replies
  <2>2. \A j \in Replies(new) : j <= Len(log) + 1
    BY <1>1, <1>2 DEF Replies
  <2>3. LastReply(new) = Len(log) + 1
    BY <1>4, <2>1, <2>2, LastReplyIs
  <2>. QED BY <1>2, <2>1, <2>3
<1>. QED BY <1>3, <1>4 DEF new

LEMMA SetSwipesReplies ==
  ASSUME NEW log, WellFormed(log), NEW id, NEW gen, NEW swipes, NEW active
  PROVE  LET new == SetSwipes(log, id, gen, swipes, active)
         IN /\ Replies(new) = Replies(log) /\ LastReply(new) = LastReply(log)
            /\ \A i \in DOMAIN log : log[i].id = id => Snapshot(new[i]) = swipes[active].snap
<1>. DEFINE new == SetSwipes(log, id, gen, swipes, active)
<1>1. \A i \in DOMAIN log : log[i] \in Message
  BY MessagesOf
<1>2. DOMAIN new = DOMAIN log
  BY DEF SetSwipes
<1>3. \A i \in DOMAIN log :
        /\ new[i].role = log[i].role
        /\ log[i].id = id => new[i].swipes = swipes /\ new[i].active = active
  BY <1>1 DEF SetSwipes, Message
<1>. HIDE DEF new
<1>4. Replies(new) = Replies(log) /\ LastReply(new) = LastReply(log)
  BY <1>2, <1>3, LastReplyKept
<1>. QED BY <1>3, <1>4 DEF Snapshot, new

-----------------------------------------------------------------------------
(* The commits, each of which leaves the state it stored as a snapshot,    *)

LEMMA TracksItself ==
  ASSUME NEW state \in State
  PROVE  Tracks(state, state, {})
BY DEF Tracks, State

LEMMA SendTracks ==
  ASSUME IInv, ReplyTracked, NEW r \in Requests, SendStep(r)
  PROVE  ReplyTracked'
<1>1. IInv'
  BY SendLoadStep, SendInsertUserRowStep, SendReuseUserRowStep, SendReadHistoryStep,
     SendCommitStep DEF SendStep
<1>2. CASE UNCHANGED <<session, transcript, ghosts>>
  BY <1>2 DEF ReplyTracked, ghosts
<1>3. CASE SendInsertUserRow(r)
  <2>. DEFINE m == UserRow(r, session.gen)
  <2>1. m \in Message /\ m.role = "user"
    BY TurnFields, EmptySeq DEF UserRow, Message, MessageIds
  <2>2. transcript' = Append(transcript, m) /\ UNCHANGED <<session, ghosts>>
    BY <1>3 DEF SendInsertUserRow
  <2>. HIDE DEF m
  <2>3. WellFormed(transcript)
    BY DEF IInv
  <2>4. /\ Replies(transcript') = Replies(transcript)
        /\ LastReply(transcript') = LastReply(transcript)
        /\ \A i \in Replies(transcript) : transcript'[i] = transcript[i]
    BY <2>1, <2>2, <2>3, AppendReplies
  <2>. QED BY <2>2, <2>3, <2>4, LastReplyType DEF ReplyTracked, ghosts
<1>4. ASSUME NEW effects \in Effects, NEW added \in SUBSET Contexts,
             NEW firing \in SUBSET Rules, SendCommit(r, effects, added, firing)
      PROVE  ReplyTracked'
  <2>. DEFINE out == [vars    |-> ApplyEffects(req[r].base.vars, effects),
                      pending |-> added,
                      fired   |-> req[r].base.fired \cup firing,
                      turn    |-> req[r].base.turn + 1]
              new   == ReconcileTurnState(session.state, req[r].base, out)
              swipe == [snap |-> new, base |-> req[r].start]
              m     == Reply(<<r, "assistant">>, session.gen, swipe)
  <2>1. /\ session' = [session EXCEPT !.state = new] /\ dirty' = {}
        /\ transcript' = Append(transcript, m)
    BY <1>4 DEF SendCommit
  <2>. HIDE DEF new
  <2>2. session'.state = new
    BY <2>1, SessionFields DEF IInv, TypeOK
  <2>3. new \in State
    BY <1>1, <2>2 DEF IInv, TypeOK
  <2>4. swipe \in Swipe /\ swipe.snap = new
    BY <2>3, TurnFields DEF Swipe
  <2>. HIDE DEF swipe
  <2>5. <<swipe>> \in Seq(Swipe) /\ m.swipes = <<swipe>> /\ m.active = 1 /\ m.role = "assistant"
    BY <2>4 DEF Reply
  <2>6. m \in Message
    BY <2>4, <2>5, TurnFields DEF Reply, Message, MessageIds
  <2>7. Snapshot(m) = new
    BY <2>4, <2>5 DEF Snapshot
  <2>. HIDE DEF m
  <2>8. WellFormed(transcript) /\ WellFormed(transcript')
    BY <1>1 DEF IInv
  <2>9. Replies(transcript') # {} /\ transcript'[LastReply(transcript')] = m
    BY <2>1, <2>5, <2>6, <2>8, AppendReplies
  <2>. QED BY <2>1, <2>2, <2>3, <2>7, <2>9, TracksItself DEF ReplyTracked
<1>. QED BY <1>2, <1>3, <1>4 DEF SendStep, SendLoad, SendReuseUserRow, SendReadHistory

LEMMA RegenerateTracks ==
  ASSUME IInv, ReplyTracked, NEW r \in Requests, RegenerateStep(r)
  PROVE  ReplyTracked'
<1>1. IInv'
  BY RegenerateReadMessageStep, RegenerateLoadStep, RegenerateReadHistoryStep,
     RegenerateCommitStep DEF RegenerateStep
<1>2. CASE UNCHANGED <<session, transcript, ghosts>>
  BY <1>2 DEF ReplyTracked, ghosts
<1>3. ASSUME NEW effects \in Effects, NEW added \in SUBSET Contexts,
             NEW firing \in SUBSET Rules, RegenerateCommit(r, effects, added, firing)
      PROVE  ReplyTracked'
  <2>. DEFINE start == req[r].start
              out   == [vars    |-> ApplyEffects(start.vars, effects),
                        pending |-> added,
                        fired   |-> start.fired \cup firing,
                        turn    |-> start.turn]
              new   == ReconcileRegenerationState(session.state, req[r].base, out)
              swipe == [snap |-> new, base |-> start]
              all   == Append(req[r].swipes, swipe)
  <2>1. /\ session' = [state |-> new, gen |-> session.gen + 1] /\ dirty' = {}
        /\ transcript' = SetSwipes(transcript, req[r].target, session.gen + 1, all, Len(all))
        /\ aligned' = IsLastReply(req[r].target)
    BY <1>3 DEF RegenerateCommit
  <2>. HIDE DEF new
  <2>2. session'.state = new /\ new \in State
    BY <1>1, <2>1 DEF IInv, TypeOK
  <2>3. swipe \in Swipe /\ swipe.snap = new
    BY <2>2, TurnFields DEF Swipe
  <2>. HIDE DEF swipe
  <2>4. all[Len(all)] = swipe
    BY <2>3, TurnFields, AppendProperties, LenProperties
  <2>. HIDE DEF all
  <2>5. WellFormed(transcript)
    BY DEF IInv
  <2>6. /\ Replies(transcript') = Replies(transcript)
        /\ LastReply(transcript') = LastReply(transcript)
        /\ \A i \in DOMAIN transcript : transcript[i].id = req[r].target =>
              Snapshot(transcript'[i]) = new
    BY <2>1, <2>3, <2>4, <2>5, SetSwipesReplies
  <2>7. ASSUME aligned'
        PROVE  /\ Replies(transcript') # {}
               /\ Snapshot(transcript'[LastReply(transcript')]) = new
    BY <2>1, <2>5, <2>6, <2>7, LastReplyType DEF IsLastReply, Replies
  <2>. QED BY <2>1, <2>2, <2>7, TracksItself DEF ReplyTracked
<1>. QED BY <1>2, <1>3
         DEF RegenerateStep, RegenerateReadMessage, RegenerateLoad, RegenerateReadHistory

LEMMA ContinueTracks ==
  ASSUME IInv, BaselineInv, ReplyTracked, NEW r \in Requests, ContinueStep(r)
  PROVE  ReplyTracked'
<1>1. IInv'
  BY ContinueLoadStep, ContinueReadHistoryStep, ContinueCommitStep DEF ContinueStep
<1>2. CASE UNCHANGED <<session, transcript, ghosts>>
  BY <1>2 DEF ReplyTracked, ghosts
<1>3. ASSUME NEW effects \in Effects, NEW added \in SUBSET Contexts,
             NEW firing \in SUBSET Rules, ContinueCommit(r, effects, added, firing)
      PROVE  ReplyTracked'
  <2>. DEFINE base == req[r].base
              out  == [vars    |-> ApplyEffects(base.vars, effects),
                       pending |-> base.pending \cup added,
                       fired   |-> base.fired \cup firing,
                       turn    |-> base.turn]
              new  == ReconcileTurnState(session.state, base, out)
              at   == CHOOSE i \in DOMAIN transcript : transcript[i].id = req[r].target
              old  == transcript[at]
              from == RegenerationState(base, req[r].swipes, old.active)
              swipe == [snap |-> new, base |-> from]
              all  == [old.swipes EXCEPT ![old.active] = swipe]
  <2>1. /\ session' = [state |-> new, gen |-> session.gen + 1] /\ dirty' = {}
        /\ transcript' = SetSwipes(transcript, old.id, session.gen + 1, all, old.active)
        /\ aligned' = IsLastReply(old.id)
        /\ req[r].kind = "continue" /\ req[r].pc = "streaming" /\ SameTimeline(r)
    BY <1>3 DEF ContinueCommit
  <2>. HIDE DEF new
  <2>2. session'.state = new /\ new \in State
    BY <1>1, <2>1 DEF IInv, TypeOK
  <2>3. /\ at \in DOMAIN transcript
        /\ old.active \in 1..Len(old.swipes) /\ DOMAIN old.swipes = 1..Len(old.swipes)
    BY <2>1, ContinuationTarget
  <2>. HIDE DEF at, from
  <2>4. all[old.active].snap = new
    BY <2>3
  <2>. HIDE DEF all
  <2>5. WellFormed(transcript)
    BY DEF IInv
  <2>. HIDE DEF old
  <2>6. /\ Replies(transcript') = Replies(transcript)
        /\ LastReply(transcript') = LastReply(transcript)
        /\ \A i \in DOMAIN transcript : transcript[i].id = old.id =>
              Snapshot(transcript'[i]) = new
    BY <2>1, <2>4, <2>5, SetSwipesReplies
  <2>7. ASSUME aligned'
        PROVE  /\ Replies(transcript') # {}
               /\ Snapshot(transcript'[LastReply(transcript')]) = new
    BY <2>1, <2>5, <2>6, <2>7, LastReplyType DEF IsLastReply, Replies
  <2>. QED BY <2>1, <2>2, <2>7, TracksItself DEF ReplyTracked
<1>. QED BY <1>2, <1>3 DEF ContinueStep, ContinueLoad, ContinueReadHistory

-----------------------------------------------------------------------------
(* ... the interface, which only moves what it marks or adds,              *)

LEMMA TracksPatched ==
  ASSUME NEW state \in State, NEW new \in State, NEW snap, NEW moved, NEW k \in Keys,
         Tracks(state, snap, moved), new.turn = state.turn,
         state.pending \subseteq new.pending, state.fired \subseteq new.fired,
         \A j \in Keys : j # k => new.vars[j] = state.vars[j]
  PROVE  Tracks(new, snap, moved \cup {k})
BY DEF Tracks

\* A patch moves one variable and nothing else.
LEMMA PatchMovesOne ==
  ASSUME NEW live \in State, NEW k \in Keys, NEW v \in Vals
  PROVE  LET new == MergeGameStatePatch(live, [i \in Keys |-> IF i = k THEN v ELSE None])
         IN /\ new \in State
            /\ new.turn = live.turn /\ new.pending = live.pending /\ new.fired = live.fired
            /\ \A j \in Keys : j # k => new.vars[j] = live.vars[j]
<1>1. \A j \in Keys : j # k =>
        MergeGameStatePatch(live, [i \in Keys |-> IF i = k THEN v ELSE None]).vars[j] = live.vars[j]
  BY PatchKeepsOthers
<1>2. MergeGameStatePatch(live, [i \in Keys |-> IF i = k THEN v ELSE None]) \in State
  BY OneKeyType, MergeGameStatePatchType
<1>3. \A patch \in Effects :
        LET new == MergeGameStatePatch(live, patch)
        IN new.turn = live.turn /\ new.pending = live.pending /\ new.fired = live.fired
  BY DEF MergeGameStatePatch, State
<1>. QED BY <1>1, <1>2, <1>3, OneKeyType

LEMMA InterfaceTracks ==
  ASSUME IInv, ReplyTracked, InterfaceStep
  PROVE  ReplyTracked'
<1>. DEFINE snap == Snapshot(transcript[LastReply(transcript)])
<1>1. ASSUME NEW k \in Keys, NEW v \in Vals, PatchState(k, v) PROVE ReplyTracked'
  <2>. DEFINE new == MergeGameStatePatch(session.state, [i \in Keys |-> IF i = k THEN v ELSE None])
  <2>1. /\ session' = [session EXCEPT !.state = new] /\ dirty' = dirty \cup {k}
        /\ UNCHANGED <<transcript, aligned>>
    BY <1>1 DEF PatchState
  <2>2. /\ new \in State /\ new.turn = session.state.turn
        /\ session.state.pending \subseteq new.pending /\ session.state.fired \subseteq new.fired
        /\ \A j \in Keys : j # k => new.vars[j] = session.state.vars[j]
    BY SessionFields, PatchMovesOne
  <2>. HIDE DEF new
  <2>3. session'.state = new
    BY <2>1, SessionFields DEF IInv, TypeOK
  <2>. HIDE DEF snap
  <2>4. Tracks(session.state, snap, dirty) => Tracks(new, snap, dirty \cup {k})
    BY <2>2, SessionFields, TracksPatched
  <2>. QED BY <2>1, <2>3, <2>4 DEF ReplyTracked, snap
<1>2. ASSUME NEW k \in Keys, NEW v \in Vals, NEW words \in SUBSET Contexts,
             NEW firing \in SUBSET Rules, ExecuteAction(k, v, words, firing)
      PROVE  ReplyTracked'
  <2>. DEFINE merged == MergeGameStatePatch(session.state,
                                            [i \in Keys |-> IF i = k THEN v ELSE None])
              new    == [merged EXCEPT !.pending = @ \cup words, !.fired = @ \cup firing]
  <2>1. /\ session' = [session EXCEPT !.state = new] /\ dirty' = dirty \cup {k}
        /\ UNCHANGED <<transcript, aligned>>
    BY <1>2 DEF ExecuteAction
  <2>2. /\ merged \in State /\ merged.turn = session.state.turn
        /\ merged.pending = session.state.pending /\ merged.fired = session.state.fired
        /\ \A j \in Keys : j # k => merged.vars[j] = session.state.vars[j]
    BY SessionFields, PatchMovesOne
  <2>. HIDE DEF merged
  <2>3. /\ new \in State /\ new.turn = session.state.turn
        /\ session.state.pending \subseteq new.pending /\ session.state.fired \subseteq new.fired
        /\ \A j \in Keys : j # k => new.vars[j] = session.state.vars[j]
    BY <2>2 DEF State
  <2>. HIDE DEF new
  <2>4. session'.state = new
    BY <2>1, SessionFields DEF IInv, TypeOK
  <2>. HIDE DEF snap
  <2>5. Tracks(session.state, snap, dirty) => Tracks(new, snap, dirty \cup {k})
    BY <2>3, SessionFields, TracksPatched
  <2>. QED BY <2>1, <2>4, <2>5 DEF ReplyTracked, snap
<1>3. ASSUME NEW c \in Contexts, InjectContext(c) PROVE ReplyTracked'
  <2>1. /\ session'.state.turn = session.state.turn
        /\ session.state.pending \subseteq session'.state.pending
        /\ session'.state.fired = session.state.fired
        /\ session'.state.vars = session.state.vars
        /\ UNCHANGED <<transcript, dirty, aligned>>
    BY <1>3, SessionFields DEF InjectContext, IInv, TypeOK, State
  <2>. QED BY <2>1 DEF ReplyTracked, Tracks
<1>. QED BY <1>1, <1>2, <1>3 DEF InterfaceStep

-----------------------------------------------------------------------------
(* ... and the timeline, which goes back to a snapshot.                    *)

\* A restored state is the snapshot but for the setup-scoped variables.
LEMMA KeepSetupTracks ==
  ASSUME NEW live \in State, NEW snap \in State
  PROVE  Tracks(KeepSetup(live, snap), snap, SetupKeys)
<1>1. KeepSetup(live, snap).vars
        = [k \in Keys |-> IF k \in SetupKeys THEN live.vars[k] ELSE snap.vars[k]]
  BY DEF KeepSetup, State
<1>2. /\ KeepSetup(live, snap).turn = snap.turn /\ KeepSetup(live, snap).pending = snap.pending
      /\ KeepSetup(live, snap).fired = snap.fired
  BY DEF KeepSetup, State
<1>. QED BY <1>1, <1>2 DEF Tracks

LEMMA SnapshotType ==
  ASSUME NEW log, WellFormed(log), NEW i \in Replies(log)
  PROVE  Snapshot(log[i]) \in State
<1>1. log[i].swipes \in Seq(Swipe) /\ log[i].active \in 1..Len(log[i].swipes)
  BY MessagesOf DEF Replies, WellFormed, Message
<1>2. log[i].swipes[log[i].active] \in Swipe
  BY <1>1, ElementOfSeq
<1>. QED BY <1>2 DEF Snapshot, Swipe

LEMMA EditTracks ==
  ASSUME IInv, ReplyTracked, NEW i \in DOMAIN transcript, EditMessage(i)
  PROVE  ReplyTracked'
<1>1. \A j \in DOMAIN transcript : transcript[j] \in Message
  BY MessagesOf DEF IInv
<1>2. /\ transcript' = [transcript EXCEPT ![i].text = session.gen + 1]
      /\ session'.state = session.state /\ UNCHANGED <<dirty, aligned>>
  BY DEF EditMessage, Rotate
<1>3. /\ DOMAIN transcript' = DOMAIN transcript
      /\ \A j \in DOMAIN transcript :
           /\ transcript'[j].role = transcript[j].role
           /\ Snapshot(transcript'[j]) = Snapshot(transcript[j])
  BY <1>1, <1>2 DEF Message, Snapshot
<1>4. Replies(transcript') = Replies(transcript) /\ LastReply(transcript') = LastReply(transcript)
  BY <1>3, LastReplyKept
<1>5. Replies(transcript) # {} => LastReply(transcript) \in DOMAIN transcript
  BY LastReplyType DEF IInv, Replies
<1>. QED BY <1>2, <1>3, <1>4, <1>5 DEF ReplyTracked

LEMMA RevertTracks ==
  ASSUME IInv, NEW n \in Nat, Revert(n)
  PROVE  ReplyTracked'
<1>. DEFINE log == SubSeq(transcript, 1, n)
            restored == IF n = 0 THEN Initial
                        ELSE IF Replies(log) = {} THEN session.state
                        ELSE Snapshot(log[LastReply(log)])
<1>1. n \in 0..Len(transcript)
  BY SessionFields, LenProperties DEF Revert
<1>2. WellFormed(log) /\ DOMAIN log = 1..n
  BY <1>1, PrefixLog, PrefixMessages DEF IInv
<1>3. /\ session'.state = KeepSetup(session.state, restored) /\ transcript' = log
      /\ dirty' = SetupKeys /\ aligned' = (Replies(log) # {})
  BY DEF Revert, Rotate
<1>. HIDE DEF log
<1>4. ASSUME aligned'
      PROVE  Tracks(session'.state, Snapshot(log[LastReply(log)]), SetupKeys)
  <2>1. Replies(log) # {} /\ n # 0
    <3>1. Replies(log) # {}
      BY <1>3, <1>4, Zenon
    <3>2. n = 0 => DOMAIN log = {}
      BY <1>2
    <3>. QED BY <3>1, <3>2 DEF Replies
  <2>2. restored = Snapshot(log[LastReply(log)])
    BY <2>1
  <2>3. LastReply(log) \in Replies(log)
    BY <1>2, <2>1, LastReplyType
  <2>4. Snapshot(log[LastReply(log)]) \in State
    BY <1>2, <2>3, SnapshotType
  <2>. QED BY <1>3, <2>2, <2>4, SessionFields, KeepSetupTracks
<1>. QED BY <1>3, <1>4 DEF ReplyTracked

LEMMA RestartTracks ==
  ASSUME IInv, Restart
  PROVE  ReplyTracked'
<1>1. WellFormed(transcript')
  BY RestartStep DEF IInv
<1>2. session'.state = Initial /\ dirty' = {} /\ \E id : transcript' = <<Greeting(id, session.gen + 1)>>
  BY DEF Restart, Rotate
<1>3. PICK id : transcript' = <<Greeting(id, session.gen + 1)>>
  BY <1>2
<1>4. /\ DOMAIN transcript' = {1} /\ transcript'[1].role = "assistant"
      /\ Snapshot(transcript'[1]) = Initial
  BY <1>3 DEF Greeting, Reply, Snapshot
<1>5. Replies(transcript') = {1}
  BY <1>4 DEF Replies
<1>6. LastReply(transcript') = 1
  BY <1>1, <1>5, LastReplyIs
<1>. QED BY <1>2, <1>4, <1>5, <1>6, InitialType, TracksItself DEF ReplyTracked

LEMMA TimelineTracks ==
  ASSUME IInv, ReplyTracked, TimelineStep
  PROVE  ReplyTracked'
<1>1. ASSUME NEW i \in DOMAIN transcript, DeleteMessage(i) PROVE ReplyTracked'
  BY <1>1 DEF DeleteMessage, ReplyTracked
<1>. QED BY <1>1, EditTracks, RevertsAreRevert, RevertTracks, RestartTracks DEF TimelineStep

\* Between turns the session differs from the snapshot of its last reply only
\* in what was written since: no commit, merge, edit or revert leaves a state
\* that is not the one the transcript would restore.
THEOREM StateTracks == Spec => []StateTracksTranscript
<1>1. Init => ReplyTracked
  <2>. SUFFICES ASSUME Init PROVE ReplyTracked
    OBVIOUS
  <2>1. IInv
    BY InitIInv
  <2>2. /\ session.state = Initial /\ dirty = {}
        /\ transcript = <<Greeting(<<0, "assistant">>, 0)>>
    BY DEF Init
  <2>3. /\ DOMAIN transcript = {1} /\ transcript[1].role = "assistant"
        /\ Snapshot(transcript[1]) = Initial
    BY <2>2 DEF Greeting, Reply, Snapshot
  <2>4. Replies(transcript) = {1}
    BY <2>3 DEF Replies
  <2>5. LastReply(transcript) = 1
    BY <2>1, <2>4, LastReplyIs DEF IInv
  <2>. QED BY <2>2, <2>3, <2>4, <2>5, InitialType, TracksItself DEF ReplyTracked
<1>2. IInv /\ BaselineInv /\ ReplyTracked /\ [Next]_vars => ReplyTracked'
  <2>. SUFFICES ASSUME IInv, BaselineInv, ReplyTracked, [Next]_vars PROVE ReplyTracked'
    OBVIOUS
  <2>1. CASE UNCHANGED <<session, transcript, ghosts>>
    BY <2>1 DEF ReplyTracked, ghosts
  <2>. QED BY <2>1, SendTracks, RegenerateTracks, ContinueTracks, InterfaceTracks,
              TimelineTracks DEF Next, vars, ghosts, GiveUp
<1>3. ReplyTracked => StateTracksTranscript
  BY DEF ReplyTracked, Tracks, StateTracksTranscript
<1>. QED BY Invariant, BaselineInvariant, <1>1, <1>2, <1>3, PTL DEF Spec

-----------------------------------------------------------------------------
(* onceTrue facts.                                                         *)

\* A latched variable that a step of the same timeline took back.
Unlatched(k) ==
  /\ session'.gen = session.gen
  /\ session.state.vars[k] = True /\ session'.state.vars[k] # True

\* The turn r read k before it latched, and moved it to another value.
ReadBeforeLatch(r, k) ==
  /\ Commits(r)
  /\ req[r].base.vars[k] \notin {True, session'.state.vars[k]}

\* Effects keep a latched variable latched.
LEMMA ApplyEffectsLatches ==
  ASSUME NEW v \in Variables, NEW effects \in Effects, NEW k \in OnceKeys, v[k] = True
  PROVE  ApplyEffects(v, effects)[k] = True
BY DataAssumption DEF ApplyEffects, Validate, Effects

LEMMA PatchLatches ==
  ASSUME NEW live \in State, NEW patch \in Effects, NEW k \in OnceKeys, live.vars[k] = True
  PROVE  MergeGameStatePatch(live, patch).vars[k] = True
<1>1. ApplyEffects(live.vars, patch)[k] = True
  BY ApplyEffectsLatches DEF State
<1>2. MergeGameStatePatch(live, patch).vars = ApplyEffects(live.vars, patch)
  BY DEF MergeGameStatePatch, State
<1>. QED BY <1>1, <1>2

LEMMA SendCommitUnlatches ==
  ASSUME IInv, NEW r \in Requests, NEW effects \in Effects, NEW added \in SUBSET Contexts,
         NEW firing \in SUBSET Rules, SendCommit(r, effects, added, firing),
         NEW k \in OnceKeys, Unlatched(k)
  PROVE  ReadBeforeLatch(r, k)
<1>. DEFINE base == req[r].base
            out  == [vars    |-> ApplyEffects(base.vars, effects),
                     pending |-> added,
                     fired   |-> base.fired \cup firing,
                     turn    |-> base.turn + 1]
            new  == ReconcileTurnState(session.state, base, out)
<1>1. /\ session' = [session EXCEPT !.state = new]
      /\ req' = [req EXCEPT ![r] = Done(r)] /\ req[r].pc = "streaming"
  BY DEF SendCommit
<1>2. k \in Keys
  BY DataAssumption
<1>3. new.vars[k] = IF out.vars[k] # base.vars[k] THEN out.vars[k] ELSE session.state.vars[k]
  BY <1>2 DEF ReconcileTurnState
<1>4. base.vars[k] = True => out.vars[k] = True
  BY TurnFields, ApplyEffectsLatches DEF State
<1>. HIDE DEF new, out
<1>5. session'.state = new
  BY <1>1, SessionFields DEF IInv, TypeOK
<1>6. base.vars[k] # True /\ base.vars[k] # new.vars[k]
  BY <1>3, <1>4, <1>5 DEF Unlatched
<1>7. session' # session
  BY <1>5 DEF Unlatched
<1>8. req'[r].pc = "done"
  BY <1>1, DoneType DEF IInv, TypeOK
<1>. QED BY <1>1, <1>5, <1>6, <1>7, <1>8 DEF ReadBeforeLatch, Commits

LEMMA InterfaceLatches ==
  ASSUME IInv, InterfaceStep, NEW k \in OnceKeys, session.state.vars[k] = True
  PROVE  session'.state.vars[k] = True
<1>1. ASSUME NEW j \in Keys, NEW v \in Vals, PatchState(j, v) PROVE session'.state.vars[k] = True
  <2>. DEFINE new == MergeGameStatePatch(session.state, [i \in Keys |-> IF i = j THEN v ELSE None])
  <2>1. new.vars[k] = True
    BY SessionFields, OneKeyType, PatchLatches
  <2>2. session' = [session EXCEPT !.state = new]
    BY <1>1 DEF PatchState
  <2>. HIDE DEF new
  <2>. QED BY <2>1, <2>2, SessionFields DEF IInv, TypeOK
<1>2. ASSUME NEW j \in Keys, NEW v \in Vals, NEW words \in SUBSET Contexts,
             NEW firing \in SUBSET Rules, ExecuteAction(j, v, words, firing)
      PROVE  session'.state.vars[k] = True
  <2>. DEFINE merged == MergeGameStatePatch(session.state,
                                            [i \in Keys |-> IF i = j THEN v ELSE None])
              new    == [merged EXCEPT !.pending = @ \cup words, !.fired = @ \cup firing]
  <2>1. merged.vars[k] = True /\ merged \in State
    BY SessionFields, OneKeyType, PatchLatches, MergeGameStatePatchType
  <2>2. session' = [session EXCEPT !.state = new]
    BY <1>2 DEF ExecuteAction
  <2>. HIDE DEF merged
  <2>3. new.vars = merged.vars
    BY <2>1 DEF State
  <2>. HIDE DEF new
  <2>. QED BY <2>1, <2>2, <2>3, SessionFields DEF IInv, TypeOK
<1>3. ASSUME NEW c \in Contexts, InjectContext(c) PROVE session'.state.vars[k] = True
  BY <1>3, SessionFields DEF InjectContext, IInv, TypeOK, State
<1>. QED BY <1>1, <1>2, <1>3 DEF InterfaceStep

LEMMA OnlyStaleTurnsUnlatch ==
  ASSUME IInv, [Next]_vars, NEW k \in OnceKeys, Unlatched(k)
  PROVE  \E r \in Requests : ReadBeforeLatch(r, k)
<1>1. session.gen \in Nat /\ session'.gen = session.gen /\ session'.gen # session.gen + 1
  BY SessionFields DEF Unlatched
<1>2. session' # session
  BY DEF Unlatched
<1>3. ASSUME NEW r \in Requests, SendStep(r) PROVE \E q \in Requests : ReadBeforeLatch(q, k)
  BY <1>2, <1>3, SendCommitUnlatches
     DEF SendStep, SendLoad, SendInsertUserRow, SendReuseUserRow, SendReadHistory
<1>4. ASSUME NEW r \in Requests, RegenerateStep(r) PROVE FALSE
  <2>1. ASSUME NEW effects \in Effects, NEW added \in SUBSET Contexts,
               NEW firing \in SUBSET Rules, RegenerateCommit(r, effects, added, firing)
        PROVE  session'.gen = session.gen + 1
    BY <2>1 DEF RegenerateCommit
  <2>. QED BY <1>1, <1>2, <1>4, <2>1
           DEF RegenerateStep, RegenerateReadMessage, RegenerateLoad, RegenerateReadHistory
<1>5. ASSUME NEW r \in Requests, ContinueStep(r) PROVE FALSE
  <2>1. ASSUME NEW effects \in Effects, NEW added \in SUBSET Contexts,
               NEW firing \in SUBSET Rules, ContinueCommit(r, effects, added, firing)
        PROVE  session'.gen = session.gen + 1
    BY <2>1 DEF ContinueCommit
  <2>. QED BY <1>1, <1>2, <1>5, <2>1 DEF ContinueStep, ContinueLoad, ContinueReadHistory
<1>6. ASSUME NEW r \in Requests, GiveUp(r) PROVE FALSE
  BY <1>2, <1>6 DEF GiveUp
<1>7. ASSUME InterfaceStep PROVE FALSE
  BY <1>7, InterfaceLatches DEF Unlatched
<1>8. ASSUME TimelineStep PROVE FALSE
  BY <1>1, <1>8, TimelineRotates
<1>. QED BY <1>2, <1>3, <1>4, <1>5, <1>6, <1>7, <1>8 DEF Next, vars

\* A onceTrue fact is never cleared by the interface or by a turn that saw it:
\* if it is lost without history being replaced, the step is the commit of a
\* turn that read the variable before it latched and moved it to another value
\* that does not latch.  Such a value exists only if the variable takes three.
THEOREM LatchLostOnlyToStaleTurn ==
  Spec => [][\A k \in OnceKeys : Unlatched(k) => \E r \in Requests : ReadBeforeLatch(r, k)]_vars
<1>1. ASSUME IInv, [Next]_vars
      PROVE  [\A k \in OnceKeys : Unlatched(k) => \E r \in Requests : ReadBeforeLatch(r, k)]_vars
  BY <1>1, OnlyStaleTurnsUnlatch
<1>. QED BY Invariant, <1>1, PTL DEF Spec

\* The onceTrue variables hold booleans: True, or the default.
BooleanFacts == \A k \in OnceKeys : session.state.vars[k] \in {True, Default}

\* ... and so did every state a turn in flight read.
BooleanReads == \A r \in Requests, k \in OnceKeys : req[r].base.vars[k] \in {True, Default}

LEMMA IdleReadsBoolean ==
  ASSUME NEW k \in OnceKeys, NEW r \in Requests
  PROVE  Done(r).base.vars[k] \in {True, Default}
<1>1. Done(r).base = Initial /\ k \in Keys
  BY DataAssumption DEF Done, Idle
<1>. QED BY <1>1 DEF Initial

LEMMA BooleanReadsStep ==
  ASSUME IInv, BooleanFacts, BooleanReads, [Next]_vars
  PROVE  BooleanReads'
<1>1. ASSUME NEW r \in Requests, NEW q, req' = [req EXCEPT ![r] = q],
             q.base \in {session.state, req[r].base, Done(r).base}
      PROVE  BooleanReads'
  <2>1. ASSUME NEW s \in Requests, NEW k \in OnceKeys
        PROVE  req'[s].base.vars[k] \in {True, Default}
    BY <1>1, IdleReadsBoolean DEF BooleanFacts, BooleanReads, IInv, TypeOK
  <2>. QED BY <2>1 DEF BooleanReads
<1>2. CASE UNCHANGED req
  BY <1>2 DEF BooleanReads
<1>3. ASSUME NEW r \in Requests, req' = [req EXCEPT ![r] = Done(r)] PROVE BooleanReads'
  BY <1>1, <1>3
<1>4. ASSUME NEW r \in Requests, SendStep(r) PROVE BooleanReads'
  <2>1. CASE SendLoad(r)
    <3>. DEFINE q == [req[r] EXCEPT !.kind = "send", !.pc = "loaded",
                                    !.base = session.state, !.gen = session.gen]
    <3>1. q.base = session.state
      BY TurnFields DEF Turn
    <3>2. req' = [req EXCEPT ![r] = q]
      BY <2>1 DEF SendLoad
    <3>. HIDE DEF q
    <3>. QED BY <1>1, <3>1, <3>2
  <2>2. CASE SendInsertUserRow(r)
    <3>. DEFINE q == [req[r] EXCEPT !.pc = "rowed", !.target = <<r, "user">>]
    <3>1. q.base = req[r].base
      BY TurnFields DEF Turn
    <3>2. req' = [req EXCEPT ![r] = q]
      BY <2>2 DEF SendInsertUserRow
    <3>. HIDE DEF q
    <3>. QED BY <1>1, <3>1, <3>2
  <2>3. CASE SendReuseUserRow(r)
    <3>. DEFINE q == [req[r] EXCEPT !.pc = "rowed", !.target = Last(transcript).id]
    <3>1. q.base = req[r].base
      BY TurnFields DEF Turn
    <3>2. req' = [req EXCEPT ![r] = q]
      BY <2>3 DEF SendReuseUserRow
    <3>. HIDE DEF q
    <3>. QED BY <1>1, <3>1, <3>2
  <2>4. CASE SendReadHistory(r)
    <3>. DEFINE q == [req[r] EXCEPT !.pc = "streaming", !.start = req[r].base,
                                    !.basis = Words(transcript)]
    <3>1. q.base = req[r].base
      BY TurnFields DEF Turn
    <3>2. req' = [req EXCEPT ![r] = q]
      BY <2>4 DEF SendReadHistory
    <3>. HIDE DEF q
    <3>. QED BY <1>1, <3>1, <3>2
  <2>. QED BY <1>3, <1>4, <2>1, <2>2, <2>3, <2>4 DEF SendStep, SendCommit
<1>5. ASSUME NEW r \in Requests, RegenerateStep(r) PROVE BooleanReads'
  <2>1. CASE RegenerateReadMessage(r)
    <3>. DEFINE m == Last(transcript)
                q == [req[r] EXCEPT !.kind = "regenerate", !.pc = "targeted", !.target = m.id,
                                    !.swipes = m.swipes, !.active = m.active]
    <3>1. q.base = req[r].base
      BY TurnFields DEF Turn
    <3>2. req' = [req EXCEPT ![r] = q]
      BY <2>1 DEF RegenerateReadMessage
    <3>. HIDE DEF q
    <3>. QED BY <1>1, <3>1, <3>2
  <2>2. CASE RegenerateLoad(r)
    <3>. DEFINE from == RegenerationState(session.state, req[r].swipes, req[r].active)
                q == [req[r] EXCEPT !.pc = "loaded", !.base = session.state,
                                    !.gen = session.gen, !.start = from]
    <3>1. req' = [req EXCEPT ![r] = q]
      BY <2>2 DEF RegenerateLoad
    <3>. HIDE DEF from
    <3>2. q.base = session.state
      BY TurnFields DEF Turn
    <3>. HIDE DEF q
    <3>. QED BY <1>1, <3>1, <3>2
  <2>3. CASE RegenerateReadHistory(r)
    <3>. DEFINE before == {<<transcript[i].id, transcript[i].text>> : i \in {j \in DOMAIN transcript :
                             \A t \in DOMAIN transcript : transcript[t].id = req[r].target => j < t}}
                q == [req[r] EXCEPT !.pc = "streaming", !.basis = before]
    <3>1. req' = [req EXCEPT ![r] = q]
      BY <2>3 DEF RegenerateReadHistory
    <3>. HIDE DEF before
    <3>2. q.base = req[r].base
      BY TurnFields DEF Turn
    <3>. HIDE DEF q
    <3>. QED BY <1>1, <3>1, <3>2
  <2>. QED BY <1>3, <1>5, <2>1, <2>2, <2>3 DEF RegenerateStep, RegenerateCommit
<1>6. ASSUME NEW r \in Requests, ContinueStep(r) PROVE BooleanReads'
  <2>1. CASE ContinueLoad(r)
    <3>. DEFINE q == [req[r] EXCEPT !.kind = "continue", !.pc = "loaded",
                                    !.base = session.state, !.gen = session.gen]
    <3>1. q.base = session.state
      BY TurnFields DEF Turn
    <3>2. req' = [req EXCEPT ![r] = q]
      BY <2>1 DEF ContinueLoad
    <3>. HIDE DEF q
    <3>. QED BY <1>1, <3>1, <3>2
  <2>2. CASE ContinueReadHistory(r)
    <3>. DEFINE m == transcript[LastReply(transcript)]
                q == [req[r] EXCEPT !.pc = "streaming", !.target = m.id, !.swipes = m.swipes,
                                    !.basis = Words(transcript)]
    <3>1. q.base = req[r].base
      BY TurnFields DEF Turn
    <3>2. req' = [req EXCEPT ![r] = q]
      BY <2>2 DEF ContinueReadHistory
    <3>. HIDE DEF q
    <3>. QED BY <1>1, <3>1, <3>2
  <2>. QED BY <1>3, <1>6, <2>1, <2>2 DEF ContinueStep, ContinueCommit
<1>7. ASSUME InterfaceStep \/ TimelineStep \/ UNCHANGED vars PROVE UNCHANGED req
  BY <1>7 DEF InterfaceStep, PatchState, ExecuteAction, InjectContext, TimelineStep,
              EditMessage, DeleteMessage, RevertToMessage, RevertLastExchange, Revert, Restart,
              Rotate, vars
<1>. QED BY <1>2, <1>3, <1>4, <1>5, <1>6, <1>7 DEF Next, GiveUp

\* types/index.ts:66: a boolean fact that, once true, cannot be cleared by
\* normal writes.  It is so for as long as the variable is kept boolean: a turn
\* that read it before it latched can only have moved it to True.
THEOREM OnceTrueStays == Spec /\ []BooleanFacts => OnceTrueIsPermanent
<1>1. Init => BooleanReads
  <2>. SUFFICES ASSUME Init, NEW r \in Requests, NEW k \in OnceKeys
                PROVE  req[r].base.vars[k] \in {True, Default}
    BY DEF BooleanReads
  <2>1. req[r].base = Initial /\ k \in Keys
    BY DataAssumption DEF Init, Idle
  <2>. QED BY <2>1 DEF Initial
<1>2. IInv /\ BooleanFacts /\ BooleanReads /\ [Next]_vars => BooleanReads'
  BY BooleanReadsStep
<1>3. ASSUME IInv, BooleanFacts, BooleanFacts', BooleanReads, [Next]_vars
      PROVE  [session'.gen = session.gen =>
                \A k \in OnceKeys : session.state.vars[k] = True
                                      => session'.state.vars[k] = True]_vars
  <2>. SUFFICES ASSUME NEW k \in OnceKeys, Unlatched(k) PROVE FALSE
    BY DEF Unlatched
  <2>1. PICK r \in Requests : ReadBeforeLatch(r, k)
    BY <1>3, OnlyStaleTurnsUnlatch
  <2>2. req[r].base.vars[k] = Default /\ session'.state.vars[k] = Default
    BY <1>3, <2>1 DEF BooleanFacts, BooleanReads, ReadBeforeLatch, Unlatched
  <2>. QED BY <2>1, <2>2 DEF ReadBeforeLatch
<1>. QED BY Invariant, <1>1, <1>2, <1>3, PTL DEF Spec, OnceTrueIsPermanent

\* The same from the declaration of the variables instead of their history: if
\* every value is True or the default, no step of the same timeline clears a
\* latched fact.
THEOREM TwoValuesStay == Vals = {True, Default} => (Spec => OnceTrueIsPermanent)
<1>. SUFFICES ASSUME Vals = {True, Default} PROVE Spec => OnceTrueIsPermanent
  OBVIOUS
<1>1. TypeOK => BooleanFacts
  <2>. SUFFICES ASSUME TypeOK, NEW k \in OnceKeys
                PROVE  session.state.vars[k] \in {True, Default}
    BY DEF BooleanFacts
  <2>1. session.state \in State
    BY DEF TypeOK
  <2>2. k \in Keys
    BY DataAssumption
  <2>. QED BY <2>1, <2>2 DEF State, Variables
<1>. QED BY <1>1, TypeCorrect, OnceTrueStays, PTL

-----------------------------------------------------------------------------
(* The words that wait for the next turn.                                  *)

\* A queued context that a step takes from the list although no turn read it.
Dropped(c) ==
  /\ c \in queued /\ c \in session.state.pending
  /\ c \in queued' /\ c \notin session'.state.pending

\* The turn r read the list before c was in it, and moved the list.
MovedWithout(r, c) ==
  /\ Commits(r) /\ c \notin req[r].base.pending
  /\ session'.state.pending # req[r].base.pending

LEMMA ReconcilePending ==
  ASSUME NEW live \in State, NEW base \in State, NEW out
  PROVE  ReconcileTurnState(live, base, out).pending
           = IF out.pending # base.pending THEN out.pending ELSE live.pending
BY DEF ReconcileTurnState

LEMMA SendCommitPending ==
  ASSUME IInv, NEW r \in Requests, NEW effects \in Effects, NEW added \in SUBSET Contexts,
         NEW firing \in SUBSET Rules, SendCommit(r, effects, added, firing)
  PROVE  /\ Commits(r)
         /\ session'.state.pending = IF added # req[r].base.pending THEN added
                                                                     ELSE session.state.pending
         /\ queued' = (queued \ req[r].base.pending) \cup added
<1>. DEFINE out == [vars    |-> ApplyEffects(req[r].base.vars, effects),
                    pending |-> added,
                    fired   |-> req[r].base.fired \cup firing,
                    turn    |-> req[r].base.turn + 1]
            new   == ReconcileTurnState(session.state, req[r].base, out)
            m     == Reply(<<r, "assistant">>, session.gen, [snap |-> new, base |-> req[r].start])
<1>1. /\ session' = [session EXCEPT !.state = new] /\ transcript' = Append(transcript, m)
      /\ req' = [req EXCEPT ![r] = Done(r)] /\ req[r].pc = "streaming"
      /\ queued' = (queued \ req[r].base.pending) \cup added
  BY DEF SendCommit
<1>2. out.pending = added
  OBVIOUS
<1>. HIDE DEF out
<1>3. new.pending = IF added # req[r].base.pending THEN added ELSE session.state.pending
  BY <1>2, TurnFields, ReconcilePending
<1>. HIDE DEF new, m
<1>4. session'.state = new
  BY <1>1, SessionFields DEF IInv, TypeOK
<1>5. transcript' # transcript
  <2>1. Len(Append(transcript, m)) = Len(transcript) + 1 /\ Len(transcript) \in Nat
    BY TurnFields, LenProperties
  <2>. QED BY <1>1, <2>1
<1>6. req'[r].pc = "done"
  BY <1>1, DoneType DEF IInv, TypeOK
<1>. QED BY <1>1, <1>3, <1>4, <1>5, <1>6 DEF Commits

LEMMA ContinueCommitPending ==
  ASSUME IInv, NEW r \in Requests, NEW effects \in Effects, NEW added \in SUBSET Contexts,
         NEW firing \in SUBSET Rules, ContinueCommit(r, effects, added, firing)
  PROVE  LET all == req[r].base.pending \cup added
         IN /\ Commits(r)
            /\ session'.state.pending = IF all # req[r].base.pending THEN all
                                                                     ELSE session.state.pending
            /\ queued' = queued \cup added
<1>. DEFINE all == req[r].base.pending \cup added
            out == [vars    |-> ApplyEffects(req[r].base.vars, effects),
                    pending |-> all,
                    fired   |-> req[r].base.fired \cup firing,
                    turn    |-> req[r].base.turn]
            new == ReconcileTurnState(session.state, req[r].base, out)
<1>1. /\ session' = [state |-> new, gen |-> session.gen + 1]
      /\ req' = [req EXCEPT ![r] = Done(r)] /\ req[r].pc = "streaming"
      /\ queued' = queued \cup added
  BY DEF ContinueCommit
<1>2. out.pending = all
  OBVIOUS
<1>. HIDE DEF out, all
<1>3. new.pending = IF all # req[r].base.pending THEN all ELSE session.state.pending
  BY <1>2, TurnFields, ReconcilePending
<1>. HIDE DEF new
<1>4. session'.state = new /\ session' # session
  BY <1>1, SessionFields
<1>5. req'[r].pc = "done"
  BY <1>1, DoneType DEF IInv, TypeOK
<1>. QED BY <1>1, <1>3, <1>4, <1>5 DEF Commits, all

\* Steps that take nothing from the list, or whose list is what is queued.
KeepsOrResets ==
  \/ \E words \in SUBSET Contexts : /\ queued' = queued \cup words
                                    /\ session'.state.pending = session.state.pending \cup words
  \/ queued' = session'.state.pending

LEMMA InterfacePending ==
  ASSUME IInv, InterfaceStep
  PROVE  KeepsOrResets
<1>. DEFINE Live == session.state
<1>1. Live \in State /\ session = [state |-> Live, gen |-> session.gen]
  BY DEF IInv, TypeOK
<1>2. ASSUME NEW patch PROVE MergeGameStatePatch(Live, patch).pending = Live.pending
  BY <1>1 DEF MergeGameStatePatch, State
<1>3. ASSUME NEW k \in Keys, NEW v \in Vals, PatchState(k, v) PROVE KeepsOrResets
  <2>. DEFINE new == MergeGameStatePatch(Live, [j \in Keys |-> IF j = k THEN v ELSE None])
  <2>1. session' = [session EXCEPT !.state = new] /\ queued' = queued
    BY <1>3 DEF PatchState
  <2>2. new.pending = Live.pending
    BY <1>2
  <2>. HIDE DEF new
  <2>3. session'.state.pending = Live.pending \cup {} /\ queued' = queued \cup {}
    BY <1>1, <2>1, <2>2
  <2>. QED BY <2>3 DEF KeepsOrResets
<1>4. ASSUME NEW k \in Keys, NEW v \in Vals, NEW words \in SUBSET Contexts,
             NEW firing \in SUBSET Rules, ExecuteAction(k, v, words, firing)
      PROVE  KeepsOrResets
  <2>. DEFINE merged == MergeGameStatePatch(Live, [j \in Keys |-> IF j = k THEN v ELSE None])
              new    == [merged EXCEPT !.pending = @ \cup words, !.fired = @ \cup firing]
  <2>1. session' = [session EXCEPT !.state = new] /\ queued' = queued \cup words
    BY <1>4 DEF ExecuteAction
  <2>2. merged.pending = Live.pending /\ merged \in State
    BY <1>1, <1>2, OneKeyType, MergeGameStatePatchType
  <2>. HIDE DEF merged
  <2>3. new.pending = Live.pending \cup words
    BY <2>2 DEF State
  <2>. HIDE DEF new
  <2>4. session'.state.pending = Live.pending \cup words
    BY <1>1, <2>1, <2>3
  <2>. QED BY <2>1, <2>4 DEF KeepsOrResets
<1>5. ASSUME NEW c \in Contexts, InjectContext(c) PROVE KeepsOrResets
  <2>1. session'.state.pending = Live.pending \cup {c} /\ queued' = queued \cup {c}
    BY <1>1, <1>5 DEF InjectContext, State
  <2>. QED BY <2>1 DEF KeepsOrResets
<1>. QED BY <1>3, <1>4, <1>5 DEF InterfaceStep

\* A turn commits: a send takes what it read and leaves other words, a
\* continuation adds some; the live list stays if the turn moved nothing.
CommitsList ==
  \E r \in Requests, added \in SUBSET Contexts :
    LET base == req[r].base.pending
    IN /\ Commits(r)
       /\ \/ /\ queued' = (queued \ base) \cup added
             /\ session'.state.pending = IF added # base THEN added
                                         ELSE session.state.pending
          \/ /\ queued' = queued \cup added
             /\ session'.state.pending = IF base \cup added # base THEN base \cup added
                                         ELSE session.state.pending

\* Only such a commit can take something from the list that stays queued.
LEMMA PendingStep ==
  ASSUME IInv, [Next]_vars
  PROVE  KeepsOrResets \/ CommitsList
<1>1. ASSUME UNCHANGED <<session, queued>> PROVE KeepsOrResets
  <2>1. queued' = queued \cup {} /\ session'.state.pending = session.state.pending \cup {}
    BY <1>1
  <2>. QED BY <2>1 DEF KeepsOrResets
<1>2. ASSUME NEW r \in Requests, NEW effects \in Effects, NEW added \in SUBSET Contexts,
             NEW firing \in SUBSET Rules, RegenerateCommit(r, effects, added, firing)
      PROVE  KeepsOrResets
  BY <1>2 DEF RegenerateCommit, KeepsOrResets
<1>3. ASSUME NEW state, Rotate(state) PROVE KeepsOrResets
  BY <1>3 DEF Rotate, KeepsOrResets
<1>4. ASSUME TimelineStep PROVE KeepsOrResets
  <2>1. ASSUME NEW i \in DOMAIN transcript, EditMessage(i) \/ DeleteMessage(i) PROVE KeepsOrResets
    BY <1>3, <2>1 DEF EditMessage, DeleteMessage
  <2>2. ASSUME NEW n \in Nat, Revert(n) PROVE KeepsOrResets
    BY <1>3, <2>2 DEF Revert
  <2>3. ASSUME Restart PROVE KeepsOrResets
    BY <1>3, <2>3 DEF Restart
  <2>. QED BY <1>4, <2>1, <2>2, <2>3, RevertsAreRevert DEF TimelineStep
<1>5. ASSUME NEW r \in Requests, SendStep(r) PROVE KeepsOrResets \/ CommitsList
  <2>1. ASSUME NEW effects \in Effects, NEW added \in SUBSET Contexts,
               NEW firing \in SUBSET Rules, SendCommit(r, effects, added, firing)
        PROVE  CommitsList
    <3>1. /\ Commits(r)
          /\ queued' = (queued \ req[r].base.pending) \cup added
          /\ session'.state.pending = IF added # req[r].base.pending THEN added
                                      ELSE session.state.pending
      BY <2>1, SendCommitPending
    <3>. QED BY <3>1, Zenon DEF CommitsList
  <2>. QED BY <1>1, <1>5, <2>1
           DEF SendStep, SendLoad, SendInsertUserRow, SendReuseUserRow, SendReadHistory, ghosts
<1>6. ASSUME NEW r \in Requests, ContinueStep(r) PROVE KeepsOrResets \/ CommitsList
  <2>1. ASSUME NEW effects \in Effects, NEW added \in SUBSET Contexts,
               NEW firing \in SUBSET Rules, ContinueCommit(r, effects, added, firing)
        PROVE  CommitsList
    <3>1. /\ Commits(r) /\ queued' = queued \cup added
          /\ session'.state.pending = IF req[r].base.pending \cup added # req[r].base.pending
                                      THEN req[r].base.pending \cup added
                                      ELSE session.state.pending
      BY <2>1, ContinueCommitPending
    <3>. QED BY <3>1, Zenon DEF CommitsList
  <2>. QED BY <1>1, <1>6, <2>1 DEF ContinueStep, ContinueLoad, ContinueReadHistory, ghosts
<1>7. ASSUME NEW r \in Requests, RegenerateStep(r) PROVE KeepsOrResets
  BY <1>1, <1>2, <1>7
     DEF RegenerateStep, RegenerateReadMessage, RegenerateLoad, RegenerateReadHistory, ghosts
<1>8. ASSUME NEW r \in Requests, GiveUp(r) PROVE KeepsOrResets
  BY <1>1, <1>8 DEF GiveUp, ghosts
<1>9. ASSUME UNCHANGED vars PROVE KeepsOrResets
  BY <1>1, <1>9 DEF vars, ghosts
<1>. QED BY <1>4, <1>5, <1>6, <1>7, <1>8, <1>9, InterfacePending DEF Next

\* sessions.ts:801, as far as it is so: a context that was queued and read by
\* no turn disappears only in the commit of a turn that had read the list
\* before and moved it, by taking or by leaving other words.
THEOREM ContextDroppedOnlyByMovers ==
  Spec => [][\A c \in Contexts : Dropped(c) => \E r \in Requests : MovedWithout(r, c)]_vars
<1>1. ASSUME IInv, [Next]_vars, NEW c \in Contexts, Dropped(c)
      PROVE  \E r \in Requests : MovedWithout(r, c)
  BY <1>1, PendingStep DEF Dropped, MovedWithout, KeepsOrResets, CommitsList
<1>2. IInv /\ [Next]_vars
        => [\A c \in Contexts : Dropped(c) => \E r \in Requests : MovedWithout(r, c)]_vars
  BY <1>1
<1>. QED BY Invariant, <1>2, PTL DEF Spec

\* Every turn commits over the list that it read.
ListAsRead == \A r \in Requests : Commits(r) => session.state.pending = req[r].base.pending
TurnsFindTheListAsRead == [][ListAsRead]_vars

\* Were the list to be merged by its elements, or moved by no turn that did not
\* see all of it, a queued context would wait until a turn that read it commits.
THEOREM UnracedContextWaits == Spec /\ TurnsFindTheListAsRead => []QueuedContextWaits
<1>1. Init => QueuedContextWaits
  BY DEF Init, QueuedContextWaits
<1>2. ASSUME IInv, QueuedContextWaits, [Next]_vars, [ListAsRead]_vars
      PROVE  QueuedContextWaits'
  <2>1. CASE KeepsOrResets
    BY <1>2, <2>1 DEF KeepsOrResets, QueuedContextWaits
  <2>2. CASE UNCHANGED vars
    BY <1>2, <2>2 DEF vars, ghosts, QueuedContextWaits
  <2>3. CASE ListAsRead /\ ~ KeepsOrResets
    BY <1>2, <2>3, PendingStep DEF ListAsRead, QueuedContextWaits, CommitsList
  <2>. QED BY <1>2, <2>1, <2>2, <2>3
<1>. QED BY Invariant, <1>1, <1>2, PTL DEF Spec, TurnsFindTheListAsRead

-----------------------------------------------------------------------------
(* Regenerations that load the session before their target changes.        *)

\* The target still has the swipes the regeneration read.
AsRead(r) ==
  \E i \in DOMAIN transcript : /\ transcript[i].id = req[r].target
                               /\ transcript[i].swipes = req[r].swipes
LoadsAsRead == \A r \in Requests : RegenerateLoad(r) => AsRead(r)
RegenerationsLoadInTime == [][LoadsAsRead]_vars

\* ... and does for as long as the timeline is the one it loaded.
TargetsStay ==
  \A r \in Requests :
    /\ req[r].kind = "regenerate" /\ req[r].pc \in {"loaded", "streaming"}
    /\ req[r].gen = session.gen
    => AsRead(r)

\* A step retires the timeline, or keeps its messages as they are.
LEMMA MessagesStay ==
  ASSUME IInv, [Next]_vars
  PROVE  \/ /\ session'.gen = session.gen + 1
            /\ \A s \in Requests : req'[s] = req[s] \/ req'[s] = Done(s)
         \/ /\ session'.gen = session.gen
            /\ \A i \in DOMAIN transcript : i \in DOMAIN transcript' /\ transcript'[i] = transcript[i]
<1>. DEFINE Retires == /\ session'.gen = session.gen + 1
                       /\ \A s \in Requests : req'[s] = req[s] \/ req'[s] = Done(s)
            Keeps   == /\ session'.gen = session.gen
                       /\ \A i \in DOMAIN transcript :
                            i \in DOMAIN transcript' /\ transcript'[i] = transcript[i]
<1>1. ASSUME session'.gen = session.gen, NEW m, transcript' = Append(transcript, m) PROVE Keeps
  <2>1. transcript \in Seq(Message \cup {m}) /\ m \in Message \cup {m}
    BY SessionFields
  <2>2. /\ DOMAIN transcript = 1..Len(transcript) /\ Len(transcript) \in Nat
        /\ DOMAIN transcript' = 1..(Len(transcript) + 1)
        /\ \A i \in 1..Len(transcript) : transcript'[i] = transcript[i]
    BY <1>1, <2>1, AppendProperties, LenProperties
  <2>. QED BY <1>1, <2>2
<1>2. ASSUME UNCHANGED transcript, session'.gen = session.gen PROVE Keeps
  BY <1>2
<1>3. session \in [state : State, gen : Nat] /\ req \in [Requests -> Turn]
  BY DEF IInv, TypeOK
<1>4. ASSUME NEW r \in Requests, NEW effects \in Effects, NEW added \in SUBSET Contexts,
             NEW firing \in SUBSET Rules, SendCommit(r, effects, added, firing)
      PROVE  Keeps
  <2>1. session'.gen = session.gen /\ \E m : transcript' = Append(transcript, m)
    BY <1>3, <1>4 DEF SendCommit
  <2>. QED BY <1>1, <2>1
<1>5. ASSUME NEW r \in Requests, SendInsertUserRow(r) PROVE Keeps
  <2>1. session'.gen = session.gen /\ \E m : transcript' = Append(transcript, m)
    BY <1>5 DEF SendInsertUserRow
  <2>. QED BY <1>1, <2>1
<1>6. ASSUME NEW r \in Requests, NEW effects \in Effects, NEW added \in SUBSET Contexts,
             NEW firing \in SUBSET Rules,
             RegenerateCommit(r, effects, added, firing) \/ ContinueCommit(r, effects, added, firing)
      PROVE  Retires
  <2>1. session'.gen = session.gen + 1 /\ req' = [req EXCEPT ![r] = Done(r)]
    <3>1. CASE RegenerateCommit(r, effects, added, firing)
      BY <3>1 DEF RegenerateCommit
    <3>2. CASE ContinueCommit(r, effects, added, firing)
      BY <3>2 DEF ContinueCommit
    <3>. QED BY <1>6, <3>1, <3>2
  <2>. QED BY <1>3, <2>1
<1>7. ASSUME TimelineStep PROVE Retires
  BY <1>7, TimelineRotates
<1>8. ASSUME InterfaceStep PROVE UNCHANGED transcript /\ session'.gen = session.gen
  BY <1>3, <1>8 DEF InterfaceStep, PatchState, ExecuteAction, InjectContext
<1>. HIDE DEF Retires, Keeps
<1>9. ASSUME NEW r \in Requests, SendStep(r) \/ RegenerateStep(r) \/ ContinueStep(r) \/ GiveUp(r)
      PROVE  Retires \/ Keeps
  <2>1. CASE SendStep(r)
    BY <1>2, <1>4, <1>5, <2>1 DEF SendStep, SendLoad, SendReuseUserRow, SendReadHistory
  <2>2. CASE RegenerateStep(r)
    BY <1>2, <1>6, <2>2
       DEF RegenerateStep, RegenerateReadMessage, RegenerateLoad, RegenerateReadHistory
  <2>3. CASE ContinueStep(r)
    BY <1>2, <1>6, <2>3 DEF ContinueStep, ContinueLoad, ContinueReadHistory
  <2>4. CASE GiveUp(r)
    BY <1>2, <2>4 DEF GiveUp
  <2>. QED BY <1>9, <2>1, <2>2, <2>3, <2>4
<1>10. ASSUME Next PROVE Retires \/ Keeps
  <2>1. CASE InterfaceStep
    BY <1>2, <1>8, <2>1
  <2>2. CASE TimelineStep
    BY <1>7, <2>2
  <2>. QED BY <1>9, <1>10, <2>1, <2>2 DEF Next
<1>11. ASSUME UNCHANGED vars PROVE Retires \/ Keeps
  BY <1>2, <1>11 DEF vars
<1>. QED BY <1>10, <1>11 DEF Retires, Keeps

\* How a request comes to be a regeneration that has loaded the session.
LEMMA RegenerationMoves ==
  ASSUME IInv, [Next]_vars, NEW s \in Requests,
         req'[s].kind = "regenerate", req'[s].pc \in {"loaded", "streaming"}
  PROVE  \/ req'[s] = req[s]
         \/ RegenerateLoad(s)
         \/ /\ req[s].kind = "regenerate" /\ req[s].pc = "loaded"
            /\ req'[s].target = req[s].target /\ req'[s].swipes = req[s].swipes
            /\ req'[s].gen = req[s].gen
<1>0. req \in [Requests -> Turn] /\ \A r \in Requests : req[r] \in Turn /\ Done(r).pc = "done"
  BY DoneType DEF IInv, TypeOK
<1>1. ASSUME NEW r \in Requests, NEW q, req' = [req EXCEPT ![r] = q], r # s
      PROVE  req'[s] = req[s]
  BY <1>0, <1>1
<1>2. ASSUME NEW r \in Requests, SendStep(r) PROVE req'[s] = req[s]
  <2>1. CASE \E effects \in Effects, added \in SUBSET Contexts, firing \in SUBSET Rules :
               SendCommit(r, effects, added, firing)
    <3>1. req' = [req EXCEPT ![r] = Done(r)]
      BY <2>1 DEF SendCommit
    <3>. QED BY <1>0, <3>1
  <2>2. CASE SendLoad(r) \/ SendInsertUserRow(r) \/ SendReuseUserRow(r) \/ SendReadHistory(r)
    <3>1. PICK q : req' = [req EXCEPT ![r] = q] /\ q.kind = "send"
      BY <1>0, <2>2
         DEF SendLoad, SendInsertUserRow, SendReuseUserRow, SendReadHistory, Turn
    <3>. QED BY <1>0, <3>1
  <2>. QED BY <1>2, <2>1, <2>2 DEF SendStep
<1>3. ASSUME NEW r \in Requests, ContinueStep(r) PROVE req'[s] = req[s]
  <2>1. CASE \E effects \in Effects, added \in SUBSET Contexts, firing \in SUBSET Rules :
               ContinueCommit(r, effects, added, firing)
    <3>1. req' = [req EXCEPT ![r] = Done(r)]
      BY <2>1 DEF ContinueCommit
    <3>. QED BY <1>0, <3>1
  <2>2. CASE ContinueLoad(r) \/ ContinueReadHistory(r)
    BY <1>0, <2>2 DEF ContinueLoad, ContinueReadHistory, Turn
  <2>. QED BY <1>3, <2>1, <2>2 DEF ContinueStep
<1>4. ASSUME NEW r \in Requests, GiveUp(r) PROVE req'[s] = req[s]
  <2>1. req' = [req EXCEPT ![r] = Done(r)]
    BY <1>4 DEF GiveUp
  <2>. QED BY <1>0, <2>1
<1>5. ASSUME NEW r \in Requests, RegenerateStep(r), r # s PROVE req'[s] = req[s]
  <2>1. CASE \E effects \in Effects, added \in SUBSET Contexts, firing \in SUBSET Rules :
               RegenerateCommit(r, effects, added, firing)
    <3>1. req' = [req EXCEPT ![r] = Done(r)]
      BY <2>1 DEF RegenerateCommit
    <3>. QED BY <1>1, <1>5, <3>1
  <2>2. CASE RegenerateReadMessage(r) \/ RegenerateLoad(r)
    <3>1. PICK q : req' = [req EXCEPT ![r] = q]
      <4>1. CASE RegenerateReadMessage(r)
        BY <4>1 DEF RegenerateReadMessage
      <4>2. CASE RegenerateLoad(r)
        BY <4>2 DEF RegenerateLoad
      <4>. QED BY <2>2, <4>1, <4>2
    <3>. QED BY <1>1, <1>5, <3>1
  <2>3. CASE RegenerateReadHistory(r)
    <3>1. PICK q : req' = [req EXCEPT ![r] = q]
      BY <2>3 DEF RegenerateReadHistory
    <3>. QED BY <1>1, <1>5, <3>1
  <2>. QED BY <1>5, <2>1, <2>2, <2>3 DEF RegenerateStep
<1>6. ASSUME RegenerateReadMessage(s) PROVE FALSE
  BY <1>0, <1>6 DEF RegenerateReadMessage, Turn
<1>7. ASSUME NEW effects \in Effects, NEW added \in SUBSET Contexts,
             NEW firing \in SUBSET Rules, RegenerateCommit(s, effects, added, firing)
      PROVE  FALSE
  <2>1. req' = [req EXCEPT ![s] = Done(s)]
    BY <1>7 DEF RegenerateCommit
  <2>. QED BY <1>0, <2>1
<1>8. ASSUME RegenerateReadHistory(s)
      PROVE  /\ req[s].kind = "regenerate" /\ req[s].pc = "loaded"
             /\ req'[s].target = req[s].target /\ req'[s].swipes = req[s].swipes
             /\ req'[s].gen = req[s].gen
  BY <1>0, <1>8 DEF RegenerateReadHistory, Turn
<1>9. ASSUME InterfaceStep \/ TimelineStep \/ UNCHANGED vars PROVE UNCHANGED req
  BY <1>9 DEF InterfaceStep, PatchState, ExecuteAction, InjectContext, TimelineStep,
              EditMessage, DeleteMessage, RevertToMessage, RevertLastExchange, Revert, Restart,
              Rotate, vars
<1>. QED BY <1>2, <1>3, <1>4, <1>5, <1>6, <1>7, <1>8, <1>9 DEF Next, RegenerateStep

LEMMA TargetsStayStep ==
  ASSUME IInv, TargetsStay, [Next]_vars, [LoadsAsRead]_vars
  PROVE  TargetsStay'
<1>. SUFFICES ASSUME NEW s \in Requests,
                     req'[s].kind = "regenerate", req'[s].pc \in {"loaded", "streaming"},
                     req'[s].gen = session'.gen
              PROVE  AsRead(s)'
  BY DEF TargetsStay
<1>0. req[s].gen \in Nat /\ req[s].gen <= session.gen /\ session.gen \in Nat
  BY TurnFields DEF TurnOK
<1>1. session'.gen = session.gen
  <2>. SUFFICES ASSUME session'.gen = session.gen + 1,
                       req'[s] = req[s] \/ req'[s] = Done(s)
                PROVE  FALSE
    BY MessagesStay
  <2>1. req'[s] = req[s]
    BY DoneType
  <2>. QED BY <1>0, <2>1
<1>2. \A i \in DOMAIN transcript : i \in DOMAIN transcript' /\ transcript'[i] = transcript[i]
  <2>1. session'.gen # session.gen + 1
    BY <1>0, <1>1
  <2>. QED BY <2>1, MessagesStay
<1>3. ASSUME AsRead(s), req'[s].target = req[s].target, req'[s].swipes = req[s].swipes
      PROVE  AsRead(s)'
  BY <1>2, <1>3 DEF AsRead
<1>4. CASE RegenerateLoad(s)
  <2>1. req \in [Requests -> Turn] /\ req[s] \in Turn
    BY DEF IInv, TypeOK
  <2>2. req'[s].target = req[s].target /\ req'[s].swipes = req[s].swipes
        /\ req[s].pc = "targeted" /\ req'[s].pc = "loaded"
    BY <1>4, <2>1 DEF RegenerateLoad, Turn
  <2>3. AsRead(s)
    BY <1>4, <2>2 DEF LoadsAsRead, vars
  <2>. QED BY <1>3, <2>2, <2>3
<1>5. CASE req'[s] = req[s]
  BY <1>1, <1>3, <1>5 DEF TargetsStay
<1>6. CASE /\ req[s].kind = "regenerate" /\ req[s].pc = "loaded"
           /\ req'[s].target = req[s].target /\ req'[s].swipes = req[s].swipes
           /\ req'[s].gen = req[s].gen
  BY <1>1, <1>3, <1>6 DEF TargetsStay
<1>. QED BY <1>4, <1>5, <1>6, RegenerationMoves

\* The step of a regeneration that commits.
LEMMA RegenerateCommitsIs ==
  ASSUME IInv, Next, NEW r \in Requests, RegenerateCommits(r)
  PROVE  \E effects \in Effects, added \in SUBSET Contexts, firing \in SUBSET Rules :
           RegenerateCommit(r, effects, added, firing)
<1>0. /\ req \in [Requests -> Turn] /\ session \in [state : State, gen : Nat]
      /\ req[r].kind = "regenerate" /\ req[r].pc = "streaming"
      /\ session'.gen # session.gen /\ req'[r].pc = "done"
  BY DEF IInv, TypeOK, RegenerateCommits
<1>1. ASSUME NEW s \in Requests, NEW q, req' = [req EXCEPT ![s] = q] PROVE s = r
  BY <1>0, <1>1
<1>2. ASSUME NEW s \in Requests, SendStep(s) PROVE FALSE
  BY <1>0, <1>2 DEF SendStep, SendLoad, SendInsertUserRow, SendReuseUserRow, SendReadHistory,
                    SendCommit
<1>3. ASSUME NEW s \in Requests, ContinueStep(s) PROVE FALSE
  <2>1. CASE ContinueLoad(s) \/ ContinueReadHistory(s)
    BY <1>0, <2>1 DEF ContinueLoad, ContinueReadHistory
  <2>2. CASE \E effects \in Effects, added \in SUBSET Contexts, firing \in SUBSET Rules :
               ContinueCommit(s, effects, added, firing)
    <3>1. req' = [req EXCEPT ![s] = Done(s)] /\ req[s].kind = "continue"
      BY <2>2 DEF ContinueCommit
    <3>. QED BY <1>0, <1>1, <3>1
  <2>. QED BY <1>3, <2>1, <2>2 DEF ContinueStep
<1>4. ASSUME NEW s \in Requests, RegenerateStep(s)
      PROVE  \E effects \in Effects, added \in SUBSET Contexts, firing \in SUBSET Rules :
               RegenerateCommit(r, effects, added, firing)
  <2>1. ~ (RegenerateReadMessage(s) \/ RegenerateLoad(s) \/ RegenerateReadHistory(s))
    BY <1>0 DEF RegenerateReadMessage, RegenerateLoad, RegenerateReadHistory
  <2>2. PICK effects \in Effects, added \in SUBSET Contexts, firing \in SUBSET Rules :
          RegenerateCommit(s, effects, added, firing)
    BY <1>4, <2>1 DEF RegenerateStep
  <2>3. req' = [req EXCEPT ![s] = Done(s)]
    BY <2>2 DEF RegenerateCommit
  <2>4. s = r
    BY <1>1, <2>3
  <2>. QED BY <2>2, <2>4
<1>5. ASSUME NEW s \in Requests, GiveUp(s) PROVE FALSE
  BY <1>0, <1>5 DEF GiveUp
<1>6. ASSUME InterfaceStep \/ TimelineStep PROVE FALSE
  <2>1. UNCHANGED req
    BY <1>6 DEF InterfaceStep, PatchState, ExecuteAction, InjectContext, TimelineStep,
                EditMessage, DeleteMessage, RevertToMessage, RevertLastExchange, Revert, Restart,
                Rotate
  <2>. QED BY <1>0, <2>1
<1>. QED BY <1>2, <1>3, <1>4, <1>5, <1>6 DEF Next

\* turn-swipes.ts:5, as far as it is so: a regeneration whose target has not
\* changed between the read of the message and the read of the session appends
\* its reply to the swipes there are, whatever happens after; what comes later
\* retires the generation it loaded.
THEOREM TimelyRegenerationsAppend == Spec /\ RegenerationsLoadInTime => RegenerationAppends
<1>1. Init => TargetsStay
  <2>. SUFFICES ASSUME Init, NEW r \in Requests PROVE req[r].pc = "idle"
    BY DEF TargetsStay
  <2>. QED BY DEF Init, Idle
<1>2. IInv /\ TargetsStay /\ [Next]_vars /\ [LoadsAsRead]_vars => TargetsStay'
  BY TargetsStayStep
<1>. DEFINE Appends(r) ==
              \E i \in DOMAIN transcript :
                /\ transcript[i].id = req[r].target
                /\ Len(transcript'[i].swipes) = Len(transcript[i].swipes) + 1
                /\ SubSeq(transcript'[i].swipes, 1, Len(transcript[i].swipes))
                     = transcript[i].swipes
<1>3. ASSUME IInv, TargetsStay, Next, NEW r \in Requests, RegenerateCommits(r)
      PROVE  Appends(r)
  <2>1. PICK effects \in Effects, added \in SUBSET Contexts, firing \in SUBSET Rules :
          RegenerateCommit(r, effects, added, firing)
    BY <1>3, RegenerateCommitsIs
  <2>2. PICK i \in DOMAIN transcript : /\ transcript[i].id = req[r].target
                                       /\ transcript[i].swipes = req[r].swipes
    BY <1>3, <2>1 DEF RegenerateCommit, SameTimeline, TargetsStay, AsRead
  <2>3. PICK swipe : transcript' = SetSwipes(transcript, req[r].target, session.gen + 1,
                                             Append(req[r].swipes, swipe),
                                             Len(Append(req[r].swipes, swipe)))
    BY <2>1 DEF RegenerateCommit
  <2>4. transcript[i] \in Message
    BY <1>3, MessagesOf DEF IInv
  <2>5. transcript'[i].swipes = Append(req[r].swipes, swipe)
    BY <2>2, <2>3, <2>4 DEF SetSwipes, Message
  <2>6. ASSUME NEW s \in Seq(Swipe), NEW x
        PROVE  Len(Append(s, x)) = Len(s) + 1 /\ SubSeq(Append(s, x), 1, Len(s)) = s
    OBVIOUS
  <2>7. /\ Len(transcript'[i].swipes) = Len(transcript[i].swipes) + 1
        /\ SubSeq(transcript'[i].swipes, 1, Len(transcript[i].swipes)) = transcript[i].swipes
    <3>1. req[r].swipes \in Seq(Swipe)
      BY <1>3, TurnFields
    <3>2. /\ Len(Append(req[r].swipes, swipe)) = Len(req[r].swipes) + 1
          /\ SubSeq(Append(req[r].swipes, swipe), 1, Len(req[r].swipes)) = req[r].swipes
      BY <2>6, <3>1
    <3>. QED BY <2>2, <2>5, <3>2
  <2>. QED BY <2>2, <2>7
<1>4. IInv /\ TargetsStay /\ [Next]_vars
        => [\A r \in Requests : RegenerateCommits(r) => Appends(r)]_vars
  BY <1>3
<1>. QED BY <1>1, <1>2, <1>4, Invariant, PTL
         DEF Spec, RegenerationsLoadInTime, RegenerationAppends

=============================================================================
