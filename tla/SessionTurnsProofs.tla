------------------------- MODULE SessionTurnsProofs -------------------------
(***************************************************************************)
(* Proofs about SessionTurns: its types, that a commit is grounded in what *)
(* the transcript still says, and that what the interface wrote survives   *)
(* the turns that overlapped the write.  SessionStateProofs goes on from   *)
(* here.                                                                   *)
(***************************************************************************)
EXTENDS SessionTurns, TLAPS, FiniteSetTheorems, WellFoundedInduction, SequenceTheorems

-----------------------------------------------------------------------------
(* Naturals.                                                               *)

\* The first of a set of positions: the initial segments of its members are
\* well ordered by inclusion.
LEMMA LeastElement ==
  ASSUME NEW S \in SUBSET Nat, S # {}
  PROVE  \E m \in S : \A x \in S : m <= x
<1>. DEFINE T == {0..x : x \in S}
            R == StrictSubsetOrdering(Nat)
<1>1. IsWellFoundedOn(R, FiniteSubsetsOf(Nat))
  BY FS_StrictSubsetOrderingWellFounded
<1>2. T \subseteq FiniteSubsetsOf(Nat)
  <2>1. \A x \in S : IsFiniteSet(0..x) /\ 0..x \subseteq Nat
    BY FS_Interval
  <2>. QED BY <2>1 DEF FiniteSubsetsOf
<1>3. T # {}
  OBVIOUS
<1>. HIDE DEF T, R
<1>4. PICK t \in T : \A y \in T : ~ (<<y, t>> \in R)
  BY <1>1, <1>2, <1>3, WFMin
<1>5. PICK m \in S : t = 0..m
  BY DEF T
<1>6. ASSUME NEW x \in S PROVE m <= x
  <2>1. 0..x \in T
    BY DEF T
  <2>2. ~(0..x \subseteq 0..m /\ 0..x # 0..m)
    <3>1. ~(<<0..x, 0..m>> \in R)
      BY <1>4, <1>5, <2>1
    <3>2. 0..x \in SUBSET Nat /\ 0..m \in SUBSET Nat
      OBVIOUS
    <3>. QED BY <3>1, <3>2, Zenon DEF R, StrictSubsetOrdering
  <2>3. CASE x < m
    <3>1. 0..x \subseteq 0..m
      BY <2>3
    <3>2. m \in 0..m /\ m \notin 0..x
      BY <2>3
    <3>. QED BY <3>1, <3>2, <2>2
  <2>. QED BY <2>3
<1>. QED BY <1>6

\* The last of a bounded set of positions.
LEMMA GreatestElement ==
  ASSUME NEW n \in Nat, NEW S \in SUBSET (0..n), S # {}
  PROVE  \E m \in S : \A x \in S : x <= m
<1>. DEFINE D == {n - x : x \in S}
<1>1. D \in SUBSET Nat
  BY \A x \in S : x \in Nat /\ x <= n /\ n - x \in Nat
<1>2. D # {}
  OBVIOUS
<1>. HIDE DEF D
<1>3. PICK d \in D : \A x \in D : d <= x
  BY <1>1, <1>2, LeastElement
<1>4. PICK m \in S : d = n - m
  BY DEF D
<1>5. \A x \in S : d <= n - x
  BY <1>3 DEF D
<1>6. \A x \in S : x <= m
  BY <1>4, <1>5
<1>. QED BY <1>6

-----------------------------------------------------------------------------
(* The pure functions keep to their types.                                 *)

LEMMA InitialType == Initial \in State
BY DataAssumption DEF Initial, State, Variables

LEMMA ApplyEffectsType ==
  ASSUME NEW v \in Variables, NEW effects \in Effects
  PROVE  ApplyEffects(v, effects) \in Variables
BY DataAssumption DEF ApplyEffects, Validate, Variables, Effects

\* An untouched key is left alone.
LEMMA ApplyEffectsUntouched ==
  ASSUME NEW v \in Variables, NEW effects \in Effects, NEW k \in Keys, effects[k] = None
  PROVE  ApplyEffects(v, effects)[k] = v[k]
BY DEF ApplyEffects

LEMMA OneKeyType ==
  ASSUME NEW k \in Keys, NEW v \in Vals
  PROVE  [j \in Keys |-> IF j = k THEN v ELSE None] \in Effects
BY DEF Effects

LEMMA MergeGameStatePatchType ==
  ASSUME NEW live \in State, NEW patch \in Effects
  PROVE  MergeGameStatePatch(live, patch) \in State
<1>1. ApplyEffects(live.vars, patch) \in Variables
  BY ApplyEffectsType DEF State
<1>. QED BY <1>1 DEF MergeGameStatePatch, State

LEMMA ReconcileTurnStateType ==
  ASSUME NEW live \in State, NEW base \in State, NEW out \in State
  PROVE  ReconcileTurnState(live, base, out) \in State
BY DEF ReconcileTurnState, State, Variables

LEMMA ReconcileRegenerationStateType ==
  ASSUME NEW live \in State, NEW base \in State, NEW out \in State
  PROVE  ReconcileRegenerationState(live, base, out) \in State
BY DEF ReconcileRegenerationState, ReconcileTurnState, State, Variables

LEMMA MessageGenerationStateType ==
  ASSUME NEW swipes \in Seq(Swipe)
  PROVE  MessageGenerationState(swipes) \in State \cup {None}
<1>1. CASE \A i \in DOMAIN swipes : swipes[i].base = None
  BY <1>1 DEF MessageGenerationState
<1>2. CASE \E i \in DOMAIN swipes : swipes[i].base # None
  <2>. DEFINE S == {i \in DOMAIN swipes : swipes[i].base # None}
  <2>1. S \in SUBSET Nat /\ S # {} /\ DOMAIN swipes = 1..Len(swipes)
    BY <1>2, LenProperties
  <2>2. PICK m \in S : \A x \in S : m <= x
    BY <2>1, LeastElement
  <2>3. \A j \in 1..(m - 1) : swipes[j].base = None
    <3>. SUFFICES ASSUME NEW j \in 1..(m - 1) PROVE swipes[j].base = None
      OBVIOUS
    <3>1. Len(swipes) \in Nat
      BY LenProperties
    <3>2. j \in DOMAIN swipes
      BY <2>1, <3>1
    <3>. QED BY <2>2, <2>1, <3>2
  <2>. DEFINE first == CHOOSE i \in DOMAIN swipes : /\ swipes[i].base # None
                                                   /\ \A j \in 1..(i - 1) : swipes[j].base = None
  <2>4. first \in DOMAIN swipes
    BY <2>3
  <2>5. swipes[first] \in Swipe
    BY <2>1, <2>4, ElementOfSeq
  <2>6. MessageGenerationState(swipes) = swipes[first].base
    BY <1>2 DEF MessageGenerationState
  <2>. HIDE DEF first
  <2>. QED BY <2>5, <2>6 DEF Swipe
<1>. QED BY <1>1, <1>2

LEMMA RegenerationStateType ==
  ASSUME NEW current \in State, NEW swipes \in Seq(Swipe), NEW active \in 1..Len(swipes)
  PROVE  RegenerationState(current, swipes, active) \in State
<1>1. swipes[active] \in Swipe
  BY ElementOfSeq
<1>2. MessageGenerationState(swipes) \in State \cup {None}
  BY MessageGenerationStateType
<1>3. swipes[active].snap \in State
  BY <1>1 DEF Swipe
<1>. DEFINE before == IF MessageGenerationState(swipes) = None THEN swipes[active].snap
                                                             ELSE MessageGenerationState(swipes)
<1>4. before \in State
  BY <1>2, <1>3
<1>. HIDE DEF before
<1>5. RegenerationState(current, swipes, active) =
        [vars    |-> before.vars,
         pending |-> IF current.pending = swipes[active].snap.pending THEN before.pending
                                                                      ELSE current.pending,
         fired   |-> before.fired,
         turn    |-> current.turn]
  BY Zenon DEF RegenerationState, before
<1>. QED BY <1>4, <1>5 DEF State

-----------------------------------------------------------------------------
(* The inductive invariant.                                                *)

Ids(log) == {log[i].id : i \in DOMAIN log}

\* Ids name one message each, say who wrote it, and every reply shows a swipe.
WellFormed(log) ==
  /\ log \in Seq(Message)
  /\ \A i \in DOMAIN log : log[i].id[2] = log[i].role
  /\ \A i \in DOMAIN log : log[i].role = "assistant" => log[i].active \in 1..Len(log[i].swipes)
  /\ \A i, j \in DOMAIN log : log[i].id = log[j].id => i = j

\* A request's rows and a new greeting do not exist before they are inserted.
FreshIds ==
  /\ \A id \in Ids(transcript) : id[1] \in Nat => id[1] <= session.gen
  /\ \A r \in Requests :
       /\ <<r, "user">> \in Ids(transcript) => req[r].pc \in {"rowed", "streaming", "done"}
       /\ <<r, "assistant">> \in Ids(transcript) => req[r].pc = "done"

\* While the generation a turn read is still the session's, what the turn read
\* of the transcript is still there.
Grounded(q) ==
  q.pc = "streaming" /\ q.gen = session.gen =>
    /\ q.basis \subseteq Words(transcript)
    /\ q.kind = "continue" =>
         \E i \in DOMAIN transcript : /\ transcript[i].id = q.target
                                      /\ transcript[i].active \in 1..Len(q.swipes)

Targeted(q) ==
  /\ q.kind = "regenerate" /\ q.pc \in {"targeted", "loaded", "streaming"} =>
       /\ q.target \in MessageIds /\ q.target[2] = "assistant"
       /\ q.active \in 1..Len(q.swipes)
  /\ q.kind = "continue" /\ q.pc = "streaming" =>
       q.target \in MessageIds /\ q.target[2] = "assistant"

TurnOK(q) == q.gen <= session.gen /\ Targeted(q) /\ Grounded(q)

IInv ==
  /\ TypeOK
  /\ WellFormed(transcript)
  /\ FreshIds
  /\ \A r \in Requests : TurnOK(req[r])

-----------------------------------------------------------------------------
(* What each change to the transcript keeps.                               *)

LEMMA MessagesOf ==
  ASSUME NEW log, WellFormed(log)
  PROVE  /\ Len(log) \in Nat /\ DOMAIN log = 1..Len(log)
         /\ \A i \in DOMAIN log : log[i] \in Message
BY LenProperties, ElementOfSeq DEF WellFormed

LEMMA AppendLog ==
  ASSUME NEW log, WellFormed(log), NEW m \in Message, m.id[2] = m.role,
         m.role = "assistant" => m.active \in 1..Len(m.swipes), m.id \notin Ids(log)
  PROVE  /\ WellFormed(Append(log, m))
         /\ Ids(Append(log, m)) = Ids(log) \cup {m.id}
         /\ Words(log) \subseteq Words(Append(log, m))
         /\ \A i \in DOMAIN log : i \in DOMAIN Append(log, m) /\ Append(log, m)[i] = log[i]
<1>. DEFINE new == Append(log, m)
<1>1. /\ Len(log) \in Nat /\ DOMAIN log = 1..Len(log)
      /\ \A i \in DOMAIN log : log[i] \in Message
  BY MessagesOf
<1>2. /\ new \in Seq(Message)
      /\ Len(new) = Len(log) + 1
      /\ \A i \in 1..Len(log) : new[i] = log[i]
      /\ new[Len(log) + 1] = m
  BY <1>1, AppendProperties DEF WellFormed
<1>3. DOMAIN new = 1..(Len(log) + 1)
  BY <1>2, LenProperties
<1>. HIDE DEF new
<1>4. \A i \in DOMAIN new : (i \in DOMAIN log /\ new[i] = log[i]) \/ (i = Len(log) + 1 /\ new[i] = m)
  <2>. SUFFICES ASSUME NEW i \in DOMAIN new
                PROVE  (i \in DOMAIN log /\ new[i] = log[i]) \/ (i = Len(log) + 1 /\ new[i] = m)
    OBVIOUS
  <2>1. CASE i = Len(log) + 1
    BY <1>2, <2>1
  <2>2. CASE i # Len(log) + 1
    <3>1. i \in 1..Len(log)
      BY <1>1, <1>3, <2>2
    <3>. QED BY <1>1, <1>2, <3>1
  <2>. QED BY <2>1, <2>2
<1>5. \A i \in DOMAIN log : i \in DOMAIN new /\ new[i] = log[i]
  BY <1>1, <1>2, <1>3
<1>6. Len(log) + 1 \in DOMAIN new
  BY <1>1, <1>3
<1>7. Ids(new) = Ids(log) \cup {m.id}
  BY <1>2, <1>4, <1>5, <1>6 DEF Ids
<1>8. Words(log) \subseteq Words(new)
  BY <1>5 DEF Words
<1>9. WellFormed(new)
  <2>1. \A i \in DOMAIN new : new[i].id[2] = new[i].role
    BY <1>4 DEF WellFormed
  <2>2. \A i \in DOMAIN new : new[i].role = "assistant" => new[i].active \in 1..Len(new[i].swipes)
    BY <1>4 DEF WellFormed
  <2>3. \A i, j \in DOMAIN new : new[i].id = new[j].id => i = j
    BY <1>4 DEF WellFormed, Ids
  <2>. QED BY <1>2, <2>1, <2>2, <2>3 DEF WellFormed
<1>. QED BY <1>5, <1>7, <1>8, <1>9 DEF new

\* A log whose messages are messages of a well-formed one, each at most once.
LEMMA SelectedLog ==
  ASSUME NEW log, WellFormed(log), NEW new \in Seq(Message), NEW f,
         \A i \in DOMAIN new : f[i] \in DOMAIN log /\ new[i] = log[f[i]],
         \A i, j \in DOMAIN new : f[i] = f[j] => i = j
  PROVE  WellFormed(new) /\ Ids(new) \subseteq Ids(log)
<1>1. Ids(new) \subseteq Ids(log)
  BY DEF Ids
<1>2. \A i \in DOMAIN new : new[i].id[2] = new[i].role
  BY DEF WellFormed
<1>3. \A i \in DOMAIN new : new[i].role = "assistant" => new[i].active \in 1..Len(new[i].swipes)
  BY DEF WellFormed
<1>4. \A i, j \in DOMAIN new : new[i].id = new[j].id => i = j
  <2>1. \A i, j \in DOMAIN log : log[i].id = log[j].id => i = j
    BY DEF WellFormed
  <2>2. \A i \in DOMAIN new : new[i].id = log[f[i]].id
    OBVIOUS
  <2>3. \A i, j \in DOMAIN new : new[i].id = new[j].id => f[i] = f[j]
    BY <2>1, <2>2
  <2>. QED BY <2>3
<1>. QED BY <1>1, <1>2, <1>3, <1>4 DEF WellFormed

LEMMA PrefixLog ==
  ASSUME NEW log, WellFormed(log), NEW n \in 0..Len(log)
  PROVE  WellFormed(SubSeq(log, 1, n)) /\ Ids(SubSeq(log, 1, n)) \subseteq Ids(log)
<1>. DEFINE new == SubSeq(log, 1, n)
            f   == [i \in 1..n |-> i]
<1>1. /\ Len(log) \in Nat /\ DOMAIN log = 1..Len(log)
      /\ \A i \in DOMAIN log : log[i] \in Message
  BY MessagesOf
<1>2. /\ new \in Seq(Message)
      /\ Len(new) = n
      /\ \A i \in 1..n : new[i] = log[i]
  BY <1>1, SubSeqProperties
<1>3. DOMAIN new = 1..n
  BY <1>2, LenProperties
<1>4. \A i \in DOMAIN new : f[i] \in DOMAIN log /\ new[i] = log[f[i]]
  BY <1>1, <1>2, <1>3
<1>5. \A i, j \in DOMAIN new : f[i] = f[j] => i = j
  BY <1>3
<1>. HIDE DEF new, f
<1>. QED BY <1>2, <1>4, <1>5, SelectedLog DEF new

LEMMA RemoveLog ==
  ASSUME NEW log, WellFormed(log), NEW at \in DOMAIN log
  PROVE  WellFormed(Remove(log, at)) /\ Ids(Remove(log, at)) \subseteq Ids(log)
<1>. DEFINE new == Remove(log, at)
            f   == [i \in 1..(Len(log) - 1) |-> IF i < at THEN i ELSE i + 1]
            a   == SubSeq(log, 1, at - 1)
            b   == SubSeq(log, at + 1, Len(log))
<1>1. /\ Len(log) \in Nat /\ DOMAIN log = 1..Len(log)
      /\ \A i \in DOMAIN log : log[i] \in Message
  BY MessagesOf
<1>2. /\ a \in Seq(Message) /\ Len(a) = at - 1
      /\ \A i \in 1..(at - 1) : a[i] = log[i]
  BY <1>1, SubSeqProperties
<1>3. /\ b \in Seq(Message) /\ Len(b) = Len(log) - at
      /\ \A i \in 1..(Len(log) - at) : b[i] = log[at + i]
  <2>1. \A i \in (at + 1)..Len(log) : log[i] \in Message
    BY <1>1
  <2>. QED BY <1>1, <2>1, SubSeqProperties
<1>. HIDE DEF a, b
<1>4. /\ new \in Seq(Message) /\ Len(new) = Len(log) - 1
      /\ \A i \in 1..(Len(log) - 1) : new[i] = IF i <= at - 1 THEN a[i] ELSE b[i - (at - 1)]
  <2>1. new = a \o b
    BY DEF Remove, a, b
  <2>2. Len(a) + Len(b) = Len(log) - 1
    BY <1>1, <1>2, <1>3
  <2>3. /\ a \o b \in Seq(Message) /\ Len(a \o b) = Len(a) + Len(b)
        /\ \A i \in 1..(Len(a) + Len(b)) : (a \o b)[i] = IF i <= Len(a) THEN a[i] ELSE b[i - Len(a)]
    BY <1>2, <1>3, ConcatProperties
  <2>. QED BY <1>2, <2>1, <2>2, <2>3
<1>5. DOMAIN new = 1..(Len(log) - 1)
  BY <1>4, LenProperties
<1>. HIDE DEF new
<1>6. ASSUME NEW i \in DOMAIN new PROVE f[i] \in DOMAIN log /\ new[i] = log[f[i]]
  <2>1. CASE i < at
    <3>1. /\ i \in 1..(at - 1) /\ i \in 1..Len(log) /\ i \in 1..(Len(log) - 1)
          /\ i <= at - 1 /\ f[i] = i
      BY <1>1, <1>5, <2>1
    <3>2. new[i] = a[i]
      BY <1>4, <3>1
    <3>. QED BY <1>1, <1>2, <3>1, <3>2
  <2>2. CASE ~(i < at)
    <3>1. /\ i - (at - 1) \in 1..(Len(log) - at) /\ at + (i - (at - 1)) = i + 1
          /\ ~(i <= at - 1) /\ f[i] = i + 1
      BY <1>1, <1>5, <2>2
    <3>2. new[i] = b[i - (at - 1)]
      BY <1>4, <1>5, <3>1
    <3>. QED BY <1>1, <1>3, <1>5, <3>1, <3>2
  <2>. QED BY <2>1, <2>2
<1>7. \A i, j \in DOMAIN new : f[i] = f[j] => i = j
  BY <1>1, <1>5
<1>. HIDE DEF f
<1>. QED BY <1>4, <1>6, <1>7, SelectedLog DEF new

\* A log that differs only in what its messages show.
LEMMA RewordedLog ==
  ASSUME NEW log, WellFormed(log), NEW new \in Seq(Message), DOMAIN new = DOMAIN log,
         \A i \in DOMAIN log : new[i].id = log[i].id /\ new[i].role = log[i].role,
         \A i \in DOMAIN log : new[i].role = "assistant" => new[i].active \in 1..Len(new[i].swipes)
  PROVE  WellFormed(new) /\ Ids(new) = Ids(log)
BY DEF WellFormed, Ids

LEMMA EditLog ==
  ASSUME NEW log, WellFormed(log), NEW at \in DOMAIN log, NEW gen \in Nat
  PROVE  /\ WellFormed([log EXCEPT ![at].text = gen])
         /\ Ids([log EXCEPT ![at].text = gen]) = Ids(log)
<1>. DEFINE m == [log[at] EXCEPT !.text = gen]
            new == [log EXCEPT ![at] = m]
<1>1. /\ Len(log) \in Nat /\ DOMAIN log = 1..Len(log)
      /\ \A i \in DOMAIN log : log[i] \in Message
  BY MessagesOf
<1>2. m \in Message /\ m.id = log[at].id /\ m.role = log[at].role
      /\ m.active = log[at].active /\ m.swipes = log[at].swipes
  BY <1>1 DEF Message
<1>. HIDE DEF m
<1>3. /\ new \in Seq(Message)
      /\ \A j \in 1..Len(log) : new[j] = IF j = at THEN m ELSE log[j]
  BY <1>1, <1>2, ExceptSeq DEF WellFormed
<1>4. DOMAIN new = DOMAIN log
  OBVIOUS
<1>. HIDE DEF new
<1>5. \A i \in DOMAIN log : new[i].id = log[i].id /\ new[i].role = log[i].role
                            /\ new[i].active = log[i].active /\ new[i].swipes = log[i].swipes
  BY <1>1, <1>2, <1>3
<1>6. \A i \in DOMAIN log : new[i].role = "assistant" => new[i].active \in 1..Len(new[i].swipes)
  BY <1>5 DEF WellFormed
<1>7. WellFormed(new) /\ Ids(new) = Ids(log)
  BY <1>3, <1>4, <1>5, <1>6, RewordedLog
<1>. QED BY <1>7 DEF new, m

LEMMA SetSwipesLog ==
  ASSUME NEW log, WellFormed(log), NEW id, id[2] = "assistant", NEW gen \in Nat,
         NEW swipes \in Seq(Swipe), NEW active \in 1..Len(swipes)
  PROVE  /\ WellFormed(SetSwipes(log, id, gen, swipes, active))
         /\ Ids(SetSwipes(log, id, gen, swipes, active)) = Ids(log)
<1>. DEFINE new == SetSwipes(log, id, gen, swipes, active)
<1>1. /\ Len(log) \in Nat /\ DOMAIN log = 1..Len(log)
      /\ \A i \in DOMAIN log : log[i] \in Message
  BY MessagesOf
<1>2. DOMAIN new = DOMAIN log
  BY DEF SetSwipes
<1>a. active \in Nat
  BY LenProperties
<1>3. \A i \in DOMAIN log :
        new[i] \in Message /\ new[i].id = log[i].id /\ new[i].role = log[i].role
          /\ (log[i].id = id => new[i].swipes = swipes /\ new[i].active = active)
          /\ (log[i].id # id => new[i] = log[i])
  BY <1>1, <1>a DEF SetSwipes, Message
<1>4. new \in Seq(Message)
  <2>1. new \in [1..Len(log) -> Message]
    BY <1>1, <1>3 DEF SetSwipes
  <2>. QED BY <1>1, <2>1
<1>. HIDE DEF new
<1>5. \A i \in DOMAIN log : new[i].role = "assistant" => new[i].active \in 1..Len(new[i].swipes)
  BY <1>3 DEF WellFormed
<1>. QED BY <1>2, <1>3, <1>4, <1>5, RewordedLog DEF new

LEMMA GreetingLog ==
  ASSUME NEW id \in MessageIds, id[2] = "assistant", NEW gen \in Nat
  PROVE  WellFormed(<<Greeting(id, gen)>>) /\ Ids(<<Greeting(id, gen)>>) = {id}
<1>1. <<[snap |-> Initial, base |-> None]>> \in Seq(Swipe)
  BY InitialType DEF Swipe
<1>2. Greeting(id, gen) \in Message
  BY <1>1 DEF Greeting, Reply, Message
<1>3. <<Greeting(id, gen)>> \in Seq(Message) /\ DOMAIN <<Greeting(id, gen)>> = {1}
  BY <1>2
<1>. QED BY <1>3 DEF WellFormed, Ids, Greeting, Reply

-----------------------------------------------------------------------------
(* The four kinds of step: a request reads, the interface writes the row,  *)
(* a request adds a message, the generation is rotated.                    *)

GhostTypes ==
  /\ acked \in [Keys -> Vals \cup {None}] /\ queued \subseteq Contexts
  /\ dirty \subseteq Keys /\ aligned \in BOOLEAN

LEMMA DoneType ==
  ASSUME IInv, NEW r \in Requests
  PROVE  Done(r) \in Turn /\ Done(r).pc = "done" /\ Done(r).gen = 0
<1>1. Idle \in Turn
  BY InitialType DEF Idle, Turn, Stages
<1>2. req[r].kind \in {"send", "regenerate", "continue"}
  BY DEF IInv, TypeOK, Turn
<1>. QED BY <1>1, <1>2 DEF Done, Idle, Turn, Stages

LEMMA LocalStep ==
  ASSUME IInv, NEW r \in Requests, NEW q \in Turn, TurnOK(q),
         UNCHANGED <<session, transcript, ghosts>>,
         req' = [req EXCEPT ![r] = q],
         req[r].pc # "done",
         req[r].pc \in {"rowed", "streaming"} => q.pc \in {"rowed", "streaming", "done"}
  PROVE  IInv'
<1>1. TypeOK'
  BY DEF IInv, TypeOK, ghosts
<1>2. WellFormed(transcript)'
  BY DEF IInv, WellFormed
<1>3. FreshIds'
  BY DEF IInv, TypeOK, FreshIds, Ids
<1>4. ASSUME NEW s \in Requests PROVE TurnOK(req[s])'
  <2>1. TurnOK(req'[s])
    BY DEF IInv, TypeOK
  <2>. QED BY <2>1 DEF TurnOK, Targeted, Grounded, Words
<1>. QED BY <1>1, <1>2, <1>3, <1>4 DEF IInv

LEMMA RowStep ==
  ASSUME IInv, UNCHANGED <<transcript, req>>, NEW new \in State,
         session' = [session EXCEPT !.state = new], GhostTypes'
  PROVE  IInv'
<1>1. session' \in [state : State, gen : Nat] /\ session'.gen = session.gen
  BY DEF IInv, TypeOK
<1>2. TypeOK'
  BY <1>1 DEF IInv, TypeOK, GhostTypes
<1>3. WellFormed(transcript)' /\ FreshIds'
  BY <1>1 DEF IInv, WellFormed, FreshIds, Ids
<1>4. ASSUME NEW s \in Requests PROVE TurnOK(req[s])'
  BY <1>1 DEF IInv, TurnOK, Targeted, Grounded, Words
<1>. QED BY <1>2, <1>3, <1>4 DEF IInv

LEMMA AppendStep ==
  ASSUME IInv, NEW r \in Requests, NEW q \in Turn, NEW m \in Message, GhostTypes',
         session' \in [state : State, gen : Nat], session'.gen = session.gen,
         m.id = <<r, m.role>>, m.id \notin Ids(transcript),
         m.role = "assistant" => m.active \in 1..Len(m.swipes) /\ q.pc = "done",
         transcript' = Append(transcript, m),
         req' = [req EXCEPT ![r] = q],
         req[r].pc # "done", q.pc \in {"rowed", "done"}, q.gen <= session.gen
  PROVE  IInv'
<1>1. /\ WellFormed(transcript')
      /\ Ids(transcript') = Ids(transcript) \cup {m.id}
      /\ Words(transcript) \subseteq Words(transcript')
      /\ \A i \in DOMAIN transcript :
           i \in DOMAIN transcript' /\ transcript'[i] = transcript[i]
  <2>1. WellFormed(transcript) /\ m.id[2] = m.role
    BY DEF IInv
  <2>2. m.role = "assistant" => m.active \in 1..Len(m.swipes)
    OBVIOUS
  <2>3. /\ WellFormed(Append(transcript, m))
        /\ Ids(Append(transcript, m)) = Ids(transcript) \cup {m.id}
        /\ Words(transcript) \subseteq Words(Append(transcript, m))
        /\ \A i \in DOMAIN transcript : i \in DOMAIN Append(transcript, m)
                                       /\ Append(transcript, m)[i] = transcript[i]
    BY <2>1, <2>2, AppendLog, Zenon
  <2>. QED BY <2>3
<1>2. TypeOK'
  BY <1>1 DEF IInv, TypeOK, GhostTypes, WellFormed
<1>3. FreshIds'
  <2>1. \A id \in Ids(transcript') : id[1] \in Nat => id[1] <= session'.gen
    BY <1>1, DataAssumption DEF IInv, FreshIds
  <2>2. ASSUME NEW s \in Requests
        PROVE  /\ <<s, "user">> \in Ids(transcript')
                    => req'[s].pc \in {"rowed", "streaming", "done"}
               /\ <<s, "assistant">> \in Ids(transcript') => req'[s].pc = "done"
    <3>1. CASE s = r
      BY <1>1, <3>1 DEF IInv, FreshIds, TypeOK
    <3>2. CASE s # r
      BY <1>1, <3>2 DEF IInv, FreshIds, TypeOK
    <3>. QED BY <3>1, <3>2
  <2>. QED BY <2>1, <2>2 DEF FreshIds, Ids
<1>4. ASSUME NEW s \in Requests PROVE TurnOK(req[s])'
  <2>1. CASE s = r
    <3>1. req'[s] = q
      BY <2>1 DEF IInv, TypeOK
    <3>. QED BY <3>1 DEF TurnOK, Targeted, Grounded
  <2>2. CASE s # r
    <3>1. req'[s] = req[s] /\ TurnOK(req[s])
      BY <2>2 DEF IInv, TypeOK
    <3>2. Targeted(req[s])'
      BY <3>1 DEF TurnOK, Targeted
    <3>3. Grounded(req[s])'
      BY <1>1, <3>1 DEF TurnOK, Grounded
    <3>. QED BY <3>1, <3>2, <3>3 DEF TurnOK
  <2>. QED BY <2>1, <2>2
<1>. QED BY <1>1, <1>2, <1>3, <1>4 DEF IInv

LEMMA RotateStep ==
  ASSUME IInv, GhostTypes',
         session' \in [state : State, gen : Nat], session'.gen = session.gen + 1,
         WellFormed(transcript'),
         \A id \in Ids(transcript') : \/ id \in Ids(transcript)
                                      \/ id = <<session.gen + 1, "assistant">>,
         req' \in [Requests -> Turn],
         \A s \in Requests : req'[s] = req[s] \/ req'[s] = Done(s)
  PROVE  IInv'
<1>1. session.gen \in Nat
  BY DEF IInv, TypeOK
<1>2. TypeOK'
  BY DEF IInv, TypeOK, GhostTypes, WellFormed
<1>3. FreshIds'
  <2>1. \A id \in Ids(transcript') : id[1] \in Nat => id[1] <= session'.gen
    BY <1>1 DEF IInv, FreshIds
  <2>2. ASSUME NEW s \in Requests
        PROVE  /\ <<s, "user">> \in Ids(transcript')
                    => req'[s].pc \in {"rowed", "streaming", "done"}
               /\ <<s, "assistant">> \in Ids(transcript') => req'[s].pc = "done"
    <3>1. s # session.gen + 1
      BY <1>1, DataAssumption
    <3>2. \A role : <<s, role>> \in Ids(transcript') => <<s, role>> \in Ids(transcript)
      BY <3>1
    <3>. QED BY <3>2, DoneType DEF IInv, FreshIds
  <2>. QED BY <2>1, <2>2 DEF FreshIds, Ids
<1>4. ASSUME NEW s \in Requests PROVE TurnOK(req[s])'
  <2>1. CASE req'[s] = Done(s)
    BY <1>1, <2>1, DoneType DEF TurnOK, Targeted, Grounded
  <2>2. CASE req'[s] = req[s]
    <3>1. TurnOK(req[s]) /\ req[s].gen \in Nat
      BY DEF IInv, TypeOK, Turn
    <3>. QED BY <1>1, <2>2, <3>1 DEF TurnOK, Targeted, Grounded
  <2>. QED BY <2>1, <2>2
<1>. QED BY <1>2, <1>3, <1>4 DEF IInv

-----------------------------------------------------------------------------
(* Every step keeps the invariant: the requests' reads.                    *)

LEMMA TurnFields ==
  ASSUME IInv, NEW r \in Requests
  PROVE  /\ req[r] \in Turn /\ TurnOK(req[r]) /\ req[r].gen \in Nat
         /\ req[r].base \in State /\ req[r].start \in State /\ req[r].swipes \in Seq(Swipe)
         /\ session.state \in State /\ session.gen \in Nat
         /\ transcript \in Seq(Message)
BY DEF IInv, TypeOK, Turn

LEMMA SessionFields ==
  ASSUME IInv
  PROVE  /\ session.state \in State /\ session.gen \in Nat
         /\ transcript \in Seq(Message)
BY DEF IInv, TypeOK

LEMMA WordsType ==
  ASSUME IInv
  PROVE  /\ Words(transcript) \subseteq MessageIds \X Nat
         /\ Ids(transcript) \subseteq MessageIds
<1>1. \A i \in DOMAIN transcript : transcript[i] \in Message
  BY MessagesOf DEF IInv
<1>. QED BY <1>1 DEF Words, Ids, Message

LEMMA SendLoadStep ==
  ASSUME IInv, NEW r \in Requests, SendLoad(r)
  PROVE  IInv'
<1>. DEFINE q == [req[r] EXCEPT !.kind = "send", !.pc = "loaded",
                                !.base = session.state, !.gen = session.gen]
<1>1. q \in Turn /\ q.kind = "send" /\ q.pc = "loaded" /\ q.gen = session.gen
  BY TurnFields DEF Turn, Stages
<1>2. req' = [req EXCEPT ![r] = q]
  BY DEF SendLoad
<1>. HIDE DEF q
<1>3. TurnOK(q)
  BY <1>1, TurnFields DEF TurnOK, Targeted, Grounded
<1>. QED BY <1>1, <1>2, <1>3, LocalStep DEF SendLoad

LEMMA SendReuseUserRowStep ==
  ASSUME IInv, NEW r \in Requests, SendReuseUserRow(r)
  PROVE  IInv'
<1>. DEFINE q == [req[r] EXCEPT !.pc = "rowed", !.target = Last(transcript).id]
<1>1. Last(transcript) \in Message
  <2>1. Len(transcript) \in 1..Len(transcript)
    BY TurnFields, EmptySeq DEF SendReuseUserRow
  <2>. QED BY <2>1, TurnFields, ElementOfSeq DEF Last
<1>2. q \in Turn /\ q.kind = "send" /\ q.pc = "rowed" /\ q.gen = req[r].gen
  <2>1. Last(transcript).id \in MessageIds \cup {None} /\ "rowed" \in Stages
    BY <1>1 DEF Message, Stages
  <2>2. req[r] \in Turn /\ req[r].kind = "send"
    BY TurnFields DEF SendReuseUserRow
  <2>. QED BY <2>1, <2>2 DEF Turn
<1>3. req' = [req EXCEPT ![r] = q]
  BY DEF SendReuseUserRow
<1>. HIDE DEF q
<1>4. TurnOK(q)
  BY <1>2, TurnFields DEF TurnOK, Targeted, Grounded
<1>. QED BY <1>2, <1>3, <1>4, LocalStep DEF SendReuseUserRow

LEMMA SendReadHistoryStep ==
  ASSUME IInv, NEW r \in Requests, SendReadHistory(r)
  PROVE  IInv'
<1>. DEFINE q == [req[r] EXCEPT !.pc = "streaming", !.start = req[r].base,
                                !.basis = Words(transcript)]
<1>1. q \in Turn /\ q.kind = "send" /\ q.pc = "streaming" /\ q.gen = req[r].gen
      /\ q.basis = Words(transcript)
  BY TurnFields, WordsType DEF Turn, Stages, SendReadHistory
<1>2. req' = [req EXCEPT ![r] = q]
  BY DEF SendReadHistory
<1>. HIDE DEF q
<1>3. TurnOK(q)
  BY <1>1, TurnFields DEF TurnOK, Targeted, Grounded
<1>. QED BY <1>1, <1>2, <1>3, LocalStep DEF SendReadHistory

LEMMA RegenerateReadMessageStep ==
  ASSUME IInv, NEW r \in Requests, RegenerateReadMessage(r)
  PROVE  IInv'
<1>. DEFINE m == Last(transcript)
            q == [req[r] EXCEPT !.kind = "regenerate", !.pc = "targeted", !.target = m.id,
                                !.swipes = m.swipes, !.active = m.active]
<1>1. m \in Message /\ m.id[2] = "assistant" /\ m.active \in 1..Len(m.swipes)
  <2>1. Len(transcript) \in 1..Len(transcript) /\ DOMAIN transcript = 1..Len(transcript)
    BY TurnFields, EmptySeq, LenProperties DEF RegenerateReadMessage
  <2>. QED BY <2>1, TurnFields, ElementOfSeq DEF Last, RegenerateReadMessage, IInv, WellFormed
<1>2. req' = [req EXCEPT ![r] = q]
  BY DEF RegenerateReadMessage
<1>. HIDE DEF m
<1>3. q \in Turn /\ q.kind = "regenerate" /\ q.pc = "targeted" /\ q.gen = req[r].gen
      /\ q.target = m.id /\ q.swipes = m.swipes /\ q.active = m.active
  <2>1. m.id \in MessageIds \cup {None} /\ m.swipes \in Seq(Swipe) /\ m.active \in Nat
    BY <1>1 DEF Message
  <2>2. req[r] \in Turn /\ "targeted" \in Stages
    BY TurnFields DEF Stages
  <2>. QED BY <2>1, <2>2 DEF Turn
<1>. HIDE DEF q
<1>4. TurnOK(q)
  BY <1>1, <1>3, TurnFields DEF TurnOK, Targeted, Grounded, Message
<1>. QED BY <1>2, <1>3, <1>4, LocalStep DEF RegenerateReadMessage

LEMMA RegenerateLoadStep ==
  ASSUME IInv, NEW r \in Requests, RegenerateLoad(r)
  PROVE  IInv'
<1>. DEFINE from == RegenerationState(session.state, req[r].swipes, req[r].active)
            q == [req[r] EXCEPT !.pc = "loaded", !.base = session.state,
                                !.gen = session.gen, !.start = from]
<1>1. Targeted(req[r]) /\ req[r].kind = "regenerate" /\ req[r].pc = "targeted"
  BY TurnFields DEF TurnOK, RegenerateLoad
<1>2. from \in State
  BY <1>1, TurnFields, RegenerationStateType DEF Targeted
<1>3. req' = [req EXCEPT ![r] = q]
  BY DEF RegenerateLoad
<1>. HIDE DEF from
<1>4. q \in Turn /\ q.kind = "regenerate" /\ q.pc = "loaded" /\ q.gen = session.gen
      /\ q.target = req[r].target /\ q.swipes = req[r].swipes /\ q.active = req[r].active
  BY <1>1, <1>2, TurnFields DEF Turn, Stages
<1>. HIDE DEF q
<1>5. TurnOK(q)
  BY <1>1, <1>4, TurnFields DEF TurnOK, Targeted, Grounded
<1>. QED BY <1>3, <1>4, <1>5, LocalStep DEF RegenerateLoad

LEMMA RegenerateReadHistoryStep ==
  ASSUME IInv, NEW r \in Requests, RegenerateReadHistory(r)
  PROVE  IInv'
<1>. DEFINE before == {<<transcript[i].id, transcript[i].text>> : i \in {j \in DOMAIN transcript :
                         \A t \in DOMAIN transcript : transcript[t].id = req[r].target => j < t}}
            q == [req[r] EXCEPT !.pc = "streaming", !.basis = before]
<1>1. Targeted(req[r]) /\ req[r].kind = "regenerate" /\ req[r].pc = "loaded"
  BY TurnFields DEF TurnOK, RegenerateReadHistory
<1>2. before \subseteq Words(transcript)
  BY DEF Words
<1>3. req' = [req EXCEPT ![r] = q]
  BY DEF RegenerateReadHistory
<1>. HIDE DEF before
<1>4. q \in Turn /\ q.kind = "regenerate" /\ q.pc = "streaming" /\ q.gen = req[r].gen
      /\ q.basis = before
      /\ q.target = req[r].target /\ q.swipes = req[r].swipes /\ q.active = req[r].active
  BY <1>1, <1>2, TurnFields, WordsType DEF Turn, Stages
<1>. HIDE DEF q
<1>5. TurnOK(q)
  BY <1>1, <1>2, <1>4, TurnFields DEF TurnOK, Targeted, Grounded
<1>. QED BY <1>1, <1>3, <1>4, <1>5, LocalStep DEF RegenerateReadHistory

LEMMA ContinueLoadStep ==
  ASSUME IInv, NEW r \in Requests, ContinueLoad(r)
  PROVE  IInv'
<1>. DEFINE q == [req[r] EXCEPT !.kind = "continue", !.pc = "loaded",
                                !.base = session.state, !.gen = session.gen]
<1>1. q \in Turn /\ q.kind = "continue" /\ q.pc = "loaded" /\ q.gen = session.gen
  BY TurnFields DEF Turn, Stages
<1>2. req' = [req EXCEPT ![r] = q]
  BY DEF ContinueLoad
<1>. HIDE DEF q
<1>3. TurnOK(q)
  BY <1>1, TurnFields DEF TurnOK, Targeted, Grounded
<1>. QED BY <1>1, <1>2, <1>3, LocalStep DEF ContinueLoad

\* A transcript with a reply has a last one.
LEMMA LastReplyType ==
  ASSUME NEW log, WellFormed(log), Replies(log) # {}
  PROVE  LastReply(log) \in Replies(log)
<1>1. Len(log) \in Nat /\ DOMAIN log = 1..Len(log)
  BY MessagesOf
<1>2. Replies(log) \in SUBSET (0..Len(log))
  BY <1>1 DEF Replies
<1>3. \E m \in Replies(log) : \A x \in Replies(log) : x <= m
  BY <1>1, <1>2, GreatestElement
<1>. QED BY <1>3 DEF LastReply

LEMMA ContinueReadHistoryStep ==
  ASSUME IInv, NEW r \in Requests, ContinueReadHistory(r)
  PROVE  IInv'
<1>. DEFINE at == LastReply(transcript)
            m  == transcript[at]
            q  == [req[r] EXCEPT !.pc = "streaming", !.target = m.id, !.swipes = m.swipes,
                                 !.basis = Words(transcript)]
<1>1. at \in DOMAIN transcript /\ m \in Message /\ m.id[2] = "assistant"
      /\ m.active \in 1..Len(m.swipes)
  <2>1. at \in Replies(transcript)
    BY LastReplyType DEF IInv, ContinueReadHistory
  <2>. QED BY <2>1, MessagesOf DEF Replies, IInv, WellFormed
<1>2. req' = [req EXCEPT ![r] = q]
  BY DEF ContinueReadHistory
<1>3. req[r].kind = "continue" /\ req[r].pc = "loaded"
  BY DEF ContinueReadHistory
<1>4. \E i \in DOMAIN transcript : transcript[i].id = m.id
                                 /\ transcript[i].active \in 1..Len(m.swipes)
  BY <1>1
<1>. HIDE DEF m, at
<1>5. q \in Turn /\ q.kind = "continue" /\ q.pc = "streaming" /\ q.gen = req[r].gen
      /\ q.basis = Words(transcript) /\ q.target = m.id /\ q.swipes = m.swipes
  <2>1. m.id \in MessageIds \cup {None} /\ m.swipes \in Seq(Swipe) /\ m.active \in Nat
    BY <1>1 DEF Message
  <2>2. req[r] \in Turn /\ "streaming" \in Stages /\ req[r].base \in State
    BY TurnFields DEF Stages
  <2>3. Words(transcript) \in SUBSET (MessageIds \X Nat)
    BY WordsType
  <2>. QED BY <1>3, <2>1, <2>2, <2>3 DEF Turn
<1>. HIDE DEF q
<1>6. TurnOK(q)
  BY <1>1, <1>4, <1>5, TurnFields DEF TurnOK, Targeted, Grounded, Message
<1>. QED BY <1>2, <1>3, <1>5, <1>6, LocalStep DEF ContinueReadHistory

LEMMA GiveUpStep ==
  ASSUME IInv, NEW r \in Requests, GiveUp(r)
  PROVE  IInv'
<1>1. Done(r) \in Turn /\ Done(r).pc = "done" /\ Done(r).gen = 0
  BY DoneType
<1>2. TurnOK(Done(r))
  BY <1>1, TurnFields DEF TurnOK, Targeted, Grounded
<1>. QED BY <1>1, <1>2, LocalStep DEF GiveUp

-----------------------------------------------------------------------------
(* ... the rows and the commits,                                           *)

LEMMA SendInsertUserRowStep ==
  ASSUME IInv, NEW r \in Requests, SendInsertUserRow(r)
  PROVE  IInv'
<1>. DEFINE m == UserRow(r, session.gen)
            q == [req[r] EXCEPT !.pc = "rowed", !.target = <<r, "user">>]
<1>1. m \in Message /\ m.id = <<r, m.role>> /\ m.role = "user"
  BY TurnFields, EmptySeq DEF UserRow, Message, MessageIds
<1>2. m.id \notin Ids(transcript)
  BY <1>1 DEF IInv, FreshIds, SendInsertUserRow
<1>3. q \in Turn /\ q.pc = "rowed" /\ q.gen = req[r].gen
  <2>1. <<r, "user">> \in MessageIds /\ "rowed" \in Stages
    BY DEF Stages, MessageIds
  <2>2. req[r] \in Turn
    BY TurnFields
  <2>. HIDE DEF m
  <2>. QED BY <2>1, <2>2 DEF Turn
<1>4. req' = [req EXCEPT ![r] = q] /\ transcript' = Append(transcript, m)
  BY DEF SendInsertUserRow
<1>5. /\ GhostTypes' /\ session' \in [state : State, gen : Nat]
      /\ session'.gen = session.gen
  BY DEF IInv, TypeOK, GhostTypes, SendInsertUserRow, ghosts
<1>6. req[r].pc # "done" /\ req[r].gen <= session.gen
  BY TurnFields DEF TurnOK, SendInsertUserRow
<1>. HIDE DEF m, q
<1>. QED BY <1>1, <1>2, <1>3, <1>4, <1>5, <1>6, AppendStep

\* What a turn makes of the state it started from.
LEMMA OutcomeType ==
  ASSUME NEW start \in State, NEW effects \in Effects, NEW added \in SUBSET Contexts,
         NEW firing \in SUBSET Rules, NEW turn \in Nat
  PROVE  [vars    |-> ApplyEffects(start.vars, effects),
          pending |-> added,
          fired   |-> start.fired \cup firing,
          turn    |-> turn] \in State
<1>1. ApplyEffects(start.vars, effects) \in Variables
  BY ApplyEffectsType DEF State
<1>. QED BY <1>1 DEF State

LEMMA SendCommitStep ==
  ASSUME IInv, NEW r \in Requests, NEW effects \in Effects, NEW added \in SUBSET Contexts,
         NEW firing \in SUBSET Rules, SendCommit(r, effects, added, firing)
  PROVE  IInv'
<1>. DEFINE base == req[r].base
            out  == [vars    |-> ApplyEffects(base.vars, effects),
                     pending |-> added,
                     fired   |-> base.fired \cup firing,
                     turn    |-> base.turn + 1]
            new  == ReconcileTurnState(session.state, base, out)
            swipe == [snap |-> new, base |-> req[r].start]
            m    == Reply(<<r, "assistant">>, session.gen, swipe)
<1>1. base \in State /\ out \in State
  <2>1. base.turn + 1 \in Nat
    BY TurnFields DEF State
  <2>. QED BY <2>1, TurnFields, OutcomeType
<1>2. new \in State
  BY <1>1, TurnFields, ReconcileTurnStateType
<1>3. /\ session' = [session EXCEPT !.state = new]
      /\ transcript' = Append(transcript, m)
      /\ req' = [req EXCEPT ![r] = Done(r)]
      /\ req[r].pc = "streaming"
      /\ acked' = [k \in Keys |-> IF k \in Wrote(base, out) THEN None ELSE acked[k]]
      /\ queued' = (queued \ base.pending) \cup added
      /\ dirty' = {} /\ aligned' = TRUE
  BY DEF SendCommit
<1>. HIDE DEF out, new
<1>4. swipe \in Swipe
  BY <1>2, TurnFields DEF Swipe
<1>. HIDE DEF swipe
<1>5. m \in Message /\ m.id = <<r, m.role>> /\ m.role = "assistant"
      /\ m.active \in 1..Len(m.swipes)
  <2>1. <<swipe>> \in Seq(Swipe) /\ Len(<<swipe>>) = 1
    BY <1>4
  <2>. QED BY <2>1, TurnFields DEF Reply, Message, MessageIds
<1>6. m.id \notin Ids(transcript)
  BY <1>3, <1>5 DEF IInv, FreshIds
<1>. HIDE DEF m, base
<1>7. /\ GhostTypes' /\ session' \in [state : State, gen : Nat]
      /\ session'.gen = session.gen
  BY <1>2, <1>3 DEF IInv, TypeOK, GhostTypes
<1>8. 0 <= session.gen
  BY TurnFields
<1>. QED BY <1>3, <1>5, <1>6, <1>7, <1>8, DoneType, AppendStep

LEMMA RegenerateCommitStep ==
  ASSUME IInv, NEW r \in Requests, NEW effects \in Effects, NEW added \in SUBSET Contexts,
         NEW firing \in SUBSET Rules, RegenerateCommit(r, effects, added, firing)
  PROVE  IInv'
<1>. DEFINE start == req[r].start
            out   == [vars    |-> ApplyEffects(start.vars, effects),
                      pending |-> added,
                      fired   |-> start.fired \cup firing,
                      turn    |-> start.turn]
            new   == ReconcileRegenerationState(session.state, req[r].base, out)
            swipe == [snap |-> new, base |-> start]
            all   == Append(req[r].swipes, swipe)
<1>1. start \in State /\ out \in State
  <2>1. start.turn \in Nat
    BY TurnFields DEF State
  <2>. QED BY <2>1, TurnFields, OutcomeType
<1>2. new \in State
  BY <1>1, TurnFields, ReconcileRegenerationStateType
<1>3. /\ session' = [state |-> new, gen |-> session.gen + 1]
      /\ transcript' = SetSwipes(transcript, req[r].target, session.gen + 1, all, Len(all))
      /\ req' = [req EXCEPT ![r] = Done(r)]
      /\ req[r].kind = "regenerate" /\ req[r].pc = "streaming"
      /\ acked' = [k \in Keys |-> None]
      /\ queued' = new.pending
      /\ dirty' = {} /\ aligned' = IsLastReply(req[r].target)
  BY DEF RegenerateCommit
<1>. HIDE DEF out, new
<1>4. all \in Seq(Swipe) /\ Len(all) \in 1..Len(all)
  <2>1. swipe \in Swipe
    BY <1>1, <1>2 DEF Swipe
  <2>. HIDE DEF swipe
  <2>2. all \in Seq(Swipe) /\ Len(all) = Len(req[r].swipes) + 1 /\ Len(req[r].swipes) \in Nat
    BY <2>1, TurnFields, AppendProperties, LenProperties
  <2>. QED BY <2>2
<1>. HIDE DEF all, start
<1>5. req[r].target[2] = "assistant"
  BY <1>3, TurnFields DEF TurnOK, Targeted
<1>6. WellFormed(transcript') /\ Ids(transcript') = Ids(transcript)
  <2>1. WellFormed(transcript) /\ session.gen + 1 \in Nat
    BY TurnFields DEF IInv
  <2>. QED BY <1>3, <1>4, <1>5, <2>1, SetSwipesLog
<1>7. GhostTypes'
  BY <1>2, <1>3 DEF GhostTypes, State, IsLastReply
<1>8. session' \in [state : State, gen : Nat] /\ session'.gen = session.gen + 1
  BY <1>2, <1>3, TurnFields
<1>9. /\ req' \in [Requests -> Turn]
      /\ \A s \in Requests : req'[s] = req[s] \/ req'[s] = Done(s)
  BY <1>3, DoneType DEF IInv, TypeOK
<1>. QED BY <1>6, <1>7, <1>8, <1>9, RotateStep

LEMMA ContinueCommitStep ==
  ASSUME IInv, NEW r \in Requests, NEW effects \in Effects, NEW added \in SUBSET Contexts,
         NEW firing \in SUBSET Rules, ContinueCommit(r, effects, added, firing)
  PROVE  IInv'
<1>. DEFINE base == req[r].base
            out  == [vars    |-> ApplyEffects(base.vars, effects),
                     pending |-> base.pending \cup added,
                     fired   |-> base.fired \cup firing,
                     turn    |-> base.turn]
            new  == ReconcileTurnState(session.state, base, out)
            at   == CHOOSE i \in DOMAIN transcript : transcript[i].id = req[r].target
            old  == transcript[at]
            from == RegenerationState(base, req[r].swipes, old.active)
            swipe == [snap |-> new, base |-> from]
            all  == [old.swipes EXCEPT ![old.active] = swipe]
<1>1. base \in State /\ out \in State
  <2>1. base.pending \cup added \in SUBSET Contexts /\ base.turn \in Nat
    BY TurnFields DEF State
  <2>. QED BY <2>1, TurnFields, OutcomeType
<1>2. new \in State
  BY <1>1, TurnFields, ReconcileTurnStateType
<1>3. /\ session' = [state |-> new, gen |-> session.gen + 1]
      /\ transcript' = SetSwipes(transcript, old.id, session.gen + 1, all, old.active)
      /\ req' = [req EXCEPT ![r] = Done(r)]
      /\ req[r].kind = "continue" /\ req[r].pc = "streaming" /\ session.gen = req[r].gen
      /\ acked' = [k \in Keys |-> IF k \in Wrote(base, out) THEN None ELSE acked[k]]
      /\ queued' = queued \cup added
      /\ dirty' = {} /\ aligned' = IsLastReply(old.id)
  BY DEF ContinueCommit, SameTimeline
<1>. HIDE DEF out, new
<1>4. PICK i \in DOMAIN transcript : /\ transcript[i].id = req[r].target
                                     /\ transcript[i].active \in 1..Len(req[r].swipes)
  BY <1>3, TurnFields DEF TurnOK, Grounded
<1>5. at = i
  BY <1>4 DEF IInv, WellFormed
<1>. HIDE DEF at
<1>6. old.active \in 1..Len(req[r].swipes) /\ old.id = req[r].target
  BY <1>4, <1>5
<1>7. old.id[2] = "assistant"
  BY <1>3, <1>6, TurnFields DEF TurnOK, Targeted
<1>8. old \in Message /\ old.active \in 1..Len(old.swipes)
  BY <1>5, <1>7, MessagesOf DEF IInv, WellFormed
<1>. HIDE DEF old
<1>9. from \in State
  BY <1>1, <1>6, TurnFields, RegenerationStateType
<1>. HIDE DEF from
<1>10. all \in Seq(Swipe) /\ old.active \in 1..Len(all)
  <2>1. swipe \in Swipe /\ old.swipes \in Seq(Swipe)
    BY <1>2, <1>8, <1>9 DEF Swipe, Message
  <2>. HIDE DEF swipe
  <2>. QED BY <1>8, <2>1, ExceptSeq
<1>. HIDE DEF all
<1>11. WellFormed(transcript') /\ Ids(transcript') = Ids(transcript)
  <2>1. WellFormed(transcript) /\ session.gen + 1 \in Nat
    BY TurnFields DEF IInv
  <2>. QED BY <1>3, <1>7, <1>10, <2>1, SetSwipesLog
<1>12. GhostTypes'
  BY <1>3 DEF IInv, TypeOK, GhostTypes, IsLastReply
<1>13. session' \in [state : State, gen : Nat] /\ session'.gen = session.gen + 1
  BY <1>2, <1>3, TurnFields
<1>14. /\ req' \in [Requests -> Turn]
       /\ \A s \in Requests : req'[s] = req[s] \/ req'[s] = Done(s)
  BY <1>3, DoneType DEF IInv, TypeOK
<1>. QED BY <1>11, <1>12, <1>13, <1>14, RotateStep

-----------------------------------------------------------------------------
(* ... what the interface writes,                                          *)

LEMMA PatchStateStep ==
  ASSUME IInv, NEW k \in Keys, NEW v \in Vals, PatchState(k, v)
  PROVE  IInv'
<1>. DEFINE patch == [j \in Keys |-> IF j = k THEN v ELSE None]
            new   == MergeGameStatePatch(session.state, patch)
<1>1. new \in State
  BY SessionFields, OneKeyType, MergeGameStatePatchType
<1>2. /\ session' = [session EXCEPT !.state = new]
      /\ acked' = [acked EXCEPT ![k] = new.vars[k]]
      /\ dirty' = dirty \cup {k}
      /\ UNCHANGED <<transcript, req, queued, aligned>>
  BY DEF PatchState
<1>. HIDE DEF new
<1>3. GhostTypes'
  <2>1. new.vars[k] \in Vals
    BY <1>1 DEF State, Variables
  <2>. QED BY <1>2, <2>1 DEF IInv, TypeOK, GhostTypes
<1>. QED BY <1>1, <1>2, <1>3, RowStep

LEMMA ExecuteActionStep ==
  ASSUME IInv, NEW k \in Keys, NEW v \in Vals, NEW words \in SUBSET Contexts,
         NEW firing \in SUBSET Rules, ExecuteAction(k, v, words, firing)
  PROVE  IInv'
<1>. DEFINE patch  == [j \in Keys |-> IF j = k THEN v ELSE None]
            merged == MergeGameStatePatch(session.state, patch)
            new    == [merged EXCEPT !.pending = @ \cup words, !.fired = @ \cup firing]
<1>1. merged \in State
  BY SessionFields, OneKeyType, MergeGameStatePatchType
<1>2. /\ session' = [session EXCEPT !.state = new]
      /\ acked' = [acked EXCEPT ![k] = new.vars[k]]
      /\ queued' = queued \cup words
      /\ dirty' = dirty \cup {k}
      /\ UNCHANGED <<transcript, req, aligned>>
  BY DEF ExecuteAction
<1>. HIDE DEF merged
<1>3. new \in State
  BY <1>1 DEF State
<1>. HIDE DEF new
<1>4. GhostTypes'
  <2>1. new.vars[k] \in Vals
    BY <1>3 DEF State, Variables
  <2>. QED BY <1>2, <2>1 DEF IInv, TypeOK, GhostTypes
<1>. QED BY <1>2, <1>3, <1>4, RowStep

LEMMA InjectContextStep ==
  ASSUME IInv, NEW c \in Contexts, InjectContext(c)
  PROVE  IInv'
<1>. DEFINE new == [session.state EXCEPT !.pending = @ \cup {c}]
<1>1. new \in State
  BY SessionFields DEF State
<1>2. session' = [session EXCEPT !.state = new]
  BY DEF InjectContext, IInv, TypeOK
<1>3. GhostTypes' /\ UNCHANGED <<transcript, req>>
  BY DEF InjectContext, IInv, TypeOK, GhostTypes
<1>. HIDE DEF new
<1>. QED BY <1>1, <1>2, <1>3, RowStep

-----------------------------------------------------------------------------
(* ... and what replaces the timeline.                                     *)

LEMMA RotateFacts ==
  ASSUME IInv, NEW state \in State, Rotate(state)
  PROVE  /\ session' \in [state : State, gen : Nat]
         /\ session'.gen = session.gen + 1 /\ session'.state = state
         /\ queued' \subseteq Contexts
         /\ req' \in [Requests -> Turn] /\ \A s \in Requests : req'[s] = req[s]
BY SessionFields DEF Rotate, State, IInv, TypeOK

LEMMA EditMessageStep ==
  ASSUME IInv, NEW i \in DOMAIN transcript, EditMessage(i)
  PROVE  IInv'
<1>1. Rotate(session.state) /\ session.state \in State
  BY SessionFields DEF EditMessage
<1>2. WellFormed(transcript') /\ Ids(transcript') = Ids(transcript)
  <2>1. WellFormed(transcript) /\ session.gen + 1 \in Nat
    BY SessionFields DEF IInv
  <2>2. transcript' = [transcript EXCEPT ![i].text = session.gen + 1]
    BY DEF EditMessage
  <2>. QED BY <2>1, <2>2, EditLog
<1>3. GhostTypes'
  BY <1>1, RotateFacts DEF EditMessage, IInv, TypeOK, GhostTypes
<1>. QED BY <1>1, <1>2, <1>3, RotateFacts, RotateStep

LEMMA DeleteMessageStep ==
  ASSUME IInv, NEW i \in DOMAIN transcript, DeleteMessage(i)
  PROVE  IInv'
<1>1. Rotate(session.state) /\ session.state \in State
  BY SessionFields DEF DeleteMessage
<1>2. WellFormed(transcript') /\ Ids(transcript') \subseteq Ids(transcript)
  BY SessionFields, RemoveLog DEF DeleteMessage, IInv
<1>3. GhostTypes'
  BY <1>1, RotateFacts DEF DeleteMessage, IInv, TypeOK, GhostTypes
<1>. QED BY <1>1, <1>2, <1>3, RotateFacts, RotateStep

LEMMA KeepSetupType ==
  ASSUME NEW live \in State, NEW restored \in State
  PROVE  KeepSetup(live, restored) \in State
BY DEF KeepSetup, State, Variables

LEMMA RevertStep ==
  ASSUME IInv, NEW n \in Nat, Revert(n)
  PROVE  IInv'
<1>. DEFINE log == SubSeq(transcript, 1, n)
            restored == IF n = 0 THEN Initial
                        ELSE IF Replies(log) = {} THEN session.state
                        ELSE Snapshot(log[LastReply(log)])
            kept == KeepSetup(session.state, restored)
<1>1. n \in 0..Len(transcript)
  BY SessionFields, LenProperties DEF Revert
<1>2. WellFormed(log) /\ Ids(log) \subseteq Ids(transcript)
  BY <1>1, PrefixLog DEF IInv
<1>3. /\ Rotate(kept) /\ transcript' = log
      /\ acked' = [k \in Keys |-> IF k \in SetupKeys THEN acked[k] ELSE None]
      /\ dirty' = SetupKeys /\ aligned' = (Replies(log) # {})
  BY DEF Revert
<1>. HIDE DEF log
<1>4. Replies(log) # {} => Snapshot(log[LastReply(log)]) \in State
  <2>. SUFFICES ASSUME Replies(log) # {} PROVE Snapshot(log[LastReply(log)]) \in State
    OBVIOUS
  <2>. DEFINE m == log[LastReply(log)]
  <2>1. LastReply(log) \in Replies(log)
    BY <1>2, LastReplyType
  <2>2. m \in Message /\ m.active \in 1..Len(m.swipes)
    BY <1>2, <2>1, MessagesOf DEF Replies, WellFormed
  <2>. HIDE DEF m
  <2>3. m.swipes[m.active] \in Swipe
    BY <2>2, ElementOfSeq DEF Message
  <2>4. Snapshot(m) \in State
    BY <2>3 DEF Snapshot, Swipe
  <2>. QED BY <2>4 DEF m
<1>5. restored \in State
  BY <1>4, SessionFields, InitialType
<1>. HIDE DEF restored
<1>6. kept \in State
  BY <1>5, SessionFields, KeepSetupType
<1>. HIDE DEF kept
<1>7. GhostTypes'
  BY <1>3, <1>6, RotateFacts, DataAssumption DEF IInv, TypeOK, GhostTypes
<1>. QED BY <1>2, <1>3, <1>6, <1>7, RotateFacts, RotateStep

LEMMA RevertToMessageStep ==
  ASSUME IInv, RevertToMessage
  PROVE  IInv'
BY RevertStep DEF RevertToMessage

LEMMA RevertLastExchangeStep ==
  ASSUME IInv, RevertLastExchange
  PROVE  IInv'
<1>. DEFINE at == LastReply(transcript)
            n  == IF at > 1 /\ transcript[at - 1].role = "user" THEN at - 2 ELSE at - 1
<1>1. at \in 1..Len(transcript)
  BY LastReplyType, MessagesOf DEF RevertLastExchange, IInv, Replies
<1>2. Revert(n)
  BY DEF RevertLastExchange
<1>. HIDE DEF at
<1>3. n \in Nat
  BY <1>1
<1>. QED BY <1>2, <1>3, RevertStep

LEMMA RestartStep ==
  ASSUME IInv, Restart
  PROVE  IInv'
<1>. DEFINE first == CHOOSE i \in Replies(transcript) : \A j \in Replies(transcript) : i <= j
            id    == IF Replies(transcript) = {} THEN <<session.gen + 1, "assistant">>
                                                 ELSE transcript[first].id
<1>1. /\ Rotate(Initial)
      /\ transcript' = <<Greeting(id, session.gen + 1)>>
      /\ acked' = [k \in Keys |-> None]
      /\ dirty' = {} /\ aligned' = TRUE
  BY DEF Restart
<1>2. Replies(transcript) # {} => first \in Replies(transcript)
  <2>1. Replies(transcript) \in SUBSET Nat
    BY MessagesOf DEF IInv, Replies
  <2>. QED BY <2>1, LeastElement
<1>. HIDE DEF first
<1>3. /\ id \in MessageIds /\ id[2] = "assistant"
      /\ id \in Ids(transcript) \/ id = <<session.gen + 1, "assistant">>
  <2>1. CASE Replies(transcript) = {}
    BY <2>1, SessionFields DEF MessageIds
  <2>2. CASE Replies(transcript) # {}
    BY <1>2, <2>2, MessagesOf DEF IInv, Replies, WellFormed, Ids, Message
  <2>. QED BY <2>1, <2>2
<1>. HIDE DEF id
<1>4. WellFormed(transcript') /\ Ids(transcript') = {id}
  BY <1>1, <1>3, SessionFields, GreetingLog
<1>5. GhostTypes'
  BY <1>1, InitialType, RotateFacts DEF GhostTypes
<1>. QED BY <1>1, <1>3, <1>4, <1>5, InitialType, RotateFacts, RotateStep

-----------------------------------------------------------------------------
(* The theorems.                                                           *)

LEMMA InitIInv == Init => IInv
<1>. SUFFICES ASSUME Init PROVE IInv
  OBVIOUS
<1>1. Idle \in Turn
  BY InitialType DEF Idle, Turn, Stages
<1>2. /\ session.gen = 0 /\ session \in [state : State, gen : Nat]
      /\ req = [r \in Requests |-> Idle]
      /\ transcript = <<Greeting(<<0, "assistant">>, 0)>>
      /\ GhostTypes
  BY InitialType DEF Init, GhostTypes
<1>3. <<0, "assistant">> \in MessageIds
  BY DEF MessageIds
<1>4. WellFormed(transcript) /\ Ids(transcript) = {<<0, "assistant">>}
  BY <1>2, <1>3, GreetingLog
<1>5. TypeOK
  BY <1>1, <1>2, <1>4 DEF TypeOK, GhostTypes, WellFormed
<1>6. FreshIds
  <2>1. \A r \in Requests : r # 0
    BY DataAssumption
  <2>. QED BY <1>2, <1>4, <2>1 DEF FreshIds
<1>7. \A r \in Requests : TurnOK(req[r])
  <2>1. Idle.pc = "idle" /\ Idle.gen = 0
    BY DEF Idle
  <2>. QED BY <1>2, <2>1 DEF TurnOK, Targeted, Grounded
<1>. QED BY <1>4, <1>5, <1>6, <1>7 DEF IInv

LEMMA NextIInv == IInv /\ [Next]_vars => IInv'
<1>. SUFFICES ASSUME IInv, [Next]_vars PROVE IInv'
  OBVIOUS
<1>1. ASSUME NEW r \in Requests, SendStep(r) PROVE IInv'
  BY <1>1, SendLoadStep, SendInsertUserRowStep, SendReuseUserRowStep, SendReadHistoryStep,
     SendCommitStep DEF SendStep
<1>2. ASSUME NEW r \in Requests, RegenerateStep(r) PROVE IInv'
  BY <1>2, RegenerateReadMessageStep, RegenerateLoadStep, RegenerateReadHistoryStep,
     RegenerateCommitStep DEF RegenerateStep
<1>3. ASSUME NEW r \in Requests, ContinueStep(r) PROVE IInv'
  BY <1>3, ContinueLoadStep, ContinueReadHistoryStep, ContinueCommitStep DEF ContinueStep
<1>4. ASSUME NEW r \in Requests, GiveUp(r) PROVE IInv'
  BY <1>4, GiveUpStep
<1>5. ASSUME InterfaceStep PROVE IInv'
  BY <1>5, PatchStateStep, ExecuteActionStep, InjectContextStep DEF InterfaceStep
<1>6. ASSUME TimelineStep PROVE IInv'
  BY <1>6, EditMessageStep, DeleteMessageStep, RevertToMessageStep, RevertLastExchangeStep,
     RestartStep DEF TimelineStep
<1>7. ASSUME UNCHANGED vars PROVE IInv'
  BY <1>7 DEF vars, IInv, TypeOK, WellFormed, FreshIds, Ids, TurnOK, Targeted, Grounded, Words
<1>. QED BY <1>1, <1>2, <1>3, <1>4, <1>5, <1>6, <1>7 DEF Next

\* The session row, the transcript, the turns in flight and the bookkeeping
\* keep their types, and with them: ids stay unique, every reply shows one of
\* its swipes, and a turn whose generation is still current can still find
\* what it read.
THEOREM TypeCorrect == Spec => []TypeOK
<1>1. IInv => TypeOK
  BY DEF IInv
<1>. QED BY InitIInv, NextIInv, <1>1, PTL DEF Spec

THEOREM Invariant == Spec => []IInv
BY InitIInv, NextIInv, PTL DEF Spec

\* Only a commit changes the session and ends a request at once, and it looks
\* at the generation first.
LEMMA CommitGuard ==
  ASSUME IInv, Next, NEW r \in Requests, Commits(r)
  PROVE  SameTimeline(r)
<1>1. /\ req \in [Requests -> Turn] /\ req[r].pc = "streaming" /\ req'[r].pc = "done"
      /\ <<session, transcript>>' # <<session, transcript>>
  BY DEF Commits, IInv, TypeOK
<1>2. ASSUME NEW s \in Requests, SendStep(s) PROVE SameTimeline(r)
  <2>1. CASE SendLoad(s)
    BY <1>1, <2>1 DEF SendLoad
  <2>2. CASE SendInsertUserRow(s)
    BY <1>1, <2>2 DEF SendInsertUserRow
  <2>3. CASE SendReuseUserRow(s)
    BY <1>1, <2>3 DEF SendReuseUserRow
  <2>4. CASE SendReadHistory(s)
    BY <1>1, <2>4 DEF SendReadHistory
  <2>5. ASSUME NEW effects \in Effects, NEW added \in SUBSET Contexts,
               NEW firing \in SUBSET Rules, SendCommit(s, effects, added, firing)
        PROVE  SameTimeline(r)
    <3>1. SameTimeline(s) /\ req' = [req EXCEPT ![s] = Done(s)]
      BY <2>5 DEF SendCommit
    <3>. QED BY <1>1, <3>1
  <2>. QED BY <1>2, <2>1, <2>2, <2>3, <2>4, <2>5 DEF SendStep
<1>3. ASSUME NEW s \in Requests, RegenerateStep(s) PROVE SameTimeline(r)
  <2>1. CASE RegenerateReadMessage(s)
    BY <1>1, <2>1 DEF RegenerateReadMessage
  <2>2. CASE RegenerateLoad(s)
    BY <1>1, <2>2 DEF RegenerateLoad
  <2>3. CASE RegenerateReadHistory(s)
    BY <1>1, <2>3 DEF RegenerateReadHistory
  <2>4. ASSUME NEW effects \in Effects, NEW added \in SUBSET Contexts,
               NEW firing \in SUBSET Rules, RegenerateCommit(s, effects, added, firing)
        PROVE  SameTimeline(r)
    <3>1. SameTimeline(s) /\ req' = [req EXCEPT ![s] = Done(s)]
      BY <2>4 DEF RegenerateCommit
    <3>. QED BY <1>1, <3>1
  <2>. QED BY <1>3, <2>1, <2>2, <2>3, <2>4 DEF RegenerateStep
<1>4. ASSUME NEW s \in Requests, ContinueStep(s) PROVE SameTimeline(r)
  <2>1. CASE ContinueLoad(s)
    BY <1>1, <2>1 DEF ContinueLoad
  <2>2. CASE ContinueReadHistory(s)
    BY <1>1, <2>2 DEF ContinueReadHistory
  <2>3. ASSUME NEW effects \in Effects, NEW added \in SUBSET Contexts,
               NEW firing \in SUBSET Rules, ContinueCommit(s, effects, added, firing)
        PROVE  SameTimeline(r)
    <3>1. SameTimeline(s) /\ req' = [req EXCEPT ![s] = Done(s)]
      BY <2>3 DEF ContinueCommit
    <3>. QED BY <1>1, <3>1
  <2>. QED BY <1>4, <2>1, <2>2, <2>3 DEF ContinueStep
<1>5. ASSUME NEW s \in Requests, GiveUp(s) PROVE FALSE
  BY <1>1, <1>5 DEF GiveUp
<1>6. ASSUME InterfaceStep PROVE FALSE
  BY <1>1, <1>6 DEF InterfaceStep, PatchState, ExecuteAction, InjectContext
<1>7. ASSUME TimelineStep PROVE FALSE
  <2>1. UNCHANGED req
    BY <1>7 DEF TimelineStep, EditMessage, DeleteMessage, RevertToMessage, RevertLastExchange,
                Revert, Restart, Rotate
  <2>. QED BY <1>1, <2>1
<1>. QED BY <1>2, <1>3, <1>4, <1>5, <1>6, <1>7 DEF Next

\* No reply is committed on words that have changed since it read them: the
\* generation check of the commit is enough, because everything that changes a
\* message rotates the generation under the same row lock.
THEOREM CommitsGrounded == Spec => CommitsAreGrounded
<1>1. ASSUME IInv, [Next]_vars
      PROVE  [\A r \in Requests : Commits(r) => req[r].basis \subseteq Words(transcript)]_vars
  <2>1. ASSUME Next, NEW r \in Requests, Commits(r)
        PROVE  req[r].basis \subseteq Words(transcript)
    <3>1. req[r].pc = "streaming" /\ req[r].gen = session.gen
      BY <1>1, <2>1, CommitGuard DEF Commits, SameTimeline
    <3>. QED BY <1>1, <3>1, TurnFields DEF TurnOK, Grounded
  <2>. QED BY <1>1, <2>1
<1>. QED BY Invariant, <1>1, PTL DEF Spec, CommitsAreGrounded

\* Reconciling gives a key the turn did not move its live value.
LEMMA ReconcileKeepsLive ==
  ASSUME NEW live \in State, NEW base \in State, NEW out \in State, NEW k \in Keys,
         k \notin Wrote(base, out)
  PROVE  ReconcileTurnState(live, base, out).vars[k] = live.vars[k]
BY DEF ReconcileTurnState, Wrote

LEMMA SendCommitKeepsWrites ==
  ASSUME IInv, UiWriteSurvives, NEW r \in Requests, NEW effects \in Effects,
         NEW added \in SUBSET Contexts, NEW firing \in SUBSET Rules,
         SendCommit(r, effects, added, firing)
  PROVE  UiWriteSurvives'
<1>. DEFINE base == req[r].base
            out  == [vars    |-> ApplyEffects(base.vars, effects),
                     pending |-> added,
                     fired   |-> base.fired \cup firing,
                     turn    |-> base.turn + 1]
            new  == ReconcileTurnState(session.state, base, out)
<1>1. base \in State /\ out \in State
  <2>1. base.turn + 1 \in Nat
    BY TurnFields DEF State
  <2>. QED BY <2>1, TurnFields, OutcomeType
<1>2. /\ session' = [session EXCEPT !.state = new]
      /\ acked' = [k \in Keys |-> IF k \in Wrote(base, out) THEN None ELSE acked[k]]
  BY DEF SendCommit
<1>. HIDE DEF out, base
<1>3. \A k \in Keys : k \notin Wrote(base, out) => new.vars[k] = session.state.vars[k]
  BY <1>1, TurnFields, ReconcileKeepsLive
<1>. HIDE DEF new
<1>. QED BY <1>2, <1>3 DEF UiWriteSurvives, IInv, TypeOK

LEMMA ContinueCommitKeepsWrites ==
  ASSUME IInv, UiWriteSurvives, NEW r \in Requests, NEW effects \in Effects,
         NEW added \in SUBSET Contexts, NEW firing \in SUBSET Rules,
         ContinueCommit(r, effects, added, firing)
  PROVE  UiWriteSurvives'
<1>. DEFINE base == req[r].base
            out  == [vars    |-> ApplyEffects(base.vars, effects),
                     pending |-> base.pending \cup added,
                     fired   |-> base.fired \cup firing,
                     turn    |-> base.turn]
            new  == ReconcileTurnState(session.state, base, out)
<1>1. base \in State /\ out \in State
  <2>1. base.pending \cup added \in SUBSET Contexts /\ base.turn \in Nat
    BY TurnFields DEF State
  <2>. QED BY <2>1, TurnFields, OutcomeType
<1>2. /\ session' = [state |-> new, gen |-> session.gen + 1]
      /\ acked' = [k \in Keys |-> IF k \in Wrote(base, out) THEN None ELSE acked[k]]
  BY DEF ContinueCommit
<1>. HIDE DEF out, base
<1>3. \A k \in Keys : k \notin Wrote(base, out) => new.vars[k] = session.state.vars[k]
  BY <1>1, TurnFields, ReconcileKeepsLive
<1>. HIDE DEF new
<1>. QED BY <1>2, <1>3 DEF UiWriteSurvives

\* A patch of one key leaves the others alone.
LEMMA PatchKeepsOthers ==
  ASSUME NEW live \in State, NEW k \in Keys, NEW v \in Vals, NEW j \in Keys, j # k
  PROVE  MergeGameStatePatch(live, [i \in Keys |-> IF i = k THEN v ELSE None]).vars[j]
           = live.vars[j]
<1>. DEFINE patch == [i \in Keys |-> IF i = k THEN v ELSE None]
<1>1. patch \in Effects /\ patch[j] = None
  BY OneKeyType
<1>. HIDE DEF patch
<1>2. ApplyEffects(live.vars, patch)[j] = live.vars[j]
  BY <1>1, ApplyEffectsUntouched DEF State
<1>3. MergeGameStatePatch(live, patch).vars = ApplyEffects(live.vars, patch)
  BY DEF MergeGameStatePatch, State
<1>. QED BY <1>2, <1>3 DEF patch

LEMMA PatchStateKeepsWrites ==
  ASSUME IInv, UiWriteSurvives, NEW k \in Keys, NEW v \in Vals, PatchState(k, v)
  PROVE  UiWriteSurvives'
<1>. DEFINE new == MergeGameStatePatch(session.state, [i \in Keys |-> IF i = k THEN v ELSE None])
<1>1. /\ session' = [session EXCEPT !.state = new]
      /\ acked' = [acked EXCEPT ![k] = new.vars[k]]
  BY DEF PatchState
<1>2. \A j \in Keys : j # k => new.vars[j] = session.state.vars[j]
  BY SessionFields, PatchKeepsOthers
<1>. HIDE DEF new
<1>. QED BY <1>1, <1>2 DEF UiWriteSurvives, IInv, TypeOK

LEMMA ExecuteActionKeepsWrites ==
  ASSUME IInv, UiWriteSurvives, NEW k \in Keys, NEW v \in Vals, NEW words \in SUBSET Contexts,
         NEW firing \in SUBSET Rules, ExecuteAction(k, v, words, firing)
  PROVE  UiWriteSurvives'
<1>. DEFINE merged == MergeGameStatePatch(session.state,
                                          [i \in Keys |-> IF i = k THEN v ELSE None])
            new    == [merged EXCEPT !.pending = @ \cup words, !.fired = @ \cup firing]
<1>1. /\ session' = [session EXCEPT !.state = new]
      /\ acked' = [acked EXCEPT ![k] = new.vars[k]]
  BY DEF ExecuteAction
<1>2. \A j \in Keys : j # k => merged.vars[j] = session.state.vars[j]
  BY SessionFields, PatchKeepsOthers
<1>3. merged \in State
  BY SessionFields, OneKeyType, MergeGameStatePatchType
<1>. HIDE DEF merged
<1>4. new.vars = merged.vars
  BY <1>3 DEF State
<1>. HIDE DEF new
<1>. QED BY <1>1, <1>2, <1>4 DEF UiWriteSurvives, IInv, TypeOK

LEMMA RevertKeepsWrites ==
  ASSUME IInv, UiWriteSurvives, NEW n \in Nat, Revert(n)
  PROVE  UiWriteSurvives'
<1>. DEFINE log == SubSeq(transcript, 1, n)
            restored == IF n = 0 THEN Initial
                        ELSE IF Replies(log) = {} THEN session.state
                        ELSE Snapshot(log[LastReply(log)])
<1>1. /\ Rotate(KeepSetup(session.state, restored))
      /\ acked' = [k \in Keys |-> IF k \in SetupKeys THEN acked[k] ELSE None]
  BY DEF Revert
<1>. HIDE DEF restored
<1>2. session'.state = KeepSetup(session.state, restored)
  BY <1>1 DEF Rotate
<1>3. IInv'
  BY RevertStep
<1>4. session'.state \in State
  BY <1>3 DEF IInv, TypeOK
<1>5. \A k \in SetupKeys : session'.state.vars[k] = session.state.vars[k]
  BY <1>2, <1>4, DataAssumption DEF KeepSetup, State
<1>. QED BY <1>1, <1>5 DEF UiWriteSurvives

\* What a custom interface wrote, and was told is saved, is not undone by the
\* commit of a turn that read the session before the write and did not move
\* that variable itself, nor by a revert if the variable is setup-scoped.
THEOREM WritesSurvive == Spec => []UiWriteSurvives
<1>1. Init => UiWriteSurvives
  BY DEF Init, UiWriteSurvives
<1>2. ASSUME IInv, UiWriteSurvives, [Next]_vars PROVE UiWriteSurvives'
  <2>. USE <1>2
  <2>1. ASSUME UNCHANGED <<session, acked>> PROVE UiWriteSurvives'
    BY <2>1 DEF UiWriteSurvives
  <2>2. ASSUME NEW r \in Requests, SendStep(r) PROVE UiWriteSurvives'
    BY <2>1, <2>2, SendCommitKeepsWrites
       DEF SendStep, SendLoad, SendInsertUserRow, SendReuseUserRow, SendReadHistory, ghosts
  <2>3. ASSUME NEW r \in Requests, RegenerateStep(r) PROVE UiWriteSurvives'
    <3>1. ASSUME NEW effects \in Effects, NEW added \in SUBSET Contexts,
                 NEW firing \in SUBSET Rules, RegenerateCommit(r, effects, added, firing)
          PROVE  UiWriteSurvives'
      BY <3>1 DEF RegenerateCommit, UiWriteSurvives
    <3>. QED BY <2>1, <2>3, <3>1 DEF RegenerateStep, RegenerateReadMessage, RegenerateLoad,
                                    RegenerateReadHistory, ghosts
  <2>4. ASSUME NEW r \in Requests, ContinueStep(r) PROVE UiWriteSurvives'
    BY <2>1, <2>4, ContinueCommitKeepsWrites
       DEF ContinueStep, ContinueLoad, ContinueReadHistory, ghosts
  <2>5. ASSUME NEW r \in Requests, GiveUp(r) PROVE UiWriteSurvives'
    BY <2>1, <2>5 DEF GiveUp, ghosts
  <2>6. ASSUME InterfaceStep PROVE UiWriteSurvives'
    <3>1. ASSUME NEW c \in Contexts, InjectContext(c) PROVE UiWriteSurvives'
      <4>1. session'.state.vars = session.state.vars /\ acked' = acked
        BY <3>1, SessionFields DEF InjectContext, IInv, TypeOK, State
      <4>. QED BY <4>1 DEF UiWriteSurvives
    <3>. QED BY <2>6, <3>1, PatchStateKeepsWrites, ExecuteActionKeepsWrites DEF InterfaceStep
  <2>7. ASSUME TimelineStep PROVE UiWriteSurvives'
    <3>1. ASSUME Rotate(session.state), acked' = acked PROVE UiWriteSurvives'
      BY <3>1 DEF Rotate, UiWriteSurvives
    <3>2. ASSUME RevertLastExchange PROVE \E n \in Nat : Revert(n)
      <4>1. LastReply(transcript) \in 1..Len(transcript)
        BY <3>2, LastReplyType, MessagesOf DEF RevertLastExchange, IInv, Replies
      <4>. QED BY <3>2, <4>1 DEF RevertLastExchange
    <3>3. ASSUME RevertToMessage PROVE \E n \in Nat : Revert(n)
      BY <3>3 DEF RevertToMessage
    <3>4. ASSUME Restart PROVE UiWriteSurvives'
      BY <3>4 DEF Restart, UiWriteSurvives
    <3>. QED BY <2>7, <3>1, <3>2, <3>3, <3>4, RevertKeepsWrites
             DEF TimelineStep, EditMessage, DeleteMessage
  <2>8. ASSUME UNCHANGED vars PROVE UiWriteSurvives'
    BY <2>1, <2>8 DEF vars
  <2>. QED BY <1>2, <2>2, <2>3, <2>4, <2>5, <2>6, <2>7, <2>8 DEF Next
<1>. QED BY Invariant, <1>1, <1>2, PTL DEF Spec
=============================================================================
