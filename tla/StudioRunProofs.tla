--------------------------- MODULE StudioRunProofs ---------------------------
(***************************************************************************)
(* What holds of any number of runs, workers, steps, writes and faults:    *)
(* no save is overwritten, nothing is applied twice or before it is paid,  *)
(* and no hold outlives its worker; and, of the executions in which the    *)
(* answer to a card only takes back a run that is still its own, that one  *)
(* run works at a time and paid work is kept.                              *)
(*                                                                         *)
(* The argument is about names.  A reference is made once, by the worker   *)
(* it is named for, and from the moment its result is staged it is in one  *)
(* row only.  Whoever is named by the claim of that row has the result     *)
(* that the row has, and a copy of the world as it was at the revision of  *)
(* the row; and every action sets a claim to its own worker or to nobody.  *)
(***************************************************************************)
EXTENDS StudioRun, SumTheorems

-----------------------------------------------------------------------------
(* The inductive invariant.                                                *)

Phase(r) == row[r].journal.phase
InLog == [x \in Refs |-> {n \in 1 .. MaxWrites : log.landed[<<x, n>>] # 0}]
\* The references that no row and no write knows yet.
Fresh ==
  {x \in Refs : /\ InLog[x] = {}
                /\ \A r \in Runs : Phase(r) = "generated" => row[r].journal.ref # x}

\* A generated result is in one row, and no write of it that is still to be
\* done has been stored.
RowOK(r) ==
  LET j == row[r].journal
  IN /\ row[r].rev <= world.rev
     /\ j.phase = "generated" => /\ j.ref \in Refs /\ j.cost \in Costs /\ j.done <= j.todo
                                 /\ InLog[j.ref] \subseteq 1 .. j.done
     /\ j.paid => j.phase = "generated" /\ charge[j.ref] # None
OneRow ==
  \A q, r \in Runs :
    /\ Phase(q) = "generated" /\ Phase(r) = "generated"
    /\ row[q].journal.ref = row[r].journal.ref
    => q = r

\* Where a worker is with its step: before its own result is in the row, and
\* after.
Unstaged(w) ==
  worker[w].pc \in {"reserve", "generate"} \/ (worker[w].pc = "bill" /\ ~ worker[w].replay)
Copied(w) == worker[w].pc = "stage" \/ Unstaged(w)
Has(w) ==
  \/ worker[w].pc \in {"settle", "write"}
  \/ worker[w].replay /\ worker[w].pc \in {"loop", "bill"}
AtWorld(w) == worker[w].copy = world.writes /\ worker[w].saves = world.saves

NewResult(w) ==
  LET j == worker[w].result
  IN j.phase = "generated" /\ j.ref = NextRef(w) /\ j.cost \in Costs /\ ~ j.paid /\ j.done = 0
RowResult(w) ==
  LET j == worker[w].result
      k == Row(w).journal
  IN k.phase = "generated" /\ j.ref = k.ref /\ j.cost = k.cost /\ j.todo = k.todo /\ j.done = k.done
Named(w) == worker[w].tries > 0 /\ NextRef(w) \in Fresh

Names(w) ==
  /\ worker[w].pc \notin {"gone", "dead"} =>
       \A t \in 1 .. MaxTries : t > worker[w].tries => <<w, t>> \in Fresh
  /\ Unstaged(w) => Named(w)
  /\ worker[w].pc \in {"stage", "reserve"} => worker[w].result = Preflight
  /\ worker[w].pc = "bill" /\ ~ worker[w].replay => NewResult(w)
  /\ worker[w].pc = "pause" /\ worker[w].result.phase = "generated" =>
       /\ worker[w].claimed
       /\ \/ NewResult(w) /\ Named(w)
          \/ Row(w).claim = w => worker[w].result = Row(w).journal
  /\ worker[w].pc = "pause" /\ worker[w].result.phase # "generated" => ~ worker[w].result.paid
Copies(w) ==
  /\ worker[w].rev <= world.rev
  /\ Copied(w) /\ worker[w].rev = world.rev => AtWorld(w)
  /\ Has(w) /\ Row(w).claim = w =>
       /\ RowResult(w)
       /\ Row(w).rev = world.rev => AtWorld(w)
       /\ worker[w].pc = "write" => Row(w).journal.paid
Local(w) ==
  /\ Live(w) => worker[w].run \in Runs
  /\ Unstaged(w) \/ Has(w) => worker[w].claimed
  /\ worker[w].replay => worker[w].pc \in {"loop", "bill", "settle", "pause", "exit", "release"}
  /\ worker[w].pc = "idle" => worker[w].tries = 0
  /\ worker[w].pc \in {"answer", "loop", "stage"} =>
       worker[w].tries <= worker[w].step + worker[w].restarts
  /\ worker[w].pc \in {"reserve", "generate", "bill", "settle", "write"} =>
       worker[w].tries <= worker[w].step + worker[w].restarts + 1
  /\ worker[w].pc = "stage" => worker[w].step < MaxSteps
Holding(w) ==
  /\ \A n \in 1 .. MaxTries :
       hold[<<w, n>>].status = "active" =>
         worker[w].pc = "dead" \/ (worker[w].held /\ n = worker[w].tries)
  /\ worker[w].held =>
       /\ worker[w].pc \in {"generate", "bill", "settle", "pause", "exit", "release"}
       /\ worker[w].tries > 0
       /\ worker[w].pc \in {"bill", "settle"} =>
            worker[w].result.ref = NextRef(w) /\ ~ worker[w].replay

Rows == OneRow /\ \A r \in Runs : RowOK(r)
WorkerOK(w) == Names(w) /\ Copies(w) /\ Local(w) /\ Holding(w)
Crew == \A w \in Workers : WorkerOK(w)
World == NothingIsOverwritten /\ PaidBeforeApplied /\ AppliedOnce
Sound == TypeOK /\ Wallet!HoldsCovered /\ Rows /\ Crew /\ World

-----------------------------------------------------------------------------
(* The wallet.  Every step is one of the ledger, or leaves it alone.       *)

Ledger == INSTANCE CreditLedgerProofs

\* What the assumptions on the constants say of each of them.
LEMMA ConstantsTyped ==
  /\ Costs \subseteq Nat \ {0} /\ Costs \subseteq Credits /\ Credits \subseteq Nat
  /\ 0 \in Credits /\ 1 \in Credits /\ Opening \in Credits /\ HoldCredits \in Credits
  /\ MaxWrites \in Nat /\ MaxSteps \in Nat /\ MaxRestarts \in Nat /\ MaxTries \in Nat
  /\ None \notin Workers /\ None \notin Refs /\ None \notin Nat
BY StudioAssumption DEF MaxTries

\* There are finitely many references.
LEMMA RefsFinite == IsFiniteSet(Refs)
<1>1. IsFiniteSet(1 .. MaxTries)
  BY FS_Interval, ConstantsTyped
<1>2. IsFiniteSet(Workers)
  BY StudioAssumption
<1>. QED BY <1>1, <1>2, FS_Product DEF Refs

\* The assumptions of the theorems on the ledger.
LEMMA LedgerConstants == Ledger!Constants
<1>1. Credits \subseteq Nat /\ None \notin Nat
  BY ConstantsTyped
<1>2. Ledger!IsFiniteSet(Refs)
  BY RefsFinite, Zenon DEF IsFiniteSet, Ledger!IsFiniteSet
<1>. QED BY <1>1, <1>2 DEF Ledger!Constants

\* The two names of what is held.
LEMMA SameHeld ==
  /\ \A S : Wallet!Held(S) = Ledger!Held(S)
  /\ \A S : Wallet!Held(S)' = Ledger!Held(S)'
BY Zenon DEF Wallet!Held, Ledger!Held, Wallet!SumFunctionOnSet, Ledger!SumFunctionOnSet,
  Wallet!FoldFunctionOnSet, Ledger!FoldFunctionOnSet, Wallet!MapThenFoldSet, Ledger!MapThenFoldSet

\* The two names of the state and the steps of the ledger.
LEMMA SameLedger ==
  /\ Wallet!TypeOK <=> Ledger!TypeOK
  /\ Wallet!TypeOK' <=> Ledger!TypeOK'
  /\ Wallet!HoldsCovered <=> Ledger!HoldsCovered
  /\ Wallet!HoldsCovered' <=> Ledger!HoldsCovered'
  /\ wallet = Ledger!vars
<1>1. (Wallet!TypeOK <=> Ledger!TypeOK) /\ (Wallet!TypeOK' <=> Ledger!TypeOK')
  BY DEF Wallet!TypeOK, Ledger!TypeOK, Wallet!Statuses, Ledger!Statuses
<1>2. Wallet!HoldsCovered <=> Ledger!HoldsCovered
  BY SameHeld DEF Wallet!HoldsCovered, Ledger!HoldsCovered
<1>3. Wallet!HoldsCovered' <=> Ledger!HoldsCovered'
  BY SameHeld DEF Wallet!HoldsCovered, Ledger!HoldsCovered
<1>4. wallet = Ledger!vars
  BY DEF wallet, Ledger!vars
<1>. QED BY <1>1, <1>2, <1>3, <1>4

LEMMA SameSteps ==
  ASSUME NEW x, NEW c, NEW r
  PROVE  /\ Wallet!Loses(x) <=> Ledger!Loses(x)
         /\ Wallet!Reserve(r, c, x) <=> Ledger!Reserve(r, c, x)
         /\ Wallet!Release(r) <=> Ledger!Release(r)
         /\ Wallet!Settle(r, c, x) <=> Ledger!Settle(r, c, x)
         /\ Wallet!Deduct(r, c, x) <=> Ledger!Deduct(r, c, x)
         /\ Wallet!Fund(c, x) <=> Ledger!Fund(c, x)
         /\ Wallet!Lapse(r) <=> Ledger!Lapse(r)
<1>1. Wallet!Loses(x) <=> Ledger!Loses(x)
  BY DEF Wallet!Loses, Ledger!Loses
<1>2. Wallet!Reserve(r, c, x) <=> Ledger!Reserve(r, c, x)
  BY SameHeld, Zenon DEF Wallet!Reserve, Ledger!Reserve, Wallet!HeldForOthers, Ledger!HeldForOthers,
    Wallet!Left, Ledger!Left
<1>3. Wallet!Release(r) <=> Ledger!Release(r)
  BY Zenon DEF Wallet!Release, Ledger!Release, Wallet!Ended, Ledger!Ended
<1>4. Wallet!Settle(r, c, x) <=> Ledger!Settle(r, c, x)
  BY SameHeld, Zenon DEF Wallet!Settle, Ledger!Settle, Wallet!HeldForOthers, Ledger!HeldForOthers,
    Wallet!Left, Ledger!Left, Wallet!Ended, Ledger!Ended
<1>5. Wallet!Deduct(r, c, x) <=> Ledger!Deduct(r, c, x)
  BY SameHeld, Zenon DEF Wallet!Deduct, Ledger!Deduct, Wallet!Left, Ledger!Left
<1>6. Wallet!Fund(c, x) <=> Ledger!Fund(c, x)
  BY Zenon DEF Wallet!Fund, Ledger!Fund, Wallet!Left, Ledger!Left
<1>7. Wallet!Lapse(r) <=> Ledger!Lapse(r)
  BY Zenon DEF Wallet!Lapse, Ledger!Lapse
<1>. QED BY <1>1, <1>2, <1>3, <1>4, <1>5, <1>6, <1>7

\* What a step of the ledger leaves of the wallet.
ChargesKept == \A x \in Refs : charge[x] # None => charge'[x] # None
Solvent == Wallet!TypeOK' /\ Wallet!HoldsCovered' /\ ChargesKept

LEMMA LedgerSteps ==
  ASSUME Sound, [Ledger!Next]_(Ledger!vars)
  PROVE  Solvent
<1>1. Ledger!Covered
  BY SameLedger DEF Sound, TypeOK, Ledger!Covered
<1>2. Ledger!Covered'
  BY <1>1, LedgerConstants, Ledger!NextCovered
<1>3. Wallet!TypeOK' /\ Wallet!HoldsCovered'
  BY <1>2, SameLedger DEF Ledger!Covered
<1>4. ChargesKept
  BY <1>1, LedgerConstants, Ledger!StepIsFinal DEF ChargesKept, Ledger!Covered
<1>. QED BY <1>3, <1>4 DEF Solvent

\* The uses that the runs make of the wallet.
LEMMA Untouched ==
  ASSUME Sound, UNCHANGED wallet
  PROVE  Solvent
BY LedgerSteps DEF wallet, Ledger!vars

LEMMA WalletReserves ==
  ASSUME Sound, NEW r \in Refs, Wallet!Loses(0), Wallet!Reserve(r, HoldCredits, 0)
  PROVE  Solvent
<1>1. Ledger!Loses(0) /\ Ledger!Reserve(r, HoldCredits, 0)
  BY SameSteps
<1>2. Ledger!Next
  BY <1>1, ConstantsTyped DEF Ledger!Next
<1>. QED BY <1>2, LedgerSteps

LEMMA WalletReleases ==
  ASSUME Sound, NEW r \in Refs, Wallet!Loses(0), Wallet!Release(r)
  PROVE  Solvent
<1>1. Ledger!Loses(0) /\ Ledger!Release(r)
  BY SameSteps
<1>2. Ledger!Next
  BY <1>1 DEF Ledger!Next
<1>. QED BY <1>2, LedgerSteps

LEMMA WalletSettles ==
  ASSUME Sound, NEW r \in Refs, NEW c \in Costs, Wallet!Loses(0), Wallet!Settle(r, c, 0)
  PROVE  Solvent
<1>1. Ledger!Loses(0) /\ Ledger!Settle(r, c, 0)
  BY SameSteps
<1>2. Ledger!Next
  BY <1>1, ConstantsTyped DEF Ledger!Next
<1>. QED BY <1>2, LedgerSteps

LEMMA WalletDeducts ==
  ASSUME Sound, NEW r \in Refs, NEW c \in Costs, Wallet!Loses(0), Wallet!Deduct(r, c, 0)
  PROVE  Solvent
<1>1. Ledger!Loses(0) /\ Ledger!Deduct(r, c, 0)
  BY SameSteps
<1>2. Ledger!Next
  BY <1>1, ConstantsTyped DEF Ledger!Next
<1>. QED BY <1>2, LedgerSteps

LEMMA WalletFunds ==
  ASSUME Sound, Wallet!Loses(0), Wallet!Fund(1, 0)
  PROVE  Solvent
<1>1. Ledger!Loses(0) /\ Ledger!Fund(1, 0)
  BY SameSteps
<1>2. Ledger!Next
  BY <1>1, ConstantsTyped DEF Ledger!Next
<1>. QED BY <1>2, LedgerSteps

LEMMA WalletLapses ==
  ASSUME Sound, NEW S \in SUBSET Refs, Wallet!Loses(0), Wallet!Lapse(S)
  PROVE  Solvent
<1>1. Ledger!Loses(0) /\ Ledger!Lapse(S)
  BY SameSteps
<1>2. Ledger!Next
  BY <1>1 DEF Ledger!Next
<1>. QED BY <1>2, LedgerSteps

-----------------------------------------------------------------------------
(* Frames: what a step leaves to everybody but its own worker.             *)

Typed ==
  /\ world' \in [rev : Nat, saves : Nat, writes : SUBSET Writes]
  /\ row' \in [Runs -> RowType] /\ worker' \in [Workers -> WorkerType]
  /\ stopping' \subseteq Runs
  /\ log' \in [saves : Nat, landed : [Writes -> Nat]]
  /\ faults' \in Nat
Forward == world.rev <= world'.rev /\ (world'.rev = world.rev => world' = world)
Unmoved(r) ==
  row'[r].claim = row[r].claim /\ row'[r].rev = row[r].rev /\ row'[r].journal = row[r].journal
\* The row has the result it had, or none.
Plain(r) ==
  /\ row'[r].rev = row[r].rev \/ row'[r].rev <= world'.rev
  /\ \/ row'[r].journal = row[r].journal
     \/ row'[r].journal.phase # "generated" /\ ~ row'[r].journal.paid
\* Nothing that the invariant says of a worker is about its abort.
Same(v) ==
  /\ worker'[v].pc = worker[v].pc /\ worker'[v].run = worker[v].run
  /\ worker'[v].claimed = worker[v].claimed /\ worker'[v].rev = worker[v].rev
  /\ worker'[v].copy = worker[v].copy /\ worker'[v].saves = worker[v].saves
  /\ worker'[v].tries = worker[v].tries /\ worker'[v].step = worker[v].step
  /\ worker'[v].held = worker[v].held /\ worker'[v].replay = worker[v].replay
  /\ worker'[v].result = worker[v].result /\ worker'[v].restarts = worker[v].restarts
NoNewHolds(v) ==
  \A n \in 1 .. MaxTries : hold'[<<v, n>>].status = "active" => hold[<<v, n>>].status = "active"
Undisturbed(v) ==
  /\ \A r \in Runs : row'[r].claim = v => Unmoved(r)
  /\ \A t \in 1 .. MaxTries : <<v, t>> \in Fresh => <<v, t>> \in Fresh'
  /\ NoNewHolds(v)

LEMMA Bystander ==
  ASSUME Sound, NEW v \in Workers, Same(v), Undisturbed(v), Forward, Typed
  PROVE  WorkerOK(v)'
<1>1. worker[v] \in WorkerType /\ worker[v].tries \in 0 .. MaxTries /\ worker[v].run \in Runs \cup {None}
  BY DEF Sound, TypeOK, WorkerType
<1>2. WorkerOK(v)
  BY DEF Sound, Crew
<1>3. Local(v)'
  BY <1>2 DEF WorkerOK, Local, Live, Unstaged, Has, Same
<1>4. Live(v) => Row(v)' = row'[worker[v].run] /\ worker[v].run \in Runs
  BY <1>2 DEF Live, Row, Same, WorkerOK, Local
<1>5. Live(v) /\ Row(v)'.claim = v => Row(v).claim = v /\ Row(v)'.rev = Row(v).rev /\ Row(v)'.journal = Row(v).journal
  BY <1>4 DEF Undisturbed, Unmoved, Row
<1>6. worker[v].tries > 0 => worker[v].tries \in 1 .. MaxTries
  BY <1>1
<1>7. Named(v) => Named(v)'
  BY <1>6 DEF Named, NextRef, Same, Undisturbed
<1>8. Names(v)'
  BY <1>2, <1>5, <1>7 DEF WorkerOK, Names, Unstaged, NewResult, NextRef, Same, Undisturbed, Live
<1>9. Copies(v)'
  <2>1. world.rev \in Nat /\ world'.rev \in Nat /\ worker[v].rev \in Nat
    BY DEF Sound, TypeOK, WorkerType, Typed
  <2>2. worker'[v].rev <= world'.rev
    BY <1>2, <2>1 DEF WorkerOK, Copies, Same, Forward
  <2>3. worker'[v].rev = world'.rev => world' = world
    BY <1>2, <2>1 DEF WorkerOK, Copies, Same, Forward
  <2>4. Copied(v)' /\ worker'[v].rev = world'.rev => AtWorld(v)'
    BY <1>2, <2>3 DEF WorkerOK, Copies, Same, Copied, Unstaged, AtWorld
  <2>5. Live(v) => Row(v).rev <= world.rev /\ Row(v).rev \in Nat
    BY <1>2 DEF Sound, Rows, RowOK, Row, WorkerOK, Local, TypeOK, RowType
  <2>6. Has(v)' => Live(v) /\ Has(v)
    BY DEF Has, Live, Same
  <2>7. Has(v)' /\ Row(v)'.claim = v /\ Row(v)'.rev = world'.rev => world' = world /\ Row(v).rev = world.rev
    BY <1>5, <2>1, <2>5, <2>6 DEF Forward
  <2>8. Has(v)' /\ Row(v)'.claim = v =>
          /\ RowResult(v)'
          /\ Row(v)'.rev = world'.rev => AtWorld(v)'
          /\ worker'[v].pc = "write" => Row(v)'.journal.paid
    BY <1>2, <1>5, <2>6, <2>7 DEF WorkerOK, Copies, Same, RowResult, AtWorld
  <2>. QED BY <2>2, <2>4, <2>8 DEF Copies
<1>10. Holding(v)'
  BY <1>2 DEF WorkerOK, Holding, Same, Undisturbed, NoNewHolds, NextRef
<1>. QED BY <1>3, <1>8, <1>9, <1>10 DEF WorkerOK

\* Rows that get no result keep what holds of them.
LEMMA PlainRows ==
  ASSUME Sound, Typed, log'.landed = log.landed, Forward, ChargesKept,
         \A r \in Runs : Plain(r)
  PROVE  Rows' /\ Fresh \subseteq Fresh'
<1>1. InLog' = InLog
  BY DEF InLog
<1>2. \A r \in Runs : Phase(r)' = "generated" => Phase(r) = "generated" /\ row'[r].journal = row[r].journal
  BY DEF Plain, Phase
<1>3. Fresh \subseteq Fresh'
  BY <1>1, <1>2 DEF Fresh
<1>4. OneRow'
  BY <1>2 DEF OneRow, Sound, Rows
<1>5. ASSUME NEW r \in Runs
      PROVE  RowOK(r)'
  <2>1. RowOK(r)
    BY DEF Sound, Rows
  <2>2. Plain(r)
    OBVIOUS
  <2>3. row[r].rev \in Nat /\ row'[r].rev \in Nat /\ world.rev \in Nat /\ world'.rev \in Nat
    BY DEF Sound, TypeOK, Typed, RowType
  <2>4. row'[r].rev <= world'.rev
    BY <2>1, <2>2, <2>3 DEF RowOK, Plain, Forward
  <2>5. CASE row'[r].journal = row[r].journal
    BY <1>1, <2>1, <2>4, <2>5 DEF RowOK, ChargesKept
  <2>6. CASE row'[r].journal.phase # "generated" /\ ~ row'[r].journal.paid
    BY <2>4, <2>6 DEF RowOK
  <2>. QED BY <2>2, <2>5, <2>6 DEF Plain
<1>. QED BY <1>3, <1>4, <1>5 DEF Rows

\* The world and the log stay as they were.
LEMMA WorldStays ==
  ASSUME Sound, UNCHANGED <<world, log>>, ChargesKept
  PROVE  World' /\ Forward
<1>1. NothingIsOverwritten' /\ AppliedOnce'
  BY DEF Sound, World, NothingIsOverwritten, AppliedOnce
<1>2. \A x \in world.writes : x[1] \in Refs
  BY DEF Sound, TypeOK, Writes
<1>3. PaidBeforeApplied'
  BY <1>2 DEF Sound, World, PaidBeforeApplied, ChargesKept
<1>4. Forward
  BY DEF Forward, Sound, TypeOK
<1>. QED BY <1>1, <1>3, <1>4 DEF World

\* The state after a step, in the parts that Typed and Solvent speak of.
LEMMA TypedSolvent ==
  ASSUME Typed, Solvent
  PROVE  TypeOK' /\ Wallet!HoldsCovered'
BY DEF TypeOK, Typed, Solvent

\* A step of w that leaves the world alone and gives no row a new result.
LEMMA StepSound ==
  ASSUME Sound, NEW w \in Workers, Typed, Solvent, UNCHANGED <<world, log>>,
         \A r \in Runs : Plain(r) /\ (Unmoved(r) \/ row'[r].claim \in {w, None}),
         \A v \in Workers \ {w} : Same(v) /\ NoNewHolds(v),
         Fresh \subseteq Fresh' => WorkerOK(w)'
  PROVE  Sound'
<1>1. World' /\ Forward
  BY WorldStays DEF Solvent
<1>2. Rows' /\ Fresh \subseteq Fresh'
  BY <1>1, PlainRows DEF Solvent
<1>3. ASSUME NEW v \in Workers \ {w}
      PROVE  WorkerOK(v)'
  <2>1. v # None /\ v # w
    BY ConstantsTyped
  <2>2. Undisturbed(v)
    BY <1>2, <2>1 DEF Undisturbed
  <2>. QED BY <1>1, <2>2, Bystander
<1>4. Crew'
  BY <1>2, <1>3 DEF Crew
<1>. QED BY <1>1, <1>2, <1>4, TypedSolvent DEF Sound

\* A step that moves no worker and no result.
LEMMA FrameSound ==
  ASSUME Sound, Typed, Solvent, UNCHANGED <<world, log>>,
         \A r \in Runs : Plain(r) /\ (Unmoved(r) \/ row'[r].claim = None),
         \A v \in Workers : Same(v) /\ NoNewHolds(v)
  PROVE  Sound'
<1>1. World' /\ Forward
  BY WorldStays DEF Solvent
<1>2. Rows' /\ Fresh \subseteq Fresh'
  BY <1>1, PlainRows DEF Solvent
<1>3. ASSUME NEW v \in Workers
      PROVE  WorkerOK(v)'
  <2>1. v # None
    BY ConstantsTyped
  <2>2. Undisturbed(v)
    BY <1>2, <2>1 DEF Undisturbed
  <2>. QED BY <1>1, <2>2, Bystander
<1>4. Crew'
  BY <1>3 DEF Crew
<1>. QED BY <1>1, <1>2, <1>4, TypedSolvent DEF Sound

-----------------------------------------------------------------------------
(* What a step writes: a worker, a row.                                    *)

LEMMA Journals ==
  /\ Nothing \in JournalType /\ Preflight \in JournalType
  /\ Preflight.phase = "preflight" /\ ~ Preflight.paid
  /\ Nothing.phase = "none" /\ ~ Nothing.paid
<1>1. 0 \in 0 .. MaxWrites
  BY ConstantsTyped
<1>. QED BY <1>1 DEF Nothing, Preflight, Journal, JournalType

LEMMA IdleTyped == Idle \in WorkerType
<1>1. 0 \in 0 .. MaxTries /\ 0 \in 0 .. MaxRestarts
  BY ConstantsTyped
<1>. QED BY <1>1, Journals DEF Idle, WorkerType, Pcs

\* What is known of a worker and of its row.
LEMMA Known ==
  ASSUME Sound, NEW w \in Workers
  PROVE  /\ worker[w] \in WorkerType /\ WorkerOK(w) /\ world.rev \in Nat
         /\ Live(w) => /\ worker[w].run \in Runs /\ Row(w) \in RowType /\ RowOK(worker[w].run)
                       /\ Row(w).rev \in Nat /\ Row(w).rev <= world.rev
<1>1. worker[w] \in WorkerType /\ WorkerOK(w) /\ world.rev \in Nat
  BY DEF Sound, TypeOK, Crew
<1>2. Live(w) => worker[w].run \in Runs
  BY <1>1 DEF WorkerOK, Local
<1>3. Live(w) => Row(w) \in RowType /\ RowOK(worker[w].run)
  BY <1>2 DEF Sound, TypeOK, Rows, Row
<1>4. Live(w) => Row(w).rev \in Nat /\ Row(w).rev <= world.rev
  BY <1>3 DEF RowOK, Row, RowType
<1>. QED BY <1>1, <1>2, <1>3, <1>4

LEMMA OneWorker ==
  ASSUME Sound, NEW w \in Workers, NEW new \in WorkerType, Becomes(w, new)
  PROVE  /\ worker' \in [Workers -> WorkerType] /\ worker'[w] = new
         /\ \A v \in Workers \ {w} : Same(v)
<1>1. worker \in [Workers -> WorkerType]
  BY DEF Sound, TypeOK
<1>. QED BY <1>1 DEF Becomes, Same

LEMMA OneRowSet ==
  ASSUME Sound, NEW w \in Workers, Live(w), NEW new \in RowType, SetRow(w, new)
  PROVE  /\ row' \in [Runs -> RowType]
         /\ row'[worker[w].run].claim = new.claim /\ row'[worker[w].run].rev = new.rev
         /\ row'[worker[w].run].journal = new.journal
         /\ \A r \in Runs \ {worker[w].run} : Unmoved(r) /\ Plain(r)
<1>1. row \in [Runs -> RowType] /\ worker[w].run \in Runs
  BY Known DEF Sound, TypeOK
<1>2. [new EXCEPT !.stale = FALSE] \in RowType
  BY DEF RowType
<1>3. /\ [new EXCEPT !.stale = FALSE].claim = new.claim /\ [new EXCEPT !.stale = FALSE].rev = new.rev
      /\ [new EXCEPT !.stale = FALSE].journal = new.journal
  BY DEF RowType
<1>. QED BY <1>1, <1>2, <1>3 DEF SetRow, Unmoved, Plain

LEMMA RowsStay ==
  ASSUME Sound, row' = row
  PROVE  row' \in [Runs -> RowType] /\ \A r \in Runs : Unmoved(r) /\ Plain(r)
BY DEF Sound, TypeOK, Unmoved, Plain

\* A row that is only marked keeps its claim, its revision and its journal.
LEMMA MarksRow ==
  ASSUME Sound, NEW w \in Workers, Live(w),
         NEW s \in {"completed", "error", "awaiting_approval"}, Marks(w, s)
  PROVE  row' \in [Runs -> RowType] /\ \A r \in Runs : Unmoved(r) /\ Plain(r)
<1>1. CASE row' = row
  BY <1>1, RowsStay
<1>2. CASE SetRow(w, [Row(w) EXCEPT !.status = s])
  <2> DEFINE new == [Row(w) EXCEPT !.status = s]
  <2>1. Row(w) \in RowType
    BY Known
  <2>2. new \in RowType /\ new.claim = Row(w).claim /\ new.rev = Row(w).rev /\ new.journal = Row(w).journal
    BY <2>1 DEF RowType
  <2>3. SetRow(w, new)
    BY <1>2
  <2> HIDE DEF new
  <2>. QED BY <2>2, <2>3, OneRowSet DEF Unmoved, Plain, Row
<1>. QED BY <1>1, <1>2 DEF Marks

\* A row that is restored keeps its revision and its journal for whoever resumes.
LEMMA RestoresRow ==
  ASSUME Sound, NEW w \in Workers, Live(w), SetRow(w, Restored(w))
  PROVE  row' \in [Runs -> RowType] /\ \A r \in Runs : Plain(r) /\ (Unmoved(r) \/ row'[r].claim = None)
<1>1. Row(w) \in RowType
  BY Known
<1>2. /\ Restored(w) \in RowType /\ Restored(w).claim = None /\ Restored(w).rev = Row(w).rev
      /\ Restored(w).journal = Row(w).journal
  BY <1>1 DEF RowType, Restored
<1>. QED BY <1>2, OneRowSet DEF Plain, Row

\* A worker that is out of its step.
LEMMA OutFits ==
  ASSUME Sound, NEW w \in Workers, Live(w), NEW pc \in {"exit", "final", "card"}, Out(w, pc),
         pc = "exit" \/ ~ worker[w].held, NoNewHolds(w), world' = world
  PROVE  /\ worker' \in [Workers -> WorkerType] /\ \A v \in Workers \ {w} : Same(v)
         /\ Fresh \subseteq Fresh' => WorkerOK(w)'
<1> DEFINE new == [Idle EXCEPT !.pc = pc, !.run = worker[w].run, !.claimed = worker[w].claimed,
                     !.abort = worker[w].abort, !.late = worker[w].late,
                     !.held = worker[w].held, !.tries = worker[w].tries]
<1>1. worker[w] \in WorkerType /\ WorkerOK(w) /\ worker[w].run \in Runs /\ world.rev \in Nat
  BY Known
<1>2. new \in WorkerType
  BY <1>1, IdleTyped DEF WorkerType, Pcs
<1>3. /\ new.pc = pc /\ new.run = worker[w].run /\ new.held = worker[w].held
      /\ new.tries = worker[w].tries /\ new.rev = 0 /\ new.replay = FALSE
  BY DEF Idle
<1>4. Becomes(w, new)
  BY DEF Out
<1> HIDE DEF new
<1>5. worker' \in [Workers -> WorkerType] /\ worker'[w] = new /\ \A v \in Workers \ {w} : Same(v)
  BY <1>2, <1>4, OneWorker
<1>6. ASSUME Fresh \subseteq Fresh'
      PROVE  WorkerOK(w)'
  <2>1. Names(w)'
    BY <1>1, <1>3, <1>5, <1>6 DEF Names, WorkerOK, Unstaged, Live
  <2>2. Copies(w)'
    BY <1>1, <1>3, <1>5 DEF Copies, Copied, Unstaged, Has
  <2>3. Local(w)'
    BY <1>1, <1>3, <1>5 DEF Local, Live, Unstaged, Has
  <2>4. Holding(w)'
    BY <1>1, <1>3, <1>5 DEF Holding, WorkerOK, NoNewHolds, Live
  <2>. QED BY <2>1, <2>2, <2>3, <2>4 DEF WorkerOK
<1>. QED BY <1>5, <1>6

\* A worker that has left, without a hold unless it crashed.
LEMMA LeavesFits ==
  ASSUME Sound, NEW w \in Workers, NEW pc \in {"gone", "dead"}, Leaves(w, pc),
         pc = "dead" \/ \A n \in 1 .. MaxTries : hold'[<<w, n>>].status # "active", world' = world
  PROVE  /\ worker' \in [Workers -> WorkerType] /\ \A v \in Workers \ {w} : Same(v)
         /\ WorkerOK(w)'
<1> DEFINE new == [Idle EXCEPT !.pc = pc]
<1>1. world.rev \in Nat
  BY Known
<1>2. new \in WorkerType
  BY IdleTyped DEF WorkerType, Pcs
<1>3. new.pc = pc /\ new.held = FALSE /\ new.tries = 0 /\ new.rev = 0 /\ new.replay = FALSE
  BY DEF Idle
<1>4. Becomes(w, new)
  BY DEF Leaves
<1> HIDE DEF new
<1>5. worker' \in [Workers -> WorkerType] /\ worker'[w] = new /\ \A v \in Workers \ {w} : Same(v)
  BY <1>2, <1>4, OneWorker
<1>6. Names(w)'
  BY <1>3, <1>5 DEF Names, Unstaged
<1>7. Copies(w)'
  BY <1>1, <1>3, <1>5 DEF Copies, Copied, Unstaged, Has
<1>8. Local(w)'
  BY <1>3, <1>5 DEF Local, Live, Unstaged, Has
<1>9. Holding(w)'
  BY <1>3, <1>5 DEF Holding
<1>. QED BY <1>5, <1>6, <1>7, <1>8, <1>9 DEF WorkerOK

\* The parts of the state that a step of a worker has nothing to do with.
LEMMA RestTyped ==
  ASSUME Sound, UNCHANGED <<world, Budget>>, row' \in [Runs -> RowType],
         worker' \in [Workers -> WorkerType]
  PROVE  Typed /\ UNCHANGED <<world, log>>
<1>1. world' = world /\ stopping' = stopping /\ log' = log /\ faults' = faults
  BY DEF Budget
<1>. QED BY <1>1 DEF Typed, Sound, TypeOK

LEMMA WalletStays ==
  ASSUME UNCHANGED wallet
  PROVE  hold' = hold /\ charge' = charge /\ \A v \in Workers : NoNewHolds(v)
BY DEF wallet, NoNewHolds

\* A step that leaves the wallet, the world and the rows alone.
LEMMA OwnStep ==
  ASSUME Sound, NEW w \in Workers, UNCHANGED <<Rest, row>>, worker' \in [Workers -> WorkerType],
         \A v \in Workers \ {w} : Same(v), Fresh \subseteq Fresh' => WorkerOK(w)'
  PROVE  Sound'
<1>1. UNCHANGED wallet /\ UNCHANGED <<world, Budget>> /\ row' = row
  BY DEF Rest, Budget
<1>2. row' \in [Runs -> RowType] /\ \A r \in Runs : Unmoved(r) /\ Plain(r)
  BY <1>1, RowsStay
<1>3. Solvent /\ \A v \in Workers : NoNewHolds(v)
  BY <1>1, Untouched, WalletStays
<1>4. Typed /\ UNCHANGED <<world, log>>
  BY <1>1, <1>2, RestTyped
<1>. QED BY <1>2, <1>3, <1>4, StepSound

\* A step out of the loop that may write the row.
LEMMA OutStep ==
  ASSUME Sound, NEW w \in Workers, Live(w), NEW pc \in {"exit", "final", "card"}, Out(w, pc),
         pc = "exit" \/ ~ worker[w].held, UNCHANGED Rest, row' \in [Runs -> RowType],
         \A r \in Runs : Plain(r) /\ (Unmoved(r) \/ row'[r].claim \in {w, None})
  PROVE  Sound'
<1>1. UNCHANGED wallet /\ UNCHANGED <<world, Budget>> /\ world' = world
  BY DEF Rest, Budget
<1>2. Solvent /\ \A v \in Workers : NoNewHolds(v)
  BY <1>1, Untouched, WalletStays
<1>3. worker' \in [Workers -> WorkerType] /\ \A v \in Workers \ {w} : Same(v)
  BY <1>1, <1>2, OutFits
<1>4. Fresh \subseteq Fresh' => WorkerOK(w)'
  BY <1>1, <1>2, OutFits
<1>5. Typed /\ UNCHANGED <<world, log>>
  BY <1>1, <1>3, RestTyped
<1>. QED BY <1>2, <1>3, <1>4, <1>5, StepSound

\* The row after the catch of the loop.
LEMMA FailsRow ==
  ASSUME Sound, NEW w \in Workers, Live(w), Fails(w)
  PROVE  /\ row' \in [Runs -> RowType] /\ Out(w, "exit")
         /\ \A r \in Runs : Plain(r) /\ (Unmoved(r) \/ row'[r].claim \in {w, None})
BY MarksRow, RestoresRow DEF Fails

-----------------------------------------------------------------------------
(* The steps of a worker, up to the answer of the model.                   *)

\* A worker enters the loop, or takes back a run to answer its card.
LEMMA EntersFits ==
  ASSUME Sound, NEW w \in Workers, worker[w].pc = "idle",
         NEW pc \in {"loop", "answer"}, NEW new \in WorkerType, Becomes(w, new), world' = world,
         NoNewHolds(w), new.pc = pc, new.run \in Runs, ~ new.held, ~ new.replay, new.tries = 0,
         new.rev = 0
  PROVE  /\ worker' \in [Workers -> WorkerType] /\ \A v \in Workers \ {w} : Same(v)
         /\ Fresh \subseteq Fresh' => WorkerOK(w)'
<1>1. WorkerOK(w) /\ world.rev \in Nat /\ worker[w] \in WorkerType
  BY Known
<1>2. worker' \in [Workers -> WorkerType] /\ worker'[w] = new /\ \A v \in Workers \ {w} : Same(v)
  BY OneWorker
<1>3. new.step \in Nat /\ new.restarts \in Nat
  <2>1. new.restarts \in 0 .. MaxRestarts /\ new.step \in Nat
    BY DEF WorkerType
  <2>. QED BY <2>1
<1>4. ASSUME Fresh \subseteq Fresh'
      PROVE  WorkerOK(w)'
  <2>1. Names(w)'
    BY <1>1, <1>2, <1>4 DEF Names, WorkerOK, Local, Unstaged
  <2>2. Copies(w)'
    BY <1>1, <1>2 DEF Copies, Copied, Unstaged, Has
  <2>3. Local(w)'
    BY <1>2, <1>3 DEF Local, Live, Unstaged, Has
  <2>4. Holding(w)'
    BY <1>1, <1>2 DEF Holding, WorkerOK, NoNewHolds
  <2>. QED BY <2>1, <2>2, <2>3, <2>4 DEF WorkerOK
<1>. QED BY <1>2, <1>4

LEMMA LoopSound ==
  ASSUME Sound, NEW w \in Workers, Loop(w)
  PROVE  Sound'
<1> DEFINE self == worker[w]
           seen == [self EXCEPT !.rev = world.rev, !.copy = world.writes,
                                !.saves = world.saves, !.result = Preflight]
<1>1. self \in WorkerType /\ WorkerOK(w) /\ self.pc = "loop" /\ UNCHANGED <<Rest, row>>
  BY Known DEF Loop
<1>2. Live(w) /\ self.run \in Runs /\ ~ self.held
  BY <1>1, Known DEF Live, WorkerOK, Holding
<1>3. world' = world /\ UNCHANGED wallet /\ row' = row /\ UNCHANGED Rest
  BY <1>1 DEF Rest
<1>4. NoNewHolds(w)
  BY <1>3, WalletStays
<1>5. CASE Out(w, "final")
  <2>1. row' \in [Runs -> RowType] /\ \A r \in Runs : Unmoved(r) /\ Plain(r)
    BY <1>3, RowsStay
  <2>. QED BY <1>2, <1>3, <1>5, <2>1, OutStep
<1>6. CASE self.replay /\ Becomes(w, [self EXCEPT !.pc = "bill"])
  <2> DEFINE new == [self EXCEPT !.pc = "bill"]
  <2>1. new \in WorkerType
    BY <1>1 DEF WorkerType, Pcs
  <2>2. /\ new.pc = "bill" /\ new.run = self.run /\ new.claimed = self.claimed /\ new.rev = self.rev
        /\ new.copy = self.copy /\ new.saves = self.saves /\ new.tries = self.tries
        /\ new.step = self.step /\ new.held = self.held /\ new.replay = TRUE
        /\ new.result = self.result /\ new.restarts = self.restarts
    BY <1>1, <1>6 DEF WorkerType
  <2>3. Becomes(w, new)
    BY <1>6
  <2> HIDE DEF new
  <2>4. worker' \in [Workers -> WorkerType] /\ worker'[w] = new /\ \A v \in Workers \ {w} : Same(v)
    BY <2>1, <2>3, OneWorker
  <2>5. Has(w) /\ Row(w)' = Row(w)
    BY <1>1, <1>3, <1>6, <2>2, <2>4 DEF Has, Row
  <2>6. ASSUME Fresh \subseteq Fresh'
        PROVE  WorkerOK(w)'
    <3>1. Names(w)'
      BY <1>1, <2>2, <2>4, <2>6 DEF Names, WorkerOK, Unstaged
    <3>2. Copies(w)'
      BY <1>1, <1>3, <2>2, <2>4, <2>5 DEF Copies, WorkerOK, Copied, Unstaged, RowResult, AtWorld
    <3>3. Local(w)'
      <4>1. self.tries \in Nat /\ self.step \in Nat /\ self.restarts \in Nat
        <5>1. self.tries \in 0 .. MaxTries /\ self.step \in Nat /\ self.restarts \in 0 .. MaxRestarts
          BY <1>1 DEF WorkerType
        <5>. QED BY <5>1
      <4>. QED BY <1>1, <1>2, <2>2, <2>4, <2>5, <4>1 DEF Local, WorkerOK, Live, Unstaged, Has
    <3>4. Holding(w)'
      BY <1>1, <1>2, <1>4, <2>2, <2>4 DEF Holding, WorkerOK, NoNewHolds
    <3>. QED BY <3>1, <3>2, <3>3, <3>4 DEF WorkerOK
  <2>. QED BY <1>1, <2>4, <2>6, OwnStep
<1>7. ASSUME NEW pc \in {"pause", "stage"}, ~ self.replay, self.step < MaxSteps,
             Becomes(w, [seen EXCEPT !.pc = pc])
      PROVE  Sound'
  <2> DEFINE new == [seen EXCEPT !.pc = pc]
  <2>0. world.rev \in Nat /\ world.saves \in Nat /\ world.writes \subseteq Writes
    BY DEF Sound, TypeOK
  <2>1. new \in WorkerType
    BY <1>1, <2>0, Journals DEF WorkerType, Pcs
  <2>2. /\ new.pc = pc /\ new.run = self.run /\ new.claimed = self.claimed /\ new.rev = world.rev
        /\ new.copy = world.writes /\ new.saves = world.saves /\ new.tries = self.tries
        /\ new.step = self.step /\ new.held = self.held /\ new.replay = FALSE
        /\ new.result = Preflight /\ new.restarts = self.restarts
    BY <1>1, <1>7 DEF WorkerType
  <2>3. Becomes(w, new)
    BY <1>7
  <2> HIDE DEF new
  <2>4. worker' \in [Workers -> WorkerType] /\ worker'[w] = new /\ \A v \in Workers \ {w} : Same(v)
    BY <2>1, <2>3, OneWorker
  <2>6. ASSUME Fresh \subseteq Fresh'
        PROVE  WorkerOK(w)'
    <3>1. Names(w)'
      BY <1>1, <2>2, <2>4, <2>6, Journals DEF Names, WorkerOK, Unstaged
    <3>2. Copies(w)'
      BY <1>3, <2>0, <2>2, <2>4 DEF Copies, Has, AtWorld
    <3>3. Local(w)'
      BY <1>1, <1>2, <1>7, <2>2, <2>4 DEF Local, WorkerOK, Live, Unstaged, Has
    <3>4. Holding(w)'
      BY <1>1, <1>2, <1>4, <2>2, <2>4 DEF Holding, WorkerOK, NoNewHolds
    <3>. QED BY <3>1, <3>2, <3>3, <3>4 DEF WorkerOK
  <2>. QED BY <1>1, <2>4, <2>6, OwnStep
<1>8. \/ Out(w, "final")
      \/ self.replay /\ Becomes(w, [self EXCEPT !.pc = "bill"])
      \/ /\ ~ self.replay /\ self.step < MaxSteps
         /\ \E pc \in {"pause", "stage"} : Becomes(w, [seen EXCEPT !.pc = pc])
  BY DEF Loop
<1>. QED BY <1>5, <1>6, <1>7, <1>8

LEMMA AnswersSound ==
  ASSUME Sound, NEW w \in Workers, Answers(w)
  PROVE  Sound'
<1> DEFINE self == worker[w]
<1>1. self \in WorkerType /\ WorkerOK(w) /\ self.pc = "generate" /\ UNCHANGED <<Rest, row>>
  BY Known DEF Answers
<1>2. PICK c \in Costs, n \in 0 .. MaxWrites :
        Becomes(w, [self EXCEPT !.pc = "bill", !.result = Journal("generated", NextRef(w), c, n)])
  BY DEF Answers
<1> DEFINE j == Journal("generated", NextRef(w), c, n)
           new == [self EXCEPT !.pc = "bill", !.result = j]
<1>3. /\ world' = world /\ NoNewHolds(w) /\ Unstaged(w) /\ Named(w) /\ self.run \in Runs
      /\ self.claimed /\ ~ self.replay
  BY <1>1, WalletStays DEF Rest, Unstaged, WorkerOK, Names, Local, Live
<1>4. NextRef(w) \in Refs
  BY <1>3 DEF Named, Fresh
<1>5. /\ j \in JournalType /\ j.phase = "generated" /\ j.ref = NextRef(w) /\ j.cost = c
      /\ ~ j.paid /\ j.done = 0
  BY <1>4, ConstantsTyped DEF Journal, JournalType
<1> HIDE DEF j
<1>6. new \in WorkerType
  BY <1>1, <1>5 DEF WorkerType, Pcs
<1>7. /\ new.pc = "bill" /\ new.run = self.run /\ new.claimed = self.claimed /\ new.rev = self.rev
      /\ new.copy = self.copy /\ new.saves = self.saves /\ new.tries = self.tries
      /\ new.step = self.step /\ new.held = self.held /\ new.replay = self.replay
      /\ new.result = j /\ new.restarts = self.restarts
  BY <1>1 DEF WorkerType
<1>8. Becomes(w, new)
  BY <1>2 DEF j
<1> HIDE DEF new
<1>9. worker' \in [Workers -> WorkerType] /\ worker'[w] = new /\ \A v \in Workers \ {w} : Same(v)
  BY <1>6, <1>8, OneWorker
<1>10. ASSUME Fresh \subseteq Fresh'
       PROVE  WorkerOK(w)'
  <2>1. Named(w)' /\ NextRef(w)' = NextRef(w)
    BY <1>3, <1>7, <1>9, <1>10 DEF Named, NextRef
  <2>2. NewResult(w)'
    BY <1>5, <1>7, <1>9, <2>1 DEF NewResult
  <2>3. Names(w)'
    BY <1>1, <1>7, <1>9, <1>10, <2>1, <2>2 DEF Names, WorkerOK
  <2>4. Copies(w)'
    BY <1>1, <1>3, <1>7, <1>9 DEF Copies, WorkerOK, Copied, Has, AtWorld, Unstaged
  <2>5. Local(w)'
    BY <1>1, <1>3, <1>7, <1>9 DEF Local, WorkerOK, Live, Unstaged, Has
  <2>6. Holding(w)'
    BY <1>1, <1>3, <1>5, <1>7, <1>9, <2>1 DEF Holding, WorkerOK, NoNewHolds
  <2>. QED BY <2>3, <2>4, <2>5, <2>6 DEF WorkerOK
<1>. QED BY <1>1, <1>9, <1>10, OwnStep

\* A worker that pauses with nothing that could be applied.
LEMMA EmptyPause ==
  ASSUME Sound, NEW w \in Workers, Live(w), worker[w].pc \notin {"settle", "write"},
         NEW j \in JournalType, j.phase # "generated", ~ j.paid, Shelves(w, j),
         world' = world, NoNewHolds(w)
  PROVE  /\ worker' \in [Workers -> WorkerType] /\ \A v \in Workers \ {w} : Same(v)
         /\ Fresh \subseteq Fresh' => WorkerOK(w)'
<1> DEFINE self == worker[w]
           new == [self EXCEPT !.pc = "pause", !.result = j]
<1>1. self \in WorkerType /\ WorkerOK(w) /\ self.run \in Runs
  BY Known
<1>6. new \in WorkerType
  BY <1>1 DEF WorkerType, Pcs
<1>7. /\ new.pc = "pause" /\ new.run = self.run /\ new.claimed = self.claimed /\ new.rev = self.rev
      /\ new.copy = self.copy /\ new.saves = self.saves /\ new.tries = self.tries
      /\ new.step = self.step /\ new.held = self.held /\ new.replay = self.replay
      /\ new.result = j /\ new.restarts = self.restarts
  BY <1>1 DEF WorkerType
<1>8. Becomes(w, new)
  BY DEF Shelves
<1> HIDE DEF new
<1>9. worker' \in [Workers -> WorkerType] /\ worker'[w] = new /\ \A v \in Workers \ {w} : Same(v)
  BY <1>6, <1>8, OneWorker
<1>10. ASSUME Fresh \subseteq Fresh'
       PROVE  WorkerOK(w)'
  <2>3. Names(w)'
    BY <1>1, <1>7, <1>9, <1>10 DEF Names, WorkerOK, Live, Unstaged
  <2>4. Copies(w)'
    BY <1>1, <1>7, <1>9 DEF Copies, WorkerOK, Copied, Has, Unstaged
  <2>5. Local(w)'
    BY <1>1, <1>7, <1>9 DEF Local, WorkerOK, Live, Unstaged, Has
  <2>6. Holding(w)'
    BY <1>1, <1>7, <1>9 DEF Holding, WorkerOK, NoNewHolds, Live
  <2>. QED BY <2>3, <2>4, <2>5, <2>6 DEF WorkerOK
<1>. QED BY <1>9, <1>10

LEMMA AnswersUnpricedSound ==
  ASSUME Sound, NEW w \in Workers, AnswersUnpriced(w)
  PROVE  Sound'
<1> DEFINE j == Journal("unpriced", NextRef(w), 0, 0)
<1>1. worker[w].pc = "generate" /\ UNCHANGED <<Rest, row>> /\ Shelves(w, j)
  BY DEF AnswersUnpriced
<1>2. world' = world /\ NoNewHolds(w) /\ Unstaged(w) /\ Live(w)
  BY <1>1, WalletStays DEF Rest, Unstaged, Live
<1>3. NextRef(w) \in Refs
  BY <1>2, Known DEF WorkerOK, Names, Named, Fresh
<1>4. j \in JournalType /\ j.phase # "generated" /\ ~ j.paid
  <2>1. 0 \in 0 .. MaxWrites
    BY ConstantsTyped
  <2>. QED BY <1>3, <2>1 DEF Journal, JournalType
<1> HIDE DEF j
<1>5. worker' \in [Workers -> WorkerType] /\ \A v \in Workers \ {w} : Same(v)
  BY <1>1, <1>2, <1>4, EmptyPause
<1>6. Fresh \subseteq Fresh' => WorkerOK(w)'
  BY <1>1, <1>2, <1>4, EmptyPause
<1>. QED BY <1>1, <1>5, <1>6, OwnStep

LEMMA ProviderFailsSound ==
  ASSUME Sound, NEW w \in Workers, ProviderFails(w)
  PROVE  Sound'
<1>1. Live(w) /\ Out(w, "exit") /\ UNCHANGED Rest
  BY DEF ProviderFails, Live
<1>2. row' \in [Runs -> RowType] /\ \A r \in Runs : Unmoved(r) /\ Plain(r)
  BY <1>1, MarksRow DEF ProviderFails
<1>. QED BY <1>1, <1>2, OutStep

\* The ways out of the loop that leave the row to finalizeRun.
LEMMA QuietOutSound ==
  ASSUME Sound, NEW w \in Workers, Cut(w) \/ Concludes(w) \/ Breaks(w)
  PROVE  Sound'
<1>1. Live(w) /\ UNCHANGED Rest /\ row' = row
  BY DEF Cut, Concludes, Breaks, Live
<1>2. row' \in [Runs -> RowType] /\ \A r \in Runs : Unmoved(r) /\ Plain(r)
  BY <1>1, RowsStay
<1>3. \E pc \in {"exit", "final", "card"} : Out(w, pc) /\ (pc = "exit" \/ worker[w].pc = "write")
  BY DEF Cut, Concludes, Breaks
<1>4. worker[w].pc = "write" => ~ worker[w].held
  BY Known DEF WorkerOK, Holding
<1>. QED BY <1>1, <1>2, <1>3, <1>4, OutStep

-----------------------------------------------------------------------------
(* What happens around the loop.                                           *)

\* A worker that only learns something.
LEMMA Learns ==
  ASSUME Sound, NEW w \in Workers, NEW a \in {"", "stop", "lease", "watchdog", "shutdown"},
         NEW b \in BOOLEAN, Becomes(w, [worker[w] EXCEPT !.abort = a, !.late = b])
  PROVE  worker' \in [Workers -> WorkerType] /\ \A v \in Workers : Same(v)
<1> DEFINE self == worker[w]
           new == [self EXCEPT !.abort = a, !.late = b]
<1>1. self \in WorkerType
  BY Known
<1>2. new \in WorkerType
  BY <1>1 DEF WorkerType
<1>3. /\ new.pc = self.pc /\ new.run = self.run /\ new.claimed = self.claimed /\ new.rev = self.rev
      /\ new.copy = self.copy /\ new.saves = self.saves /\ new.tries = self.tries
      /\ new.step = self.step /\ new.held = self.held /\ new.replay = self.replay
      /\ new.result = self.result /\ new.restarts = self.restarts
  BY <1>1 DEF WorkerType
<1>4. Becomes(w, new)
  OBVIOUS
<1> HIDE DEF new
<1>5. worker' \in [Workers -> WorkerType] /\ worker'[w] = new /\ \A v \in Workers \ {w} : Same(v)
  BY <1>2, <1>4, OneWorker
<1>6. Same(w)
  BY <1>3, <1>5 DEF Same
<1>. QED BY <1>5, <1>6

LEMMA LearnsOf ==
  ASSUME Sound, NEW w \in Workers,
         \/ \E a \in {"stop", "watchdog", "shutdown"} : Becomes(w, [worker[w] EXCEPT !.abort = a])
         \/ Becomes(w, [worker[w] EXCEPT !.late = FALSE, !.abort = IF @ = "" THEN "lease" ELSE @])
  PROVE  worker' \in [Workers -> WorkerType] /\ \A v \in Workers : Same(v)
<1>1. worker[w] \in WorkerType
  BY Known
<1>2. \E a \in {"", "stop", "lease", "watchdog", "shutdown"}, b \in BOOLEAN :
        Becomes(w, [worker[w] EXCEPT !.abort = a, !.late = b])
  <2>1. ASSUME NEW a \in {"stop", "watchdog", "shutdown"}
        PROVE  [worker[w] EXCEPT !.abort = a] = [worker[w] EXCEPT !.abort = a, !.late = worker[w].late]
    BY <1>1 DEF WorkerType
  <2>2. [worker[w] EXCEPT !.late = FALSE, !.abort = IF @ = "" THEN "lease" ELSE @]
          = [worker[w] EXCEPT !.abort = IF worker[w].abort = "" THEN "lease" ELSE worker[w].abort,
                              !.late = FALSE]
    BY <1>1 DEF WorkerType
  <2>3. worker[w].late \in BOOLEAN /\ worker[w].abort \in {"", "stop", "lease", "watchdog", "shutdown"}
    BY <1>1 DEF WorkerType
  <2>4. CASE \E a \in {"stop", "watchdog", "shutdown"} : Becomes(w, [worker[w] EXCEPT !.abort = a])
    BY <2>1, <2>3, <2>4 DEF Becomes
  <2>5. CASE Becomes(w, [worker[w] EXCEPT !.late = FALSE, !.abort = IF @ = "" THEN "lease" ELSE @])
    <3>. DEFINE cause == IF worker[w].abort = "" THEN "lease" ELSE worker[w].abort
    <3>1. cause \in {"", "stop", "lease", "watchdog", "shutdown"}
      BY <2>3
    <3>2. Becomes(w, [worker[w] EXCEPT !.abort = cause, !.late = FALSE])
      BY <2>2, <2>5 DEF Becomes
    <3>. HIDE DEF cause
    <3>. QED BY <3>1, <3>2
  <2>. QED BY <2>4, <2>5
<1>. QED BY <1>2, Learns

LEMMA WatchdogSound ==
  ASSUME Sound, NEW w \in Workers, Watchdog(w)
  PROVE  Sound'
<1>1. Live(w) /\ Marks(w, "error") /\ UNCHANGED Rest
      /\ Becomes(w, [worker[w] EXCEPT !.abort = "watchdog"])
  BY DEF Watchdog, Live
<1>2. worker' \in [Workers -> WorkerType] /\ \A v \in Workers : Same(v)
  BY <1>1, LearnsOf
<1>3. row' \in [Runs -> RowType] /\ \A r \in Runs : Unmoved(r) /\ Plain(r)
  BY <1>1, MarksRow
<1>4. UNCHANGED wallet /\ UNCHANGED <<world, Budget>>
  BY <1>1 DEF Rest, Budget
<1>5. Typed /\ UNCHANGED <<world, log>>
  BY <1>2, <1>3, <1>4, RestTyped
<1>6. Solvent /\ \A v \in Workers : NoNewHolds(v)
  BY <1>4, Untouched, WalletStays
<1>. QED BY <1>2, <1>3, <1>5, <1>6, FrameSound

LEMMA LearnsSound ==
  ASSUME Sound, NEW w \in Workers, RenewalReply(w) \/ Notice(w) \/ Drain(w)
  PROVE  Sound'
<1>1. worker' \in [Workers -> WorkerType] /\ \A v \in Workers : Same(v)
  BY LearnsOf DEF RenewalReply, Notice, Drain
<1>2. UNCHANGED wallet /\ UNCHANGED <<world, stopping, log>> /\ row' = row /\ faults' \in {faults, faults + 1}
  BY DEF RenewalReply, Notice, Drain, Rest
<1>3. row' \in [Runs -> RowType] /\ \A r \in Runs : Unmoved(r) /\ Plain(r)
  BY <1>2, RowsStay
<1>4. Typed
  BY <1>1, <1>2, <1>3 DEF Typed, Sound, TypeOK
<1>5. Solvent /\ \A v \in Workers : NoNewHolds(v)
  BY <1>2, Untouched, WalletStays
<1>. QED BY <1>1, <1>2, <1>3, <1>4, <1>5, FrameSound

LEMMA CrashSound ==
  ASSUME Sound, NEW w \in Workers, Crash(w)
  PROVE  Sound'
<1>1. Leaves(w, "dead") /\ UNCHANGED <<wallet, world, row, stopping, log>> /\ faults' = faults + 1
  BY DEF Crash
<1>2. world' = world /\ row' = row /\ UNCHANGED wallet
  BY <1>1
<1>3. worker' \in [Workers -> WorkerType] /\ (\A v \in Workers \ {w} : Same(v)) /\ WorkerOK(w)'
  BY <1>1, <1>2, LeavesFits
<1>4. row' \in [Runs -> RowType] /\ \A r \in Runs : Unmoved(r) /\ Plain(r)
  BY <1>2, RowsStay
<1>5. Typed
  BY <1>1, <1>3, <1>4 DEF Typed, Sound, TypeOK
<1>6. Solvent /\ \A v \in Workers : NoNewHolds(v)
  BY <1>2, Untouched, WalletStays
<1>. QED BY <1>1, <1>3, <1>4, <1>5, <1>6, StepSound

\* A step that writes rows and nothing else.
LEMMA RowStep ==
  ASSUME Sound, row' \in [Runs -> RowType], UNCHANGED <<wallet, world, worker, log, faults>>,
         stopping' \subseteq Runs,
         \A r \in Runs : Plain(r) /\ (Unmoved(r) \/ row'[r].claim = None)
  PROVE  Sound'
<1>1. UNCHANGED wallet /\ worker' = worker /\ world' = world /\ log' = log /\ faults' = faults
  OBVIOUS
<1>2. \A v \in Workers : Same(v)
  BY <1>1 DEF Same
<1>3. Typed
  BY <1>1 DEF Typed, Sound, TypeOK
<1>4. Solvent /\ \A v \in Workers : NoNewHolds(v)
  BY <1>1, Untouched, WalletStays
<1>. QED BY <1>2, <1>3, <1>4, FrameSound

\* A run that is stopped gives up its claim and its result, or keeps both.
LEMMA StoppedRow ==
  ASSUME Sound, NEW r \in Runs
  PROVE  /\ Stopped(r) \in RowType /\ Stopped(r).rev = row[r].rev
         /\ \/ Stopped(r).claim = row[r].claim /\ Stopped(r).journal = row[r].journal
            \/ Stopped(r).claim = None /\ Stopped(r).journal = Nothing
<1>1. row[r] \in RowType
  BY DEF Sound, TypeOK
<1>2. CASE row[r].status = "running"
  <2>1. Stopped(r) = [row[r] EXCEPT !.status = "completed", !.why = "stopped", !.stale = FALSE,
                                    !.claim = None, !.journal = Nothing]
    BY <1>1, <1>2 DEF Stopped, RowType
  <2>. QED BY <1>1, <2>1, Journals DEF RowType
<1>3. CASE row[r].status # "running"
  <2>1. Stopped(r) = [row[r] EXCEPT !.status = "completed", !.why = "stopped", !.stale = FALSE]
    BY <1>1, <1>3 DEF Stopped, RowType
  <2>. QED BY <1>1, <2>1 DEF RowType
<1>. QED BY <1>2, <1>3

LEMMA StopWritesSound ==
  ASSUME Sound, NEW r \in Runs, StopWrites(r)
  PROVE  Sound'
<1>1. /\ UNCHANGED <<wallet, world, worker, log, faults>> /\ stopping' \subseteq Runs
      /\ row \in [Runs -> RowType] /\ (row' = row \/ row' = [row EXCEPT ![r] = Stopped(r)])
  BY DEF StopWrites, Sound, TypeOK
<1>2. row' \in [Runs -> RowType]
  BY <1>1, StoppedRow
<1>3. ASSUME NEW q \in Runs
      PROVE  Plain(q) /\ (Unmoved(q) \/ row'[q].claim = None)
  <2>1. row'[q] = row[q] \/ (q = r /\ row'[q] = Stopped(q))
    BY <1>1
  <2>. QED BY <2>1, StoppedRow, Journals DEF Plain, Unmoved
<1>. QED BY <1>1, <1>2, <1>3, RowStep

LEMMA DiscardSound ==
  ASSUME Sound, NEW r \in Runs, Discard(r)
  PROVE  Sound'
<1> DEFINE new == [Stopped(r) EXCEPT !.claim = None, !.journal = Nothing]
<1>1. /\ UNCHANGED <<Rest, worker>> /\ row \in [Runs -> RowType] /\ row' = [row EXCEPT ![r] = new]
  BY DEF Discard, Sound, TypeOK
<1>2. Stopped(r) \in RowType /\ Stopped(r).rev = row[r].rev
  BY StoppedRow
<1>3. new \in RowType /\ new.claim = None /\ new.journal = Nothing /\ new.rev = row[r].rev
  BY <1>2, Journals DEF RowType
<1> HIDE DEF new
<1>4. row' \in [Runs -> RowType]
  BY <1>1, <1>3
<1>5. \A q \in Runs : Plain(q) /\ (Unmoved(q) \/ row'[q].claim = None)
  BY <1>1, <1>3, Journals DEF Plain, Unmoved
<1>6. UNCHANGED <<wallet, world, worker, log, faults>> /\ stopping' \subseteq Runs
  BY <1>1 DEF Rest, Sound, TypeOK
<1>. QED BY <1>4, <1>5, <1>6, RowStep

LEMMA AgeSound ==
  ASSUME Sound, NEW r \in Runs, Age(r)
  PROVE  Sound'
<1> DEFINE new == [row[r] EXCEPT !.stale = TRUE]
<1>1. /\ UNCHANGED <<Rest, worker>> /\ row \in [Runs -> RowType] /\ row' = [row EXCEPT ![r] = new]
  BY DEF Age, Sound, TypeOK
<1>2. new \in RowType /\ new.claim = row[r].claim /\ new.journal = row[r].journal /\ new.rev = row[r].rev
  BY <1>1 DEF RowType
<1> HIDE DEF new
<1>3. row' \in [Runs -> RowType]
  BY <1>1, <1>2
<1>4. \A q \in Runs : Plain(q) /\ Unmoved(q)
  BY <1>1, <1>2 DEF Plain, Unmoved
<1>5. UNCHANGED <<wallet, world, worker, log, faults>> /\ stopping' \subseteq Runs
  BY <1>1 DEF Rest, Sound, TypeOK
<1>. QED BY <1>3, <1>4, <1>5, RowStep

LEMMA StopArrivesSound ==
  ASSUME Sound, NEW r \in Runs, StopArrives(r)
  PROVE  Sound'
<1>1. PICK here \in SUBSET Workers :
        worker' = [w \in Workers |->
          IF w \in here /\ ~ Aborted(w) THEN [worker[w] EXCEPT !.abort = "stop"] ELSE worker[w]]
  BY DEF StopArrives
<1>2. ASSUME NEW v \in Workers
      PROVE  worker'[v] \in WorkerType /\ Same(v)
  <2>1. worker[v] \in WorkerType
    BY Known
  <2>2. worker'[v] \in {worker[v], [worker[v] EXCEPT !.abort = "stop"]}
    BY <1>1
  <2>. QED BY <2>1, <2>2 DEF WorkerType, Same
<1>3. worker' \in [Workers -> WorkerType]
  BY <1>1, <1>2
<1>4. /\ UNCHANGED wallet /\ world' = world /\ row' = row /\ log' = log /\ faults' = faults + 1
      /\ stopping' = stopping \cup {r}
  BY DEF StopArrives
<1>5. row' \in [Runs -> RowType] /\ \A q \in Runs : Unmoved(q) /\ Plain(q)
  BY <1>4, RowsStay
<1>6. Typed
  BY <1>3, <1>4, <1>5 DEF Typed, Sound, TypeOK
<1>7. Solvent /\ \A v \in Workers : NoNewHolds(v)
  BY <1>4, Untouched, WalletStays
<1>. QED BY <1>2, <1>4, <1>5, <1>6, <1>7, FrameSound

LEMMA EditorSaveSound ==
  ASSUME Sound, EditorSave
  PROVE  Sound'
<1>1. /\ world' = [world EXCEPT !.rev = @ + 1, !.saves = @ + 1]
      /\ log' = [log EXCEPT !.saves = @ + 1]
      /\ UNCHANGED wallet /\ row' = row /\ worker' = worker /\ stopping' = stopping /\ faults' = faults
  BY DEF EditorSave
<1>2. /\ world \in [rev : Nat, saves : Nat, writes : SUBSET Writes]
      /\ log \in [saves : Nat, landed : [Writes -> Nat]]
  BY DEF Sound, TypeOK
<1>3. /\ world'.rev = world.rev + 1 /\ world'.saves = world.saves + 1 /\ world'.writes = world.writes
      /\ log'.saves = log.saves + 1 /\ log'.landed = log.landed /\ world.rev \in Nat
  BY <1>1, <1>2
<1>4. row' \in [Runs -> RowType] /\ \A r \in Runs : Unmoved(r) /\ Plain(r)
  BY <1>1, RowsStay
<1>5. Typed
  <2>0. world.rev + 1 \in Nat /\ world.saves + 1 \in Nat /\ log.saves + 1 \in Nat
    BY <1>2
  <2>1. world' \in [rev : Nat, saves : Nat, writes : SUBSET Writes]
    BY <1>1, <1>2, <2>0
  <2>2. log' \in [saves : Nat, landed : [Writes -> Nat]]
    BY <1>1, <1>2, <2>0
  <2>3. worker' \in [Workers -> WorkerType] /\ stopping' \subseteq Runs /\ faults' \in Nat
    BY <1>1 DEF Sound, TypeOK
  <2>. QED BY <1>4, <2>1, <2>2, <2>3 DEF Typed
<1>6. Solvent /\ \A v \in Workers : NoNewHolds(v)
  BY <1>1, Untouched, WalletStays
<1>7. Forward
  BY <1>3 DEF Forward
<1>8. Rows' /\ Fresh \subseteq Fresh'
  BY <1>3, <1>4, <1>5, <1>6, <1>7, PlainRows DEF Solvent
<1>9. ASSUME NEW v \in Workers
      PROVE  WorkerOK(v)'
  <2>1. Same(v)
    BY <1>1 DEF Same
  <2>2. Undisturbed(v)
    BY <1>4, <1>6, <1>8 DEF Undisturbed
  <2>. QED BY <1>5, <1>7, <2>1, <2>2, Bystander
<1>10. World'
  <2>1. NothingIsOverwritten' /\ AppliedOnce'
    BY <1>3 DEF Sound, World, NothingIsOverwritten, AppliedOnce
  <2>2. PaidBeforeApplied'
    BY <1>1, <1>3 DEF wallet, Sound, World, PaidBeforeApplied
  <2>. QED BY <2>1, <2>2 DEF World
<1>11. Crew'
  BY <1>9 DEF Crew
<1>. QED BY <1>5, <1>6, <1>8, <1>10, <1>11, TypedSolvent DEF Sound

\* A step of the wallet alone that activates no hold.
LEMMA WalletStep ==
  ASSUME Sound, Solvent, \A v \in Workers : NoNewHolds(v), UNCHANGED <<world, row, worker, Budget>>
  PROVE  Sound'
<1>1. UNCHANGED <<world, Budget>> /\ row' = row /\ worker' = worker
  OBVIOUS
<1>2. row' \in [Runs -> RowType] /\ \A r \in Runs : Unmoved(r) /\ Plain(r)
  BY <1>1, RowsStay
<1>3. worker' \in [Workers -> WorkerType] /\ \A v \in Workers : Same(v)
  BY <1>1 DEF Sound, TypeOK, Same
<1>4. Typed /\ UNCHANGED <<world, log>>
  BY <1>1, <1>2, <1>3, RestTyped
<1>. QED BY <1>2, <1>3, <1>4, FrameSound

LEMMA TopUpSound ==
  ASSUME Sound, TopUp
  PROVE  Sound'
<1>1. Wallet!Loses(0) /\ Wallet!Fund(1, 0) /\ UNCHANGED <<world, row, worker, Budget>>
  BY DEF TopUp
<1>2. Solvent
  BY <1>1, WalletFunds
<1>3. \A v \in Workers : NoNewHolds(v)
  BY <1>1 DEF Wallet!Fund, NoNewHolds
<1>. QED BY <1>1, <1>2, <1>3, WalletStep

LEMMA LapseSound ==
  ASSUME Sound, NEW w \in Workers, Lapse(w)
  PROVE  Sound'
<1>1. Wallet!Loses(0) /\ UNCHANGED <<world, row, worker, Budget>>
  BY DEF Lapse
<1>2. PICK n \in 1 .. MaxTries : Wallet!Lapse({<<w, n>>})
  BY DEF Lapse
<1>3. {<<w, n>>} \subseteq Refs
  BY DEF Refs
<1>4. Solvent
  BY <1>1, <1>2, <1>3, WalletLapses
<1>5. ASSUME NEW v \in Workers, NEW m \in 1 .. MaxTries, hold'[<<v, m>>].status = "active"
      PROVE  hold[<<v, m>>].status = "active"
  <2>1. <<v, m>> \in Refs
    BY DEF Refs
  <2>2. hold \in [Refs -> [status : Wallet!Statuses, credits : Nat]]
    BY DEF Sound, TypeOK, Wallet!TypeOK
  <2>3. hold'[<<v, m>>] \in {hold[<<v, m>>], [hold[<<v, m>>] EXCEPT !.status = "lapsed"]}
    BY <1>2, <2>1 DEF Wallet!Lapse
  <2>. QED BY <1>5, <2>1, <2>2, <2>3
<1>. QED BY <1>1, <1>4, <1>5, WalletStep DEF NoNewHolds

-----------------------------------------------------------------------------
(* Requests, and the steps that journal, reserve and pause.                *)

\* A step of w that writes its own row and nothing else but the worker.
LEMMA RowAndOwnStep ==
  ASSUME Sound, NEW w \in Workers, UNCHANGED Rest, worker' \in [Workers -> WorkerType],
         \A v \in Workers \ {w} : Same(v), row' \in [Runs -> RowType],
         \A r \in Runs : Plain(r) /\ (Unmoved(r) \/ row'[r].claim \in {w, None}),
         Fresh \subseteq Fresh' => WorkerOK(w)'
  PROVE  Sound'
<1>1. UNCHANGED wallet /\ UNCHANGED <<world, Budget>>
  BY DEF Rest, Budget
<1>2. Typed /\ UNCHANGED <<world, log>>
  BY <1>1, RestTyped
<1>3. Solvent /\ \A v \in Workers : NoNewHolds(v)
  BY <1>1, Untouched, WalletStays
<1>. QED BY <1>2, <1>3, StepSound

LEMMA RestStays ==
  ASSUME UNCHANGED Rest
  PROVE  world' = world /\ hold' = hold /\ charge' = charge /\ \A v \in Workers : NoNewHolds(v)
BY WalletStays DEF Rest, wallet

LEMMA StartSound ==
  ASSUME Sound, NEW w \in Workers, NEW r \in Runs, Start(w, r)
  PROVE  Sound'
<1> DEFINE new == [Idle EXCEPT !.run = r, !.pc = "loop"]
           Over(x) == [row[x] EXCEPT !.status = "completed", !.why = "superseded", !.stale = FALSE]
           born == [Unborn EXCEPT !.status = "running"]
<1>1. worker[w].pc = "idle" /\ UNCHANGED Rest /\ Becomes(w, new)
  BY DEF Start, Enters, Becomes
<1>2. row \in [Runs -> RowType]
  BY DEF Sound, TypeOK
<1>3. born \in RowType /\ born.claim = None /\ born.rev = 0 /\ born.journal = Nothing
  BY Journals DEF Unborn, RowType
<1>4. \A x \in Runs : /\ Over(x) \in RowType /\ Over(x).claim = row[x].claim
                      /\ Over(x).rev = row[x].rev /\ Over(x).journal = row[x].journal
  <2>1. TAKE x \in Runs
  <2>2. row[x] \in RowType
    BY <1>2
  <2>. HIDE DEF born
  <2>3. Over(x) \in RowType
    BY <2>2 DEF RowType
  <2>4. /\ Over(x).claim = row[x].claim /\ Over(x).rev = row[x].rev
        /\ Over(x).journal = row[x].journal
    BY <2>2 DEF RowType
  <2>. QED BY <2>3, <2>4
<1>5. row' = [x \in Runs |-> IF x = r THEN born ELSE IF row[x].status = "running" THEN Over(x) ELSE row[x]]
  BY DEF Start
<1> HIDE DEF born, Over
<1>6. row' \in [Runs -> RowType]
  BY <1>2, <1>3, <1>4, <1>5
<1>7. world' = world /\ world.rev \in Nat /\ NoNewHolds(w)
  BY <1>1, RestStays, Known
<1>8. ASSUME NEW q \in Runs
      PROVE  Plain(q) /\ (Unmoved(q) \/ row'[q].claim \in {w, None})
  <2>1. CASE q = r
    BY <1>3, <1>5, <1>7, <2>1, Journals DEF Plain
  <2>2. CASE q # r
    BY <1>4, <1>5, <2>2 DEF Plain, Unmoved
  <2>. QED BY <2>1, <2>2
<1>9. /\ new \in WorkerType /\ new.pc = "loop" /\ new.run \in Runs /\ ~ new.held /\ ~ new.replay
      /\ new.tries = 0 /\ new.rev = 0
  BY IdleTyped DEF WorkerType, Pcs, Idle
<1> HIDE DEF new
<1>10. worker' \in [Workers -> WorkerType] /\ \A v \in Workers \ {w} : Same(v)
  BY <1>1, <1>9, OneWorker
<1>11. Fresh \subseteq Fresh' => WorkerOK(w)'
  BY <1>1, <1>7, <1>9, EntersFits
<1>. QED BY <1>1, <1>6, <1>8, <1>10, <1>11, RowAndOwnStep

LEMMA AnswerSound ==
  ASSUME Sound, NEW w \in Workers, NEW r \in Runs, Answer(w, r)
  PROVE  Sound'
<1> DEFINE new == [Idle EXCEPT !.run = r, !.pc = "answer", !.step = row[r].step + 1]
           back == [row[r] EXCEPT !.status = "running", !.stale = FALSE]
<1>1. worker[w].pc = "idle" /\ UNCHANGED Rest /\ Becomes(w, new)
  BY DEF Answer, Becomes
<1>2. row \in [Runs -> RowType]
  BY DEF Sound, TypeOK
<1>3. back \in RowType /\ back.claim = row[r].claim /\ back.rev = row[r].rev /\ back.journal = row[r].journal
  BY <1>2 DEF RowType
<1>4. row' = [row EXCEPT ![r] = back]
  BY <1>2 DEF Answer
<1> HIDE DEF back
<1>5. row' \in [Runs -> RowType]
  BY <1>2, <1>3, <1>4
<1>6. \A q \in Runs : Plain(q) /\ Unmoved(q)
  BY <1>2, <1>3, <1>4 DEF Plain, Unmoved
<1>7. world' = world /\ NoNewHolds(w)
  BY <1>1, RestStays
<1>8. /\ new \in WorkerType /\ new.pc = "answer" /\ new.run \in Runs /\ ~ new.held /\ ~ new.replay
      /\ new.tries = 0 /\ new.rev = 0
  <2>1. row[r].step + 1 \in Nat
    <3>1. row[r].step \in Nat
      BY <1>2 DEF RowType
    <3>. QED BY <3>1
  <2>. QED BY <2>1, IdleTyped DEF WorkerType, Pcs, Idle
<1> HIDE DEF new
<1>9. worker' \in [Workers -> WorkerType] /\ \A v \in Workers \ {w} : Same(v)
  BY <1>1, <1>8, OneWorker
<1>10. Fresh \subseteq Fresh' => WorkerOK(w)'
  BY <1>1, <1>7, <1>8, EntersFits
<1>. QED BY <1>1, <1>5, <1>6, <1>9, <1>10, RowAndOwnStep

LEMMA ReenterSound ==
  ASSUME Sound, NEW w \in Workers, Reenter(w)
  PROVE  Sound'
<1> DEFINE self == worker[w]
           new == [self EXCEPT !.pc = "loop"]
           back == [Row(w) EXCEPT !.status = "running", !.step = self.step]
<1>1. /\ self \in WorkerType /\ WorkerOK(w) /\ self.pc = "answer" /\ UNCHANGED Rest
      /\ Becomes(w, new) /\ SetRow(w, back)
  BY Known DEF Reenter, Goes
<1>2. Live(w) /\ self.run \in Runs /\ Row(w) \in RowType /\ ~ self.replay /\ ~ self.held
  BY <1>1, Known DEF Live, WorkerOK, Local, Holding
<1>3. back \in RowType /\ back.claim = Row(w).claim /\ back.rev = Row(w).rev /\ back.journal = Row(w).journal
  BY <1>1, <1>2 DEF RowType, WorkerType
<1> HIDE DEF back
<1>4. row' \in [Runs -> RowType] /\ \A r \in Runs : Plain(r) /\ Unmoved(r)
  BY <1>1, <1>2, <1>3, OneRowSet DEF Plain, Unmoved, Row
<1>5. world' = world /\ NoNewHolds(w)
  BY <1>1, RestStays
<1>6. new \in WorkerType
  BY <1>1 DEF WorkerType, Pcs
<1>7. /\ new.pc = "loop" /\ new.run = self.run /\ new.rev = self.rev /\ new.tries = self.tries
      /\ new.step = self.step /\ new.held = self.held /\ new.replay = self.replay
      /\ new.restarts = self.restarts
  BY <1>1 DEF WorkerType
<1> HIDE DEF new
<1>8. worker' \in [Workers -> WorkerType] /\ worker'[w] = new /\ \A v \in Workers \ {w} : Same(v)
  BY <1>1, <1>6, OneWorker
<1>9. ASSUME Fresh \subseteq Fresh'
      PROVE  WorkerOK(w)'
  <2>1. Names(w)'
    BY <1>1, <1>2, <1>7, <1>8, <1>9 DEF Names, WorkerOK, Unstaged
  <2>2. Copies(w)'
    BY <1>1, <1>2, <1>5, <1>7, <1>8 DEF Copies, WorkerOK, Copied, Unstaged, Has
  <2>3. Local(w)'
    BY <1>1, <1>2, <1>7, <1>8 DEF Local, WorkerOK, Live, Unstaged, Has
  <2>4. Holding(w)'
    BY <1>1, <1>2, <1>5, <1>7, <1>8 DEF Holding, WorkerOK, NoNewHolds
  <2>. QED BY <2>1, <2>2, <2>3, <2>4 DEF WorkerOK
<1>. QED BY <1>1, <1>4, <1>8, <1>9, RowAndOwnStep

LEMMA ResumeSound ==
  ASSUME Sound, NEW w \in Workers, NEW r \in Runs, Resume(w, r)
  PROVE  Sound'
<1> DEFINE j == Rebased(r)
           new == [Idle EXCEPT !.claimed = TRUE, !.step = row[r].step, !.copy = world.writes,
                     !.saves = world.saves, !.replay = j.phase = "generated", !.result = j,
                     !.run = r, !.pc = "loop"]
           back == [row[r] EXCEPT !.status = "running", !.why = "", !.claim = w, !.stale = FALSE,
                      !.rev = world.rev, !.journal = j]
<1>1. worker[w].pc = "idle" /\ UNCHANGED Rest
  BY DEF Resume
<1>2. row \in [Runs -> RowType] /\ worker \in [Workers -> WorkerType]
  BY DEF Sound, TypeOK
<1>3. world.rev \in Nat /\ world.saves \in Nat /\ world.writes \subseteq Writes /\ WorkerOK(w)
  BY Known DEF Sound, TypeOK
<1>4. /\ j \in JournalType /\ (j = row[r].journal \/ j = Preflight)
      /\ j.phase = "generated" => j = row[r].journal
  BY <1>2, Journals DEF Rebased, RowType
<1> HIDE DEF j
<1>5. row' = [row EXCEPT ![r] = back]
  BY <1>2 DEF Resume, j
<1>6. Becomes(w, new)
  BY DEF Resume, Enters, Becomes, j
<1>7. back \in RowType /\ back.claim = w /\ back.rev = world.rev /\ back.journal = j
  BY <1>2, <1>3, <1>4 DEF RowType
<1> HIDE DEF back
<1>8. row' \in [Runs -> RowType]
  BY <1>2, <1>5, <1>7
<1>9. world' = world /\ NoNewHolds(w)
  BY <1>1, RestStays
<1>10. ASSUME NEW q \in Runs
       PROVE  Plain(q) /\ (Unmoved(q) \/ row'[q].claim \in {w, None})
  <2>1. CASE q = r
    BY <1>2, <1>3, <1>4, <1>5, <1>7, <1>9, <2>1, Journals DEF Plain
  <2>2. CASE q # r
    BY <1>2, <1>5, <2>2 DEF Plain, Unmoved
  <2>. QED BY <2>1, <2>2
<1>11. /\ new.pc = "loop" /\ new.run = r /\ new.claimed = TRUE /\ new.rev = 0 /\ new.tries = 0
       /\ new.copy = world.writes /\ new.saves = world.saves /\ new.held = FALSE
       /\ new.replay = (j.phase = "generated") /\ new.result = j /\ new.restarts = 0
       /\ new.step = row[r].step
  BY DEF Idle
<1>12. new \in WorkerType
  BY <1>2, <1>3, <1>4, IdleTyped DEF WorkerType, RowType, Pcs
<1> HIDE DEF new
<1>13. worker' \in [Workers -> WorkerType] /\ worker'[w] = new /\ \A v \in Workers \ {w} : Same(v)
  BY <1>6, <1>12, OneWorker
<1>14. ASSUME Fresh \subseteq Fresh'
       PROVE  WorkerOK(w)'
  <2>1. Names(w)'
    BY <1>1, <1>3, <1>11, <1>13, <1>14 DEF Names, WorkerOK, Local, Unstaged
  <2>2. Row(w)' = row'[r] /\ row'[r] = back
    BY <1>2, <1>5, <1>11, <1>13 DEF Row
  <2>3. Copies(w)'
    <3>1. AtWorld(w)' /\ worker'[w].rev <= world'.rev /\ ~ Copied(w)' /\ worker'[w].pc # "write"
      BY <1>3, <1>9, <1>11, <1>13 DEF AtWorld, Copied, Unstaged
    <3>2. Has(w)' => j.phase = "generated"
      BY <1>11, <1>13 DEF Has
    <3>3. j.phase = "generated" => RowResult(w)'
      BY <1>7, <1>11, <1>13, <2>2 DEF RowResult
    <3>. QED BY <3>1, <3>2, <3>3 DEF Copies
  <2>4. Local(w)'
    <3>1. row[r].step \in Nat
      BY <1>2 DEF RowType
    <3>. QED BY <1>11, <1>13, <3>1 DEF Local, Live, Unstaged, Has
  <2>5. Holding(w)'
    BY <1>1, <1>3, <1>9, <1>11, <1>13 DEF Holding, WorkerOK, NoNewHolds
  <2>. QED BY <2>1, <2>3, <2>4, <2>5 DEF WorkerOK
<1>. QED BY <1>1, <1>8, <1>10, <1>13, <1>14, RowAndOwnStep

\* A step begins again from the world as it is now.
LEMMA AgainFits ==
  ASSUME Sound, NEW w \in Workers, worker[w].pc \in {"stage", "bill"}, MayRestart(w),
         NEW late \in BOOLEAN, Becomes(w, [Again(w) EXCEPT !.late = late]), world' = world,
         \A n \in 1 .. MaxTries : hold'[<<w, n>>].status # "active"
  PROVE  /\ worker' \in [Workers -> WorkerType] /\ \A v \in Workers \ {w} : Same(v)
         /\ Fresh \subseteq Fresh' => WorkerOK(w)'
<1> DEFINE self == worker[w]
           new == [Again(w) EXCEPT !.late = late]
<1>1. self \in WorkerType /\ WorkerOK(w) /\ world.rev \in Nat /\ self.run \in Runs
  BY Known DEF Live
<1>2. self.restarts + 1 \in 0 .. MaxRestarts /\ self.tries \in Nat /\ self.step \in Nat /\ self.restarts \in Nat
  <2>1. self.restarts \in 0 .. MaxRestarts /\ self.tries \in 0 .. MaxTries /\ self.step \in Nat
    BY <1>1 DEF WorkerType
  <2>. QED BY <2>1, ConstantsTyped DEF MayRestart
<1>3. new \in WorkerType
  BY <1>1, <1>2, IdleTyped DEF Again, WorkerType, Pcs
<1>4. /\ new.pc = "loop" /\ new.run = self.run /\ new.rev = 0 /\ new.tries = self.tries
      /\ new.step = self.step /\ new.held = FALSE /\ new.replay = FALSE
      /\ new.restarts = self.restarts + 1
  BY DEF Again, Idle
<1>5. Becomes(w, new)
  OBVIOUS
<1> HIDE DEF new
<1>6. worker' \in [Workers -> WorkerType] /\ worker'[w] = new /\ \A v \in Workers \ {w} : Same(v)
  BY <1>3, <1>5, OneWorker
<1>7. ASSUME Fresh \subseteq Fresh'
      PROVE  WorkerOK(w)'
  <2>1. Names(w)'
    BY <1>1, <1>4, <1>6, <1>7 DEF Names, WorkerOK, Unstaged
  <2>2. Copies(w)'
    BY <1>1, <1>4, <1>6 DEF Copies, Copied, Unstaged, Has
  <2>3. Local(w)'
    BY <1>1, <1>2, <1>4, <1>6 DEF Local, WorkerOK, Live, Unstaged, Has
  <2>4. Holding(w)'
    BY <1>4, <1>6 DEF Holding
  <2>. QED BY <2>1, <2>2, <2>3, <2>4 DEF WorkerOK
<1>. QED BY <1>6, <1>7

\* A worker journals the step it is about to ask the model for.
LEMMA StagesPreflight ==
  ASSUME Sound, NEW w \in Workers, worker[w].pc = "stage", worker[w].rev = world.rev,
         SetRow(w, Staged(w)), UNCHANGED Rest,
         Becomes(w, [worker[w] EXCEPT !.pc = "reserve", !.claimed = TRUE, !.tries = @ + 1])
  PROVE  Sound'
<1> DEFINE self == worker[w]
           new == [self EXCEPT !.pc = "reserve", !.claimed = TRUE, !.tries = self.tries + 1]
<1>1. self \in WorkerType /\ WorkerOK(w) /\ Live(w) /\ self.run \in Runs /\ Row(w) \in RowType
  BY Known DEF Live
<1>2. /\ self.result = Preflight /\ AtWorld(w) /\ ~ self.held /\ ~ self.replay
      /\ self.step < MaxSteps /\ self.tries <= self.step + self.restarts
  BY <1>1 DEF WorkerOK, Names, Copies, Local, Holding, Copied
<1>3. /\ self.tries \in Nat /\ self.step \in Nat /\ self.restarts \in Nat
      /\ self.tries + 1 \in 1 .. MaxTries
  <2>1. self.restarts \in 0 .. MaxRestarts /\ self.tries \in 0 .. MaxTries /\ self.step \in Nat
    BY <1>1 DEF WorkerType
  <2>. QED BY <1>2, <2>1, ConstantsTyped DEF MaxTries
<1>4. Staged(w) \in RowType /\ Staged(w).claim = w /\ Staged(w).rev = world.rev /\ Staged(w).journal = Preflight
  BY <1>1, <1>2, Journals DEF Staged, RowType, WorkerType
<1>5. world' = world /\ NoNewHolds(w) /\ world.rev \in Nat
  BY RestStays, Known
<1>6. row' \in [Runs -> RowType] /\ \A r \in Runs : Plain(r) /\ (Unmoved(r) \/ row'[r].claim \in {w, None})
  BY <1>1, <1>4, <1>5, OneRowSet, Journals DEF Plain
<1>7. new \in WorkerType
  <2>1. self.tries + 1 \in 0 .. MaxTries
    BY <1>3
  <2>. QED BY <1>1, <2>1 DEF WorkerType, Pcs
<1>8. /\ new.pc = "reserve" /\ new.run = self.run /\ new.claimed = TRUE /\ new.rev = self.rev
      /\ new.copy = self.copy /\ new.saves = self.saves /\ new.tries = self.tries + 1
      /\ new.step = self.step /\ new.held = self.held /\ new.replay = self.replay
      /\ new.result = self.result /\ new.restarts = self.restarts
  BY <1>1 DEF WorkerType
<1>9. Becomes(w, new)
  BY <1>1
<1> HIDE DEF new
<1>10. worker' \in [Workers -> WorkerType] /\ worker'[w] = new /\ \A v \in Workers \ {w} : Same(v)
  BY <1>7, <1>9, OneWorker
<1>11. ASSUME Fresh \subseteq Fresh'
       PROVE  WorkerOK(w)'
  <2>1. \A t \in 1 .. MaxTries : t > self.tries => <<w, t>> \in Fresh'
    BY <1>1, <1>11 DEF WorkerOK, Names
  <2>2. \A t \in 1 .. MaxTries : t > self.tries + 1 => t > self.tries
    BY <1>3
  <2>3. Named(w)'
    <3>1. <<w, self.tries + 1>> \in Fresh'
      BY <1>3, <2>1
    <3>. QED BY <1>3, <1>8, <1>10, <3>1 DEF Named, NextRef
  <2>4. Names(w)'
    BY <1>2, <1>8, <1>10, <2>1, <2>2, <2>3 DEF Names
  <2>5. Copies(w)'
    BY <1>1, <1>2, <1>5, <1>8, <1>10 DEF Copies, WorkerOK, Has, AtWorld
  <2>6. Local(w)'
    BY <1>1, <1>2, <1>3, <1>8, <1>10 DEF Local, Live, Unstaged, Has
  <2>7. Holding(w)'
    BY <1>1, <1>2, <1>5, <1>8, <1>10 DEF Holding, WorkerOK, NoNewHolds
  <2>. QED BY <2>4, <2>5, <2>6, <2>7 DEF WorkerOK
<1>. QED BY <1>6, <1>10, <1>11, RowAndOwnStep

LEMMA StagePreflightSound ==
  ASSUME Sound, NEW w \in Workers, StagePreflight(w)
  PROVE  Sound'
<1>1. worker[w].pc = "stage" /\ Live(w) /\ UNCHANGED Rest
  BY DEF StagePreflight, Live
<1>2. WorkerOK(w) /\ ~ worker[w].held /\ worker[w].result = Preflight
  BY <1>1, Known DEF WorkerOK, Holding, Names
<1>3. world' = world /\ hold' = hold /\ NoNewHolds(w)
  BY <1>1, RestStays
<1>4. CASE Out(w, "exit") /\ row' = row
  <2>1. row' \in [Runs -> RowType] /\ \A r \in Runs : Unmoved(r) /\ Plain(r)
    BY <1>4, RowsStay
  <2>. QED BY <1>1, <1>4, <2>1, OutStep
<1>5. CASE row' = row /\ MayRestart(w) /\ Becomes(w, [Again(w) EXCEPT !.late = worker[w].late])
  <2>1. \A n \in 1 .. MaxTries : hold'[<<w, n>>].status # "active"
    BY <1>1, <1>2, <1>3 DEF WorkerOK, Holding
  <2>2. worker[w].late \in BOOLEAN
    BY Known DEF WorkerType
  <2>3. worker' \in [Workers -> WorkerType] /\ \A v \in Workers \ {w} : Same(v)
    BY <1>1, <1>3, <1>5, <2>1, <2>2, AgainFits
  <2>4. Fresh \subseteq Fresh' => WorkerOK(w)'
    BY <1>1, <1>3, <1>5, <2>1, <2>2, AgainFits
  <2>5. UNCHANGED <<Rest, row>>
    BY <1>1, <1>5
  <2>. QED BY <2>3, <2>4, <2>5, OwnStep
<1>6. CASE row' = row /\ Becomes(w, [worker[w] EXCEPT !.pc = "pause"])
  <2>1. [worker[w] EXCEPT !.pc = "pause"] = [worker[w] EXCEPT !.pc = "pause", !.result = Preflight]
    BY <1>2, Known DEF WorkerType
  <2>2. Shelves(w, Preflight)
    BY <1>6, <2>1 DEF Shelves
  <2>3. worker' \in [Workers -> WorkerType] /\ \A v \in Workers \ {w} : Same(v)
    BY <1>1, <1>3, <2>2, Journals, EmptyPause
  <2>4. Fresh \subseteq Fresh' => WorkerOK(w)'
    BY <1>1, <1>3, <2>2, Journals, EmptyPause
  <2>5. UNCHANGED <<Rest, row>>
    BY <1>1, <1>6
  <2>. QED BY <2>3, <2>4, <2>5, OwnStep
<1>7. CASE /\ worker[w].rev = world.rev /\ SetRow(w, Staged(w))
           /\ Becomes(w, [worker[w] EXCEPT !.pc = "reserve", !.claimed = TRUE, !.tries = @ + 1])
  BY <1>1, <1>7, StagesPreflight
<1>. QED BY <1>4, <1>5, <1>6, <1>7 DEF StagePreflight

-----------------------------------------------------------------------------
(* Holds and payments.                                                     *)

LEMMA HoldsTyped ==
  ASSUME Sound
  PROVE  /\ hold \in [Refs -> [status : Wallet!Statuses, credits : Nat]]
         /\ charge \in [Refs -> Nat \cup {None}] /\ lost \in Nat
         /\ \A v \in Workers, n \in 1 .. MaxTries : <<v, n>> \in Refs
BY DEF Sound, TypeOK, Wallet!TypeOK, Refs

LEMMA NextRefTyped ==
  ASSUME Sound, NEW w \in Workers, worker[w].tries > 0
  PROVE  NextRef(w) \in Refs /\ worker[w].tries \in 1 .. MaxTries
<1>1. worker[w].tries \in 0 .. MaxTries
  BY Known DEF WorkerType
<1>2. worker[w].tries \in 1 .. MaxTries
  BY <1>1
<1>. QED BY <1>2 DEF NextRef, Refs

\* Nothing is held for a worker once the hold of its last try has ended.
LEMMA LastHoldEnds ==
  ASSUME Sound, NEW w \in Workers, worker[w].pc # "dead", NEW x \in Refs, NEW h,
         h.status # "active", worker[w].held => x = NextRef(w),
         hold' = [hold EXCEPT ![x] = h]
  PROVE  /\ \A n \in 1 .. MaxTries : hold'[<<w, n>>].status # "active"
         /\ \A v \in Workers : NoNewHolds(v)
<1>1. hold'[x].status # "active" /\ \A y \in Refs \ {x} : hold'[y] = hold[y]
  BY HoldsTyped
<1>2. ASSUME NEW v \in Workers, NEW n \in 1 .. MaxTries, hold'[<<v, n>>].status = "active"
      PROVE  <<v, n>> # x /\ hold[<<v, n>>].status = "active"
  BY <1>1, <1>2, HoldsTyped
<1>3. \A v \in Workers : NoNewHolds(v)
  BY <1>2 DEF NoNewHolds
<1>4. ASSUME NEW n \in 1 .. MaxTries, hold'[<<w, n>>].status = "active"
      PROVE  FALSE
  <2>1. worker[w].held /\ n = worker[w].tries
    BY <1>2, <1>4, Known DEF WorkerOK, Holding
  <2>. QED BY <1>2, <1>4, <2>1 DEF NextRef
<1>. QED BY <1>3, <1>4

LEMMA ReleasesHold ==
  ASSUME Sound, NEW w \in Workers, worker[w].pc # "dead", NEW x,
         worker[w].held => x = NextRef(w), ReleaseHold(w, x)
  PROVE  /\ Solvent
         /\ \A n \in 1 .. MaxTries : hold'[<<w, n>>].status # "active"
         /\ \A v \in Workers : NoNewHolds(v)
<1>1. CASE worker[w].held /\ hold[x].status \in {"active", "lapsed"}
  <2>1. x \in Refs
    BY <1>1, Known, NextRefTyped DEF WorkerOK, Holding
  <2>2. Wallet!Loses(0) /\ Wallet!Release(x)
    BY <1>1 DEF ReleaseHold
  <2>3. Solvent
    BY <2>1, <2>2, WalletReleases
  <2>4. hold' = [hold EXCEPT ![x] = Wallet!Ended("released")] /\ Wallet!Ended("released").status # "active"
    BY <2>2 DEF Wallet!Release, Wallet!Ended
  <2>. QED BY <2>1, <2>3, <2>4, LastHoldEnds
<1>2. CASE ~ (worker[w].held /\ hold[x].status \in {"active", "lapsed"})
  <2>1. UNCHANGED wallet
    BY <1>2 DEF ReleaseHold
  <2>2. Solvent /\ hold' = hold /\ \A v \in Workers : NoNewHolds(v)
    BY <2>1, Untouched, WalletStays
  <2>3. ASSUME NEW n \in 1 .. MaxTries, hold[<<w, n>>].status = "active"
        PROVE  FALSE
    <3>1. worker[w].held /\ n = worker[w].tries
      BY <2>3, Known DEF WorkerOK, Holding
    <3>. QED BY <1>2, <2>3, <3>1 DEF NextRef
  <2>. QED BY <2>2, <2>3
<1>. QED BY <1>1, <1>2

\* Whoever has paid has a charge and no hold.
LEMMA PaysOnce ==
  ASSUME Sound, NEW w \in Workers, worker[w].pc # "dead", NEW c \in Costs, Ref(w) \in Refs,
         worker[w].held => Ref(w) = NextRef(w), Wallet!Loses(0), Pays(w, c)
  PROVE  /\ Solvent /\ charge'[Ref(w)] # None
         /\ \A n \in 1 .. MaxTries : hold'[<<w, n>>].status # "active"
         /\ \A v \in Workers : NoNewHolds(v)
<1> DEFINE x == Ref(w)
<1>0. c \in Nat /\ c # 0 /\ c # None /\ x \in Refs
  BY ConstantsTyped
<1>1. CASE worker[w].held
  <2>1. Wallet!Settle(x, c, 0)
    BY <1>1 DEF Pays
  <2>2. Solvent
    BY <1>0, <2>1, WalletSettles
  <2>3. hold' = [hold EXCEPT ![x] = Wallet!Ended("settled")] /\ Wallet!Ended("settled").status # "active"
    BY <2>1 DEF Wallet!Settle, Wallet!Ended
  <2>4. charge'[x] # None
    BY <1>0, <2>1, HoldsTyped DEF Wallet!Settle
  <2>5. worker[w].held => x = NextRef(w)
    OBVIOUS
  <2> HIDE DEF x
  <2>6. /\ \A n \in 1 .. MaxTries : hold'[<<w, n>>].status # "active"
        /\ \A v \in Workers : NoNewHolds(v)
    BY <1>0, <2>3, <2>5, LastHoldEnds
  <2>. QED BY <2>2, <2>4, <2>6 DEF x
<1>2. CASE ~ worker[w].held
  <2>1. hold' = hold
    BY <1>2 DEF Pays, Wallet!Deduct
  <2>2. Solvent /\ charge'[x] # None
    <3>1. CASE charge[x] = None
      <4>1. Wallet!Deduct(x, c, 0)
        BY <1>2, <3>1 DEF Pays
      <4>2. charge'[x] # None
        BY <1>0, <4>1, HoldsTyped DEF Wallet!Deduct
      <4>. QED BY <1>0, <4>1, <4>2, WalletDeducts
    <3>2. CASE charge[x] # None
      <4>1. UNCHANGED <<balance, hold, charge, refunded>>
        BY <1>2, <3>2 DEF Pays
      <4>2. lost' = lost + 0 /\ lost + 0 = lost
        BY HoldsTyped DEF Wallet!Loses
      <4>3. UNCHANGED wallet
        BY <4>1, <4>2 DEF wallet
      <4>. QED BY <3>2, <4>1, <4>3, Untouched
    <3>. QED BY <3>1, <3>2
  <2>3. \A n \in 1 .. MaxTries : hold[<<w, n>>].status # "active"
    BY <1>2, Known DEF WorkerOK, Holding
  <2>. QED BY <2>1, <2>2, <2>3 DEF NoNewHolds
<1>. QED BY <1>1, <1>2

\* A hold is for the try it was made for.
LEMMA TakesHold ==
  ASSUME Sound, NEW w \in Workers, worker[w].pc = "reserve", Wallet!Loses(0),
         Wallet!Reserve(NextRef(w), HoldCredits, 0), UNCHANGED <<world, row, Budget>>,
         Becomes(w, [worker[w] EXCEPT !.pc = "generate", !.held = TRUE])
  PROVE  Sound'
<1> DEFINE self == worker[w]
           new == [self EXCEPT !.pc = "generate", !.held = TRUE]
<1>1. self \in WorkerType /\ WorkerOK(w) /\ Live(w) /\ self.run \in Runs
  BY Known DEF Live
<1>2. Unstaged(w) /\ Named(w) /\ self.claimed /\ ~ self.held /\ ~ self.replay
  BY <1>1 DEF Unstaged, WorkerOK, Names, Local, Holding
<1>3. NextRef(w) \in Refs /\ self.tries > 0
  BY <1>2, NextRefTyped DEF Named
<1>4. Solvent
  BY <1>3, WalletReserves
<1>5. \A y \in Refs \ {NextRef(w)} : hold'[y] = hold[y]
  BY HoldsTyped DEF Wallet!Reserve
<1>6. \A v \in Workers \ {w} : NoNewHolds(v)
  BY <1>5, HoldsTyped DEF NoNewHolds, NextRef
<1>7. \A n \in 1 .. MaxTries : hold'[<<w, n>>].status = "active" => n = self.tries
  BY <1>1, <1>2, <1>5, HoldsTyped DEF NextRef, WorkerOK, Holding
<1>8. world' = world /\ row' = row /\ UNCHANGED <<world, Budget>>
  OBVIOUS
<1>9. row' \in [Runs -> RowType] /\ \A r \in Runs : Unmoved(r) /\ Plain(r)
  BY <1>8, RowsStay
<1>10. new \in WorkerType
  BY <1>1 DEF WorkerType, Pcs
<1>11. /\ new.pc = "generate" /\ new.run = self.run /\ new.claimed = self.claimed /\ new.rev = self.rev
       /\ new.copy = self.copy /\ new.saves = self.saves /\ new.tries = self.tries
       /\ new.step = self.step /\ new.held = TRUE /\ new.replay = self.replay
       /\ new.result = self.result /\ new.restarts = self.restarts
  BY <1>1 DEF WorkerType
<1>12. Becomes(w, new)
  OBVIOUS
<1> HIDE DEF new
<1>13. worker' \in [Workers -> WorkerType] /\ worker'[w] = new /\ \A v \in Workers \ {w} : Same(v)
  BY <1>10, <1>12, OneWorker
<1>14. Typed /\ UNCHANGED <<world, log>>
  BY <1>8, <1>9, <1>13, RestTyped
<1>15. ASSUME Fresh \subseteq Fresh'
       PROVE  WorkerOK(w)'
  <2>1. Named(w)'
    BY <1>2, <1>11, <1>13, <1>15 DEF Named, NextRef
  <2>2. Names(w)'
    BY <1>1, <1>11, <1>13, <1>15, <2>1 DEF Names, WorkerOK
  <2>3. Copies(w)'
    BY <1>1, <1>2, <1>8, <1>11, <1>13 DEF Copies, WorkerOK, Copied, Has, AtWorld
  <2>4. Local(w)'
    BY <1>1, <1>2, <1>11, <1>13 DEF Local, WorkerOK, Live, Unstaged, Has
  <2>5. Holding(w)'
    BY <1>3, <1>7, <1>11, <1>13 DEF Holding
  <2>. QED BY <2>2, <2>3, <2>4, <2>5 DEF WorkerOK
<1>. QED BY <1>4, <1>6, <1>9, <1>13, <1>14, <1>15, StepSound

LEMMA ReserveSound ==
  ASSUME Sound, NEW w \in Workers, Reserve(w)
  PROVE  Sound'
<1>1. worker[w].pc = "reserve" /\ UNCHANGED <<world, row, Budget>>
  BY DEF Reserve
<1>2. CASE /\ Wallet!Loses(0) /\ Wallet!Reserve(NextRef(w), HoldCredits, 0)
           /\ Becomes(w, [worker[w] EXCEPT !.pc = "generate", !.held = TRUE])
  BY <1>1, <1>2, TakesHold
<1>3. CASE Goes(w, "pause") /\ UNCHANGED wallet
  <2>1. UNCHANGED <<Rest, row>>
    BY <1>1, <1>3 DEF Rest, Budget
  <2>2. world' = world /\ NoNewHolds(w) /\ Live(w)
    BY <1>1, <1>3, WalletStays DEF Live
  <2>3. [worker[w] EXCEPT !.pc = "pause"] = [worker[w] EXCEPT !.pc = "pause", !.result = Preflight]
    BY <1>1, Known DEF WorkerType, WorkerOK, Names
  <2>4. Shelves(w, Preflight)
    BY <1>3, <2>3 DEF Shelves, Goes
  <2>5. worker' \in [Workers -> WorkerType] /\ \A v \in Workers \ {w} : Same(v)
    BY <1>1, <2>2, <2>4, Journals, EmptyPause
  <2>6. Fresh \subseteq Fresh' => WorkerOK(w)'
    BY <1>1, <2>2, <2>4, Journals, EmptyPause
  <2>. QED BY <2>1, <2>5, <2>6, OwnStep
<1>. QED BY <1>2, <1>3 DEF Reserve

LEMMA PayAbortedSound ==
  ASSUME Sound, NEW w \in Workers, PayAborted(w)
  PROVE  Sound'
<1>1. worker[w].pc = "bill" /\ UNCHANGED <<world, row, Budget>> /\ Live(w)
  BY DEF PayAborted, Live
<1>2. world' = world /\ row' = row /\ UNCHANGED <<world, Budget>>
  BY <1>1
<1>3. row' \in [Runs -> RowType] /\ \A r \in Runs : Unmoved(r) /\ Plain(r)
  BY <1>2, RowsStay
<1>4. CASE Out(w, "exit") /\ UNCHANGED wallet
  <2>1. UNCHANGED Rest
    BY <1>1, <1>4 DEF Rest, Budget
  <2>. QED BY <1>1, <1>3, <1>4, <2>1, OutStep
<1>5. CASE worker[w].held /\ Wallet!Loses(0) /\ Pays(w, worker[w].result.cost) /\ Leaves(w, "gone")
  <2>1. Ref(w) = NextRef(w) /\ NextRef(w) \in Refs /\ worker[w].result.cost \in Costs
    BY <1>1, <1>5, Known, NextRefTyped DEF WorkerOK, Holding, Names, NewResult, Ref
  <2>2. /\ Solvent /\ \A n \in 1 .. MaxTries : hold'[<<w, n>>].status # "active"
        /\ \A v \in Workers : NoNewHolds(v)
    BY <1>1, <1>5, <2>1, PaysOnce
  <2>3. worker' \in [Workers -> WorkerType] /\ (\A v \in Workers \ {w} : Same(v)) /\ WorkerOK(w)'
    BY <1>2, <1>5, <2>2, LeavesFits
  <2>4. Typed /\ UNCHANGED <<world, log>>
    BY <1>2, <1>3, <2>3, RestTyped
  <2>. QED BY <1>3, <2>2, <2>3, <2>4, StepSound
<1>6. CASE Shelves(w, Preflight) /\ UNCHANGED wallet
  <2>1. UNCHANGED <<Rest, row>>
    BY <1>1, <1>6 DEF Rest, Budget
  <2>2. NoNewHolds(w)
    BY <1>6, WalletStays
  <2>3. worker' \in [Workers -> WorkerType] /\ \A v \in Workers \ {w} : Same(v)
    BY <1>1, <1>2, <1>6, <2>2, Journals, EmptyPause
  <2>4. Fresh \subseteq Fresh' => WorkerOK(w)'
    BY <1>1, <1>2, <1>6, <2>2, Journals, EmptyPause
  <2>. QED BY <2>1, <2>3, <2>4, OwnStep
<1>. QED BY <1>4, <1>5, <1>6 DEF PayAborted

LEMMA ExitSound ==
  ASSUME Sound, NEW w \in Workers, Exit(w)
  PROVE  Sound'
<1> DEFINE self == worker[w]
           new == [self EXCEPT !.pc = "release"]
           error == [Row(w) EXCEPT !.status = "error"]
<1>1. self \in WorkerType /\ WorkerOK(w) /\ self.pc = "exit" /\ UNCHANGED Rest /\ Live(w) /\ Becomes(w, new)
  BY Known DEF Exit, Live, Goes
<1>2. row' \in [Runs -> RowType] /\ \A r \in Runs : Plain(r) /\ (Unmoved(r) \/ row'[r].claim \in {w, None})
  <2>1. CASE SetRow(w, Restored(w))
    BY <1>1, <2>1, RestoresRow
  <2>2. CASE SetRow(w, error)
    <3>1. error \in RowType /\ error.claim = Row(w).claim /\ error.rev = Row(w).rev /\ error.journal = Row(w).journal
      BY <1>1, Known DEF RowType
    <3> HIDE DEF error
    <3>. QED BY <1>1, <2>2, <3>1, OneRowSet DEF Unmoved, Plain, Row
  <2>. QED BY <2>1, <2>2 DEF Exit
<1>3. world' = world /\ NoNewHolds(w) /\ self.run \in Runs
  BY <1>1, RestStays, Known
<1>4. new \in WorkerType
  BY <1>1 DEF WorkerType, Pcs
<1>5. /\ new.pc = "release" /\ new.run = self.run /\ new.rev = self.rev /\ new.tries = self.tries
      /\ new.held = self.held /\ new.replay = self.replay
  BY <1>1 DEF WorkerType
<1> HIDE DEF new
<1>6. worker' \in [Workers -> WorkerType] /\ worker'[w] = new /\ \A v \in Workers \ {w} : Same(v)
  BY <1>1, <1>4, OneWorker
<1>7. ASSUME Fresh \subseteq Fresh'
      PROVE  WorkerOK(w)'
  <2>1. Names(w)'
    BY <1>1, <1>5, <1>6, <1>7 DEF Names, WorkerOK, Unstaged
  <2>2. Copies(w)'
    BY <1>1, <1>3, <1>5, <1>6 DEF Copies, WorkerOK, Copied, Unstaged, Has
  <2>3. Local(w)'
    BY <1>1, <1>3, <1>5, <1>6 DEF Local, Live, Unstaged, Has
  <2>4. Holding(w)'
    BY <1>1, <1>3, <1>5, <1>6 DEF Holding, WorkerOK, NoNewHolds
  <2>. QED BY <2>1, <2>2, <2>3, <2>4 DEF WorkerOK
<1>. QED BY <1>1, <1>2, <1>6, <1>7, RowAndOwnStep

LEMMA ReleaseSound ==
  ASSUME Sound, NEW w \in Workers, Release(w)
  PROVE  Sound'
<1>1. /\ worker[w].pc \in {"exit", "release"} /\ ReleaseHold(w, NextRef(w)) /\ Leaves(w, "gone")
      /\ world' = world /\ row' = row /\ UNCHANGED <<world, Budget>>
  BY DEF Release
<1>2. row' \in [Runs -> RowType] /\ \A r \in Runs : Unmoved(r) /\ Plain(r)
  BY <1>1, RowsStay
<1>3. /\ Solvent /\ \A n \in 1 .. MaxTries : hold'[<<w, n>>].status # "active"
      /\ \A v \in Workers : NoNewHolds(v)
  BY <1>1, ReleasesHold
<1>4. worker' \in [Workers -> WorkerType] /\ (\A v \in Workers \ {w} : Same(v)) /\ WorkerOK(w)'
  BY <1>1, <1>3, LeavesFits
<1>5. Typed /\ UNCHANGED <<world, log>>
  BY <1>1, <1>2, <1>4, RestTyped
<1>. QED BY <1>2, <1>3, <1>4, <1>5, StepSound

-----------------------------------------------------------------------------
(* A result goes into the row.                                             *)

\* A new result enters the row of its worker: its name is known from then on.
LEMMA NewRows ==
  ASSUME Sound, Typed, UNCHANGED <<world, log>>, ChargesKept, NEW w \in Workers, Live(w),
         Named(w), NewResult(w),
         row'[worker[w].run].journal = worker[w].result, row'[worker[w].run].rev <= world.rev,
         \A r \in Runs \ {worker[w].run} : Unmoved(r)
  PROVE  Rows' /\ Fresh \ {NextRef(w)} \subseteq Fresh'
<1>1. PICK run \in Runs : run = worker[w].run
  BY Known
<1>0. worker[w] \in WorkerType
  BY Known
<1> DEFINE j == worker[w].result
<1>2. InLog' = InLog /\ world' = world
  BY DEF InLog
<1>3. j.phase = "generated" /\ j.ref = NextRef(w) /\ j.cost \in Costs /\ ~ j.paid /\ j.done = 0
  BY DEF NewResult
<1>4. j.todo \in 0 .. MaxWrites /\ j.ref \in Fresh /\ j.ref \in Refs
  BY <1>0, <1>3 DEF WorkerType, JournalType, Named, Fresh
<1> HIDE DEF j
<1>5. row'[run].journal = j /\ row'[run].rev <= world.rev /\ \A r \in Runs \ {run} : Unmoved(r)
  BY <1>1 DEF j
<1>6. OneRow'
  <2>1. \A r \in Runs \ {run} : Phase(r) = "generated" => row[r].journal.ref # j.ref
    BY <1>4 DEF Fresh
  <2>. QED BY <1>3, <1>5, <2>1 DEF OneRow, Sound, Rows, Phase, Unmoved
<1>7. RowOK(run)'
  <2>1. InLog[j.ref] = {}
    BY <1>4 DEF Fresh
  <2>2. j.done <= j.todo
    BY <1>3, <1>4
  <2>3. InLog'[j.ref] \subseteq 1 .. j.done
    BY <1>2, <2>1
  <2>4. row'[run].rev <= world'.rev
    BY <1>2, <1>5
  <2>. QED BY <1>3, <1>4, <1>5, <2>2, <2>3, <2>4 DEF RowOK
<1>8. ASSUME NEW r \in Runs \ {run}
      PROVE  RowOK(r)'
  <2>1. RowOK(r) /\ Unmoved(r)
    BY <1>5 DEF Sound, Rows
  <2>. QED BY <1>2, <2>1 DEF RowOK, Unmoved, ChargesKept
<1>9. Fresh \ {j.ref} \subseteq Fresh'
  BY <1>2, <1>3, <1>5 DEF Fresh, Phase, Unmoved
<1>10. \A r \in Runs : RowOK(r)'
  BY <1>7, <1>8
<1>11. Rows'
  BY <1>6, <1>10 DEF Rows
<1>. QED BY <1>3, <1>9, <1>11

\* A step that puts the result of w into its row.
LEMMA NewResultStep ==
  ASSUME Sound, NEW w \in Workers, Live(w), Named(w), NewResult(w), UNCHANGED Rest,
         worker' \in [Workers -> WorkerType], \A v \in Workers \ {w} : Same(v),
         row' \in [Runs -> RowType],
         row'[worker[w].run].journal = worker[w].result, row'[worker[w].run].rev <= world.rev,
         row'[worker[w].run].claim \in {w, None}, \A r \in Runs \ {worker[w].run} : Unmoved(r),
         Fresh \ {NextRef(w)} \subseteq Fresh' => WorkerOK(w)'
  PROVE  Sound'
<1>1. UNCHANGED wallet /\ UNCHANGED <<world, Budget>>
  BY DEF Rest, Budget
<1>2. Typed /\ UNCHANGED <<world, log>>
  BY <1>1, RestTyped
<1>3. Solvent /\ (\A v \in Workers : NoNewHolds(v)) /\ ChargesKept
  BY <1>1, Untouched, WalletStays DEF Solvent
<1>4. Rows' /\ Fresh \ {NextRef(w)} \subseteq Fresh'
  BY <1>2, <1>3, NewRows
<1>5. World' /\ Forward
  BY <1>2, <1>3, WorldStays
<1>6. ASSUME NEW v \in Workers \ {w}
      PROVE  WorkerOK(v)'
  <2>1. v # None /\ v # w
    BY ConstantsTyped
  <2>2. \A t \in 1 .. MaxTries : <<v, t>> # NextRef(w)
    BY <2>1 DEF NextRef
  <2>3. \A r \in Runs : Unmoved(r) \/ row'[r].claim \in {w, None}
    OBVIOUS
  <2>4. Undisturbed(v)
    BY <1>3, <1>4, <2>1, <2>2, <2>3 DEF Undisturbed
  <2>. QED BY <1>2, <1>5, <2>4, Bystander
<1>7. Crew'
  BY <1>4, <1>6 DEF Crew
<1>. QED BY <1>2, <1>3, <1>4, <1>5, <1>7, TypedSolvent DEF Sound

\* The answer is journaled before it is paid.
LEMMA StagesAnswer ==
  ASSUME Sound, NEW w \in Workers, worker[w].pc = "bill", ~ worker[w].replay, Owns(w),
         worker[w].rev = world.rev, SetRow(w, Staged(w)), Goes(w, AfterStaging(w)), UNCHANGED Rest
  PROVE  Sound'
<1> DEFINE self == worker[w]
           new == [self EXCEPT !.pc = "settle"]
<1>1. self \in WorkerType /\ WorkerOK(w) /\ Live(w) /\ self.run \in Runs /\ Row(w) \in RowType
      /\ world.rev \in Nat
  BY Known DEF Live
<1>2. Unstaged(w) /\ Copied(w) /\ NewResult(w) /\ Named(w) /\ self.claimed /\ AtWorld(w)
  BY <1>1 DEF Unstaged, Copied, WorkerOK, Names, Local, Copies
<1>3. Staged(w) \in RowType /\ Staged(w).claim = w /\ Staged(w).rev = world.rev /\ Staged(w).journal = self.result
  BY <1>1 DEF Staged, RowType, WorkerType
<1>4. row' \in [Runs -> RowType] /\ \A r \in Runs \ {self.run} : Unmoved(r)
  BY <1>1, <1>3, OneRowSet
<1>5. row'[self.run].claim = w /\ row'[self.run].rev = world.rev /\ row'[self.run].journal = self.result
  BY <1>1, <1>3, OneRowSet
<1>6. world' = world /\ NoNewHolds(w)
  BY RestStays
<1>7. new \in WorkerType
  BY <1>1 DEF WorkerType, Pcs
<1>8. /\ new.pc = "settle" /\ new.run = self.run /\ new.claimed = self.claimed /\ new.rev = self.rev
      /\ new.copy = self.copy /\ new.saves = self.saves /\ new.tries = self.tries
      /\ new.step = self.step /\ new.held = self.held /\ new.replay = self.replay
      /\ new.result = self.result /\ new.restarts = self.restarts
  BY <1>1 DEF WorkerType
<1>9. Becomes(w, new)
  BY DEF Goes, AfterStaging
<1> HIDE DEF new
<1>10. worker' \in [Workers -> WorkerType] /\ worker'[w] = new /\ \A v \in Workers \ {w} : Same(v)
  BY <1>7, <1>9, OneWorker
<1>11. ASSUME Fresh \ {NextRef(w)} \subseteq Fresh'
       PROVE  WorkerOK(w)'
  <2>1. self.tries \in 0 .. MaxTries
    BY <1>1 DEF WorkerType
  <2>2. \A t \in 1 .. MaxTries : t > self.tries => <<w, t>> # NextRef(w)
    BY <2>1 DEF NextRef
  <2>3. Names(w)'
    BY <1>1, <1>8, <1>10, <1>11, <2>2 DEF Names, WorkerOK, Unstaged
  <2>4. Row(w)' = row'[self.run]
    BY <1>8, <1>10 DEF Row
  <2>5. RowResult(w)' /\ AtWorld(w)'
    BY <1>2, <1>5, <1>6, <1>8, <1>10, <2>4 DEF RowResult, AtWorld, NewResult
  <2>6. Copies(w)'
    BY <1>1, <1>6, <1>8, <1>10, <2>5 DEF Copies, WorkerOK, Copied, Unstaged
  <2>7. Local(w)'
    BY <1>1, <1>2, <1>8, <1>10 DEF Local, WorkerOK, Live, Unstaged, Has
  <2>8. NextRef(w)' = NextRef(w)
    BY <1>8, <1>10 DEF NextRef
  <2>9. Holding(w)'
    BY <1>1, <1>6, <1>8, <1>10, <2>8 DEF Holding, WorkerOK, NoNewHolds
  <2>. QED BY <2>3, <2>6, <2>7, <2>9 DEF WorkerOK
<1>. QED BY <1>1, <1>2, <1>4, <1>5, <1>10, <1>11, NewResultStep

\* A worker that pauses with a result it could not bring into the row, or
\* could not pay.
LEMMA FullPause ==
  ASSUME Sound, NEW w \in Workers, Live(w), worker[w].pc \in {"bill", "settle"},
         NEW rev \in Nat, rev <= world.rev, NEW j \in JournalType,
         Becomes(w, [worker[w] EXCEPT !.pc = "pause", !.rev = rev, !.result = j]),
         j.phase = "generated", UNCHANGED <<Rest, row>>,
         \/ j = worker[w].result /\ ~ worker[w].replay /\ worker[w].pc = "bill"
         \/ j = Row(w).journal
  PROVE  Sound'
<1> DEFINE self == worker[w]
           new == [self EXCEPT !.pc = "pause", !.rev = rev, !.result = j]
<1>1. self \in WorkerType /\ WorkerOK(w) /\ self.run \in Runs
  BY Known
<1>2. world' = world /\ NoNewHolds(w) /\ row' = row
  BY RestStays
<1>3. self.claimed /\ (self.pc = "bill" /\ ~ self.replay => NewResult(w) /\ Named(w))
  BY <1>1 DEF WorkerOK, Local, Names, Unstaged, Has
<1>4. new \in WorkerType
  BY <1>1 DEF WorkerType, Pcs
<1>5. /\ new.pc = "pause" /\ new.run = self.run /\ new.claimed = self.claimed /\ new.rev = rev
      /\ new.tries = self.tries /\ new.held = self.held /\ new.replay = self.replay /\ new.result = j
  BY <1>1 DEF WorkerType
<1>6. Becomes(w, new)
  OBVIOUS
<1> HIDE DEF new
<1>7. worker' \in [Workers -> WorkerType] /\ worker'[w] = new /\ \A v \in Workers \ {w} : Same(v)
  BY <1>4, <1>6, OneWorker
<1>8. ASSUME Fresh \subseteq Fresh'
      PROVE  WorkerOK(w)'
  <2>1. Row(w)' = Row(w)
    BY <1>2, <1>5, <1>7 DEF Row
  <2>2. CASE j = self.result /\ ~ self.replay /\ self.pc = "bill"
    <3>1. NewResult(w)' /\ Named(w)'
      BY <1>3, <1>5, <1>7, <1>8, <2>2 DEF NewResult, Named, NextRef
    <3>. QED BY <1>1, <1>2, <1>3, <1>5, <1>7, <1>8, <3>1
             DEF WorkerOK, Names, Copies, Local, Holding, Unstaged, Copied, Has, Live, NoNewHolds
  <2>3. CASE j = Row(w).journal
    BY <1>1, <1>2, <1>3, <1>5, <1>7, <1>8, <2>1, <2>3
    DEF WorkerOK, Names, Copies, Local, Holding, Unstaged, Copied, Has, Live, NoNewHolds
  <2>. QED BY <2>2, <2>3
<1>. QED BY <1>7, <1>8, OwnStep

\* A result that is replayed is in the row already.
LEMMA ReplaySettles ==
  ASSUME Sound, NEW w \in Workers, worker[w].pc = "bill", worker[w].replay,
         Goes(w, AfterStaging(w)), UNCHANGED <<Rest, row>>
  PROVE  Sound'
<1> DEFINE self == worker[w]
           new == [self EXCEPT !.pc = "settle"]
<1>1. self \in WorkerType /\ WorkerOK(w) /\ Live(w) /\ self.run \in Runs
  BY Known DEF Live
<1>2. Has(w) /\ self.claimed
  BY <1>1 DEF Has, WorkerOK, Local
<1>3. world' = world /\ NoNewHolds(w) /\ row' = row
  BY RestStays
<1>4. new \in WorkerType
  BY <1>1 DEF WorkerType, Pcs
<1>5. /\ new.pc = "settle" /\ new.run = self.run /\ new.claimed = self.claimed /\ new.rev = self.rev
      /\ new.copy = self.copy /\ new.saves = self.saves /\ new.tries = self.tries
      /\ new.step = self.step /\ new.held = self.held /\ new.replay = self.replay
      /\ new.result = self.result /\ new.restarts = self.restarts
  BY <1>1 DEF WorkerType
<1>6. Becomes(w, new)
  BY DEF Goes, AfterStaging
<1> HIDE DEF new
<1>7. worker' \in [Workers -> WorkerType] /\ worker'[w] = new /\ \A v \in Workers \ {w} : Same(v)
  BY <1>4, <1>6, OneWorker
<1>8. ASSUME Fresh \subseteq Fresh'
      PROVE  WorkerOK(w)'
  <2>1. Names(w)'
    BY <1>1, <1>5, <1>7, <1>8 DEF Names, WorkerOK, Unstaged
  <2>2. Row(w)' = Row(w)
    BY <1>3, <1>5, <1>7 DEF Row
  <2>3. Copies(w)'
    BY <1>1, <1>2, <1>3, <1>5, <1>7, <2>2 DEF Copies, WorkerOK, Copied, Unstaged, RowResult, AtWorld
  <2>4. Local(w)'
    BY <1>1, <1>2, <1>5, <1>7 DEF Local, WorkerOK, Live, Unstaged, Has
  <2>5. Holding(w)'
    BY <1>1, <1>3, <1>5, <1>7 DEF Holding, WorkerOK, NoNewHolds, NextRef
  <2>. QED BY <2>1, <2>3, <2>4, <2>5 DEF WorkerOK
<1>. QED BY <1>7, <1>8, OwnStep

LEMMA StageGeneratedSound ==
  ASSUME Sound, NEW w \in Workers, StageGenerated(w)
  PROVE  Sound'
<1>1. worker[w].pc = "bill" /\ UNCHANGED <<world, Budget>> /\ Live(w)
  BY DEF StageGenerated, Live
<1>2. CASE worker[w].replay /\ Goes(w, AfterStaging(w)) /\ UNCHANGED <<wallet, row>>
  <2>1. UNCHANGED <<Rest, row>>
    BY <1>1, <1>2 DEF Rest, Budget
  <2>. QED BY <1>1, <1>2, <2>1, ReplaySettles
<1>3. CASE Out(w, "exit") /\ UNCHANGED <<wallet, row>>
  <2>1. UNCHANGED Rest /\ row' = row
    BY <1>1, <1>3 DEF Rest, Budget
  <2>2. row' \in [Runs -> RowType] /\ \A r \in Runs : Unmoved(r) /\ Plain(r)
    BY <2>1, RowsStay
  <2>. QED BY <1>1, <1>3, <2>1, <2>2, OutStep
<1>4. ASSUME NEW late \in BOOLEAN, ~ worker[w].replay, MayRestart(w), row' = row,
             Becomes(w, [Again(w) EXCEPT !.late = late]), ReleaseHold(w, Ref(w))
      PROVE  Sound'
  <2>1. worker[w].held => Ref(w) = NextRef(w)
    BY <1>1, Known DEF WorkerOK, Holding, Ref
  <2>2. /\ Solvent /\ \A n \in 1 .. MaxTries : hold'[<<w, n>>].status # "active"
        /\ \A v \in Workers : NoNewHolds(v)
    BY <1>1, <1>4, <2>1, ReleasesHold
  <2>3. world' = world /\ UNCHANGED <<world, Budget>>
    BY <1>1
  <2>4. worker' \in [Workers -> WorkerType] /\ \A v \in Workers \ {w} : Same(v)
    BY <1>1, <1>4, <2>2, <2>3, AgainFits
  <2>5. Fresh \subseteq Fresh' => WorkerOK(w)'
    BY <1>1, <1>4, <2>2, <2>3, AgainFits
  <2>6. row' \in [Runs -> RowType] /\ \A r \in Runs : Unmoved(r) /\ Plain(r)
    BY <1>4, RowsStay
  <2>7. Typed /\ UNCHANGED <<world, log>>
    BY <2>3, <2>4, <2>6, RestTyped
  <2>. QED BY <2>2, <2>4, <2>5, <2>6, <2>7, StepSound
<1>5. CASE ~ worker[w].replay /\ Goes(w, "pause") /\ UNCHANGED wallet /\ row' = row
  <2>1. UNCHANGED <<Rest, row>>
    BY <1>1, <1>5 DEF Rest, Budget
  <2>2. worker[w] \in WorkerType /\ worker[w].result.phase = "generated" /\ worker[w].rev <= world.rev
    BY <1>1, <1>5, Known DEF WorkerOK, Names, NewResult, Copies
  <2>3. worker[w].rev \in Nat /\ worker[w].result \in JournalType
    BY <2>2 DEF WorkerType
  <2>4. [worker[w] EXCEPT !.pc = "pause"]
          = [worker[w] EXCEPT !.pc = "pause", !.rev = worker[w].rev, !.result = worker[w].result]
    BY <2>2 DEF WorkerType
  <2>5. Becomes(w, [worker[w] EXCEPT !.pc = "pause", !.rev = worker[w].rev, !.result = worker[w].result])
    BY <1>5, <2>4 DEF Goes
  <2>. QED BY <1>1, <1>5, <2>1, <2>2, <2>3, <2>5, FullPause
<1>6. CASE /\ ~ worker[w].replay /\ Owns(w) /\ worker[w].rev = world.rev /\ SetRow(w, Staged(w))
           /\ Goes(w, AfterStaging(w)) /\ UNCHANGED wallet
  <2>1. UNCHANGED Rest
    BY <1>1, <1>6 DEF Rest, Budget
  <2>. QED BY <1>1, <1>6, <2>1, StagesAnswer
<1>. QED BY <1>2, <1>3, <1>4, <1>5, <1>6 DEF StageGenerated

LEMMA PauseSound ==
  ASSUME Sound, NEW w \in Workers, Pause(w)
  PROVE  Sound'
<1> DEFINE self == worker[w]
           new == [self EXCEPT !.pc = "exit", !.claimed = self.claimed /\ ~ Owns(w)]
<1>1. self \in WorkerType /\ WorkerOK(w) /\ self.pc = "pause" /\ UNCHANGED Rest /\ Live(w)
      /\ self.run \in Runs /\ Row(w) \in RowType
  BY Known DEF Pause, Live
<1>2. world' = world /\ NoNewHolds(w)
  BY <1>1, RestStays
<1>3. (self.claimed /\ ~ Owns(w)) \in BOOLEAN
  OBVIOUS
<1>4. new \in WorkerType
  BY <1>1, <1>3 DEF WorkerType, Pcs
<1>5. /\ new.pc = "exit" /\ new.run = self.run /\ new.rev = self.rev /\ new.tries = self.tries
      /\ new.held = self.held /\ new.replay = self.replay
  BY <1>1 DEF WorkerType
<1>6. Becomes(w, new)
  BY <1>1 DEF Pause
<1> HIDE DEF new
<1>7. worker' \in [Workers -> WorkerType] /\ worker'[w] = new /\ \A v \in Workers \ {w} : Same(v)
  BY <1>4, <1>6, OneWorker
<1>8. ASSUME Fresh \ {NextRef(w)} \subseteq Fresh', self.tries \in Nat
      PROVE  WorkerOK(w)'
  <2>1. \A t \in 1 .. MaxTries : t > self.tries => <<w, t>> # NextRef(w)
    BY <1>8 DEF NextRef
  <2>2. Names(w)'
    BY <1>1, <1>5, <1>7, <1>8, <2>1 DEF Names, WorkerOK, Unstaged
  <2>3. Copies(w)'
    BY <1>1, <1>2, <1>5, <1>7 DEF Copies, WorkerOK, Copied, Unstaged, Has
  <2>4. Local(w)'
    BY <1>1, <1>5, <1>7 DEF Local, Live, Unstaged, Has
  <2>5. Holding(w)'
    BY <1>1, <1>2, <1>5, <1>7 DEF Holding, WorkerOK, NoNewHolds
  <2>. QED BY <2>2, <2>3, <2>4, <2>5 DEF WorkerOK
<1>9. self.tries \in Nat /\ self.rev \in Nat /\ self.result \in JournalType /\ self.rev <= world.rev
  <2>1. self.tries \in 0 .. MaxTries
    BY <1>1 DEF WorkerType
  <2>2. self.tries \in Nat
    BY <2>1
  <2>. QED BY <1>1, <2>2 DEF WorkerType, WorkerOK, Copies
<1>10. CASE ~ Owns(w)
  <2>1. row' \in [Runs -> RowType] /\ \A r \in Runs : Unmoved(r) /\ Plain(r)
    BY <1>10, RowsStay DEF Pause
  <2>. QED BY <1>1, <1>7, <1>8, <1>9, <2>1, RowAndOwnStep
<1>11. CASE Owns(w)
  <2>1. SetRow(w, Paused(w))
    BY <1>11 DEF Pause
  <2>2. /\ Paused(w) \in RowType /\ Paused(w).claim = None /\ Paused(w).rev = self.rev
        /\ Paused(w).journal = self.result
    BY <1>1 DEF Paused, RowType, WorkerType
  <2>3. row' \in [Runs -> RowType] /\ \A r \in Runs \ {self.run} : Unmoved(r) /\ Plain(r)
    BY <1>1, <2>1, <2>2, OneRowSet
  <2>4. row'[self.run].claim = None /\ row'[self.run].rev = self.rev /\ row'[self.run].journal = self.result
    BY <1>1, <2>1, <2>2, OneRowSet
  <2>5. CASE self.result.phase # "generated" \/ self.result = Row(w).journal
    <3>1. Plain(self.run)
      BY <1>1, <1>2, <1>9, <2>4, <2>5 DEF Plain, WorkerOK, Names, Row
    <3>. QED BY <1>1, <1>7, <1>8, <1>9, <2>3, <2>4, <3>1, RowAndOwnStep
  <2>6. CASE NewResult(w) /\ Named(w)
    BY <1>1, <1>7, <1>8, <1>9, <2>3, <2>4, <2>6, NewResultStep
  <2>. QED BY <1>1, <1>11, <2>5, <2>6 DEF WorkerOK, Names, Owns
<1>. QED BY <1>10, <1>11

-----------------------------------------------------------------------------
(* A result is paid, and then applied.                                     *)

\* What a worker knows of the row that names it while it has its result.
LEMMA OwnResult ==
  ASSUME Sound, NEW w \in Workers, worker[w].pc \in {"settle", "write"}, Owns(w),
         NEW run, run = worker[w].run
  PROVE  /\ run \in Runs /\ row[run] \in RowType /\ RowOK(run) /\ worker[w].claimed
         /\ row[run].claim = w /\ RowResult(w) /\ Phase(run) = "generated"
         /\ row[run].journal \in JournalType /\ Ref(w) = row[run].journal.ref /\ Ref(w) \in Refs
         /\ row[run].journal.cost \in Costs
         /\ row[run].rev = world.rev => AtWorld(w)
         /\ worker[w].pc = "write" => row[run].journal.paid
<1>1. run \in Runs /\ row[run] \in RowType /\ RowOK(run) /\ WorkerOK(w)
  BY Known DEF Live, Row
<1>2. Has(w) /\ worker[w].claimed
  BY <1>1 DEF Has, WorkerOK, Local
<1>3. row[run].claim = w
  BY <1>2 DEF Owns, Row
<1>4. /\ RowResult(w) /\ (row[run].rev = world.rev => AtWorld(w))
      /\ worker[w].pc = "write" => row[run].journal.paid
  BY <1>1, <1>2, <1>3 DEF WorkerOK, Copies, Row
<1>5. Phase(run) = "generated" /\ Ref(w) = row[run].journal.ref
  BY <1>4 DEF RowResult, Row, Ref, Phase
<1>6. row[run].journal.ref \in Refs /\ row[run].journal.cost \in Costs /\ row[run].journal \in JournalType
  BY <1>1, <1>5 DEF RowOK, Phase, RowType
<1>. QED BY <1>1, <1>2, <1>3, <1>4, <1>5, <1>6

LEMMA PaysResult ==
  ASSUME Sound, NEW w \in Workers, worker[w].pc = "settle", Owns(w), Current(w),
         Wallet!Loses(0), Pays(w, Row(w).journal.cost),
         SetRow(w, [Row(w) EXCEPT !.journal.paid = TRUE]), UNCHANGED <<world, Budget>>,
         NEW late \in BOOLEAN,
         Becomes(w, [worker[w] EXCEPT !.pc = IF Aborted(w) THEN "exit" ELSE "write",
                       !.held = FALSE, !.replay = FALSE, !.late = @ \/ late])
  PROVE  Sound'
<1> DEFINE self == worker[w]
<1>1. PICK run \in Runs : run = self.run
  BY Known DEF Live
<1> DEFINE j == row[run].journal
<1>2. self \in WorkerType /\ WorkerOK(w) /\ Live(w) /\ world.rev \in Nat
  BY Known DEF Live
<1>3. /\ row[run] \in RowType /\ RowOK(run) /\ self.claimed /\ row[run].claim = w /\ RowResult(w)
      /\ Phase(run) = "generated" /\ j \in JournalType /\ Ref(w) = j.ref /\ Ref(w) \in Refs
      /\ j.cost \in Costs /\ (row[run].rev = world.rev => AtWorld(w))
  BY <1>1, OwnResult
<1>4. self.held => Ref(w) = NextRef(w)
  BY <1>2 DEF WorkerOK, Holding, Ref
<1>5. /\ Solvent /\ charge'[j.ref] # None
      /\ \A n \in 1 .. MaxTries : hold'[<<w, n>>].status # "active"
      /\ \A v \in Workers : NoNewHolds(v)
  <2>1. Pays(w, j.cost)
    BY <1>1 DEF Row
  <2> HIDE DEF j
  <2>2. /\ Solvent /\ charge'[Ref(w)] # None
        /\ \A n \in 1 .. MaxTries : hold'[<<w, n>>].status # "active"
        /\ \A v \in Workers : NoNewHolds(v)
    BY <1>3, <1>4, <2>1, PaysOnce
  <2>. QED BY <1>3, <2>2
<1> DEFINE paid == [row[run] EXCEPT !.journal = [j EXCEPT !.paid = TRUE]]
<1>6. [j EXCEPT !.paid = TRUE] \in JournalType
  BY <1>3 DEF JournalType
<1>7. /\ paid \in RowType /\ paid.claim = w /\ paid.rev = row[run].rev
      /\ paid.journal = [j EXCEPT !.paid = TRUE]
  BY <1>3, <1>6 DEF RowType
<1>8. SetRow(w, paid)
  BY <1>1 DEF Row
<1> HIDE DEF paid
<1>9. row' \in [Runs -> RowType] /\ \A r \in Runs \ {run} : Unmoved(r)
  BY <1>1, <1>2, <1>7, <1>8, OneRowSet
<1>10. row'[run].claim = w /\ row'[run].rev = row[run].rev /\ row'[run].journal = [j EXCEPT !.paid = TRUE]
  BY <1>1, <1>2, <1>7, <1>8, OneRowSet
<1>11. /\ row'[run].journal.phase = j.phase /\ row'[run].journal.ref = j.ref
       /\ row'[run].journal.cost = j.cost /\ row'[run].journal.todo = j.todo
       /\ row'[run].journal.done = j.done /\ row'[run].journal.paid = TRUE
  BY <1>3, <1>10 DEF JournalType
<1>12. world' = world /\ log' = log /\ UNCHANGED <<world, Budget>> /\ InLog' = InLog
  BY DEF Budget, InLog
<1>13. \A r \in Runs : Phase(r)' = Phase(r) /\ row'[r].journal.ref = row[r].journal.ref
  BY <1>9, <1>11 DEF Unmoved, Phase
<1>14. Rows' /\ Fresh' = Fresh
  <2>1. OneRow'
    BY <1>13 DEF OneRow, Sound, Rows
  <2>2. RowOK(run)'
    BY <1>3, <1>5, <1>10, <1>11, <1>12 DEF RowOK, Phase
  <2>3. ASSUME NEW r \in Runs \ {run}
        PROVE  RowOK(r)'
    <3>1. RowOK(r) /\ Unmoved(r)
      BY <1>9 DEF Sound, Rows
    <3>. QED BY <1>5, <1>12, <3>1 DEF RowOK, Unmoved, ChargesKept, Solvent
  <2>4. Fresh' = Fresh
    BY <1>12, <1>13 DEF Fresh
  <2>5. \A r \in Runs : RowOK(r)'
    BY <2>2, <2>3
  <2>. QED BY <2>1, <2>4, <2>5 DEF Rows
<1> DEFINE pc == IF Aborted(w) THEN "exit" ELSE "write"
           new == [self EXCEPT !.pc = pc, !.held = FALSE, !.replay = FALSE, !.late = self.late \/ late]
<1>15. pc \in {"exit", "write"} /\ (self.late \/ late) \in BOOLEAN
  OBVIOUS
<1>16. Becomes(w, new)
  BY <1>2 DEF WorkerType, Becomes
<1> HIDE DEF pc
<1>17. new \in WorkerType
  <2>1. self \in WorkerType
    BY <1>2
  <2>2. pc \in Pcs
    BY <1>15 DEF Pcs
  <2>. QED BY <1>15, <2>1, <2>2 DEF WorkerType
<1>18. /\ new.pc = pc /\ new.run = self.run /\ new.claimed = self.claimed /\ new.rev = self.rev
       /\ new.copy = self.copy /\ new.saves = self.saves /\ new.tries = self.tries
       /\ new.step = self.step /\ new.held = FALSE /\ new.replay = FALSE
       /\ new.result = self.result /\ new.restarts = self.restarts
  BY <1>2 DEF WorkerType
<1> HIDE DEF new
<1>19. worker' \in [Workers -> WorkerType] /\ worker'[w] = new /\ \A v \in Workers \ {w} : Same(v)
  BY <1>16, <1>17, OneWorker
<1>20. WorkerOK(w)'
  <2>1. Names(w)'
    BY <1>2, <1>14, <1>15, <1>18, <1>19 DEF Names, WorkerOK, Unstaged
  <2>2. Row(w)' = row'[run]
    BY <1>1, <1>18, <1>19 DEF Row
  <2>3. RowResult(w)'
    <3>1. /\ worker'[w].result.ref = self.result.ref /\ worker'[w].result.cost = self.result.cost
          /\ worker'[w].result.todo = self.result.todo /\ worker'[w].result.done = self.result.done
      BY <1>18, <1>19
    <3>2. /\ j.phase = "generated" /\ self.result.ref = j.ref /\ self.result.cost = j.cost
          /\ self.result.todo = j.todo /\ self.result.done = j.done
      BY <1>1, <1>3 DEF RowResult, Row
    <3>. QED BY <1>11, <2>2, <3>1, <3>2 DEF RowResult
  <2>4. row'[run].rev = world'.rev => AtWorld(w)'
    BY <1>3, <1>10, <1>12, <1>18, <1>19 DEF AtWorld
  <2>5. Copies(w)'
    BY <1>2, <1>11, <1>12, <1>15, <1>18, <1>19, <2>2, <2>3, <2>4 DEF Copies, WorkerOK, Copied, Unstaged
  <2>6. Local(w)'
    BY <1>1, <1>2, <1>3, <1>15, <1>18, <1>19 DEF Local, WorkerOK, Live, Unstaged, Has
  <2>7. Holding(w)'
    BY <1>5, <1>18, <1>19 DEF Holding
  <2>. QED BY <2>1, <2>5, <2>6, <2>7 DEF WorkerOK
<1>21. Typed
  BY <1>9, <1>12, <1>19, RestTyped
<1>22. World' /\ Forward
  BY <1>5, <1>12, WorldStays DEF Solvent
<1>23. ASSUME NEW v \in Workers \ {w}
       PROVE  WorkerOK(v)'
  <2>1. \A r \in Runs : Unmoved(r) \/ row'[r].claim = w
    BY <1>9, <1>10
  <2>2. Undisturbed(v)
    BY <1>5, <1>14, <2>1 DEF Undisturbed
  <2>. QED BY <1>19, <1>21, <1>22, <2>2, Bystander
<1>24. Crew'
  BY <1>20, <1>23 DEF Crew
<1>. QED BY <1>5, <1>14, <1>21, <1>22, <1>24, TypedSolvent DEF Sound

LEMMA SettleSound ==
  ASSUME Sound, NEW w \in Workers, Settle(w)
  PROVE  Sound'
<1>1. worker[w].pc = "settle" /\ UNCHANGED <<world, Budget>> /\ Live(w)
  BY DEF Settle, Live
<1>2. CASE Out(w, "exit") /\ UNCHANGED <<wallet, row>>
  <2>1. UNCHANGED Rest /\ row' = row
    BY <1>1, <1>2 DEF Rest, Budget
  <2>2. row' \in [Runs -> RowType] /\ \A r \in Runs : Unmoved(r) /\ Plain(r)
    BY <2>1, RowsStay
  <2>. QED BY <1>1, <1>2, <2>1, <2>2, OutStep
<1>3. CASE Fails(w) /\ UNCHANGED wallet
  <2>1. UNCHANGED Rest
    BY <1>1, <1>3 DEF Rest, Budget
  <2>. QED BY <1>1, <1>3, <2>1, FailsRow, OutStep
<1>4. CASE /\ Owns(w)
           /\ Becomes(w, [worker[w] EXCEPT !.pc = "pause", !.rev = Row(w).rev,
                                           !.result = Row(w).journal])
           /\ UNCHANGED <<wallet, row>>
  <2>1. UNCHANGED <<Rest, row>>
    BY <1>1, <1>4 DEF Rest, Budget
  <2>2. /\ Row(w).journal \in JournalType /\ Row(w).journal.phase = "generated"
        /\ Row(w).rev \in Nat /\ Row(w).rev <= world.rev
    BY <1>1, <1>4, Known, OwnResult DEF Row, Phase
  <2>. QED BY <1>1, <1>4, <2>1, <2>2, FullPause
<1>5. ASSUME Owns(w), Current(w), Wallet!Loses(0), Pays(w, Row(w).journal.cost),
             SetRow(w, [Row(w) EXCEPT !.journal.paid = TRUE]), NEW late \in BOOLEAN,
             Becomes(w, [worker[w] EXCEPT !.pc = IF Aborted(w) THEN "exit" ELSE "write",
                       !.held = FALSE, !.replay = FALSE, !.late = @ \/ late])
      PROVE  Sound'
  BY <1>1, <1>5, PaysResult
<1>. QED BY <1>2, <1>3, <1>4, <1>5 DEF Settle

\* A write lands on the world that the worker has a copy of.
LEMMA WriteLands ==
  ASSUME Sound, NEW w \in Workers, worker[w].pc = "write", ~ Finished(w), Owns(w), Current(w),
         NEW key, key = <<Ref(w), Done(w) + 1>>, NEW copy, copy = worker[w].copy \cup {key},
         world' = [rev |-> world.rev + 1, saves |-> worker[w].saves, writes |-> copy],
         log' = [log EXCEPT !.landed[key] = @ + 1],
         SetRow(w, Progressed(w)),
         Becomes(w, [worker[w] EXCEPT !.copy = copy, !.result.done = @ + 1]),
         UNCHANGED <<wallet, stopping, faults>>
  PROVE  Sound'
<1> DEFINE self == worker[w]
<1>1. PICK run \in Runs : run = self.run
  BY Known DEF Live
<1> DEFINE j == row[run].journal
           x == j.ref
           d == j.done
<1>2. self \in WorkerType /\ WorkerOK(w) /\ Live(w) /\ world.rev \in Nat
  BY Known DEF Live
<1>3. /\ row[run] \in RowType /\ RowOK(run) /\ self.claimed /\ row[run].claim = w /\ RowResult(w)
      /\ Phase(run) = "generated" /\ j \in JournalType /\ Ref(w) = x /\ x \in Refs
      /\ AtWorld(w) /\ j.paid
  BY <1>1, OwnResult DEF Current, Row
<1>4. /\ self.result \in JournalType /\ self.result.ref = x /\ self.result.cost = j.cost
      /\ self.result.todo = j.todo /\ self.result.done = d
  BY <1>1, <1>2, <1>3 DEF RowResult, Row, WorkerType
<1>5. /\ d \in Nat /\ j.todo \in Nat /\ d + 1 \in 1 .. MaxWrites /\ d + 1 <= j.todo
      /\ d + 1 \in 0 .. MaxWrites
  <2>1. d \in 0 .. MaxWrites /\ j.todo \in 0 .. MaxWrites /\ d <= j.todo /\ d # j.todo
    BY <1>3, <1>4 DEF JournalType, RowOK, Phase, Finished, Done
  <2>. QED BY <2>1, ConstantsTyped
<1>6. key = <<x, d + 1>> /\ key \in Writes
  BY <1>3, <1>4, <1>5 DEF Done, Writes
<1>7. /\ InLog[x] \subseteq 1 .. d /\ charge[x] # None /\ row[run].rev = world.rev
  BY <1>1, <1>3 DEF RowOK, Phase, Current, Row
<1> HIDE DEF d, x
<1>8. /\ log \in [saves : Nat, landed : [Writes -> Nat]] /\ copy \subseteq Writes
      /\ self.copy = world.writes /\ self.saves = world.saves /\ world.saves \in Nat
      /\ world.writes \subseteq Writes
  BY <1>2, <1>3, <1>6 DEF Sound, TypeOK, WorkerType, AtWorld
<1>9. /\ log'.saves = log.saves /\ log'.landed = [log.landed EXCEPT ![key] = log.landed[key] + 1]
      /\ log.landed[key] \in Nat
  BY <1>6, <1>8
<1>10. log.landed[key] = 0
  <2>1. d + 1 \notin 1 .. d
    BY <1>5
  <2>2. d + 1 \notin InLog[x]
    BY <1>7, <2>1
  <2>. QED BY <1>3, <1>5, <1>6, <2>2 DEF InLog
<1>11. \A y \in Writes : log'.landed[y] = IF y = key THEN 1 ELSE log.landed[y]
  BY <1>6, <1>8, <1>9, <1>10
<1>12. world'.rev = world.rev + 1 /\ world'.saves = world.saves /\ world'.writes = copy
  BY <1>8
<1>13. \A y \in Refs : InLog'[y] = IF y = x THEN InLog[y] \cup {d + 1} ELSE InLog[y]
  <2>1. ASSUME NEW y \in Refs, NEW n \in 1 .. MaxWrites
        PROVE  n \in InLog'[y] <=> n \in InLog[y] \/ (y = x /\ n = d + 1)
    <3>1. <<y, n>> \in Writes
      BY DEF Writes
    <3>2. n \in InLog'[y] <=> log'.landed[<<y, n>>] # 0
      BY DEF InLog
    <3>3. n \in InLog[y] <=> log.landed[<<y, n>>] # 0
      BY DEF InLog
    <3>. QED BY <1>6, <1>10, <1>11, <3>1, <3>2, <3>3
  <2>2. \A y \in Refs : InLog[y] \subseteq 1 .. MaxWrites /\ InLog'[y] \subseteq 1 .. MaxWrites
    BY DEF InLog
  <2>. QED BY <1>5, <2>1, <2>2
<1> DEFINE next == [j EXCEPT !.done = d + 1]
           new == [row[run] EXCEPT !.rev = world.rev + 1, !.journal = next]
<1>14. next \in JournalType
  BY <1>3, <1>5 DEF JournalType
<1>15. new \in RowType /\ new.claim = w /\ new.rev = world.rev + 1 /\ new.journal = next
  <2>1. world.rev + 1 \in Nat
    BY <1>2
  <2>. QED BY <1>3, <1>14, <2>1 DEF RowType
<1>16. SetRow(w, new)
  BY <1>1, <1>3, <1>4 DEF Progressed, Row, Done, RowType
<1> HIDE DEF new
<1>17. row' \in [Runs -> RowType] /\ \A r \in Runs \ {run} : Unmoved(r)
  BY <1>1, <1>2, <1>15, <1>16, OneRowSet
<1>18. row'[run].claim = w /\ row'[run].rev = world.rev + 1 /\ row'[run].journal = next
  BY <1>1, <1>2, <1>15, <1>16, OneRowSet
<1>19. /\ next.phase = "generated" /\ next.ref = x /\ next.cost = j.cost /\ next.todo = j.todo
       /\ next.done = d + 1 /\ next.paid
  BY <1>3 DEF JournalType, Phase, x
<1> HIDE DEF next
<1>20. \A r \in Runs : Phase(r)' = Phase(r) /\ row'[r].journal.ref = row[r].journal.ref
  BY <1>3, <1>17, <1>18, <1>19 DEF Unmoved, Phase, x
<1>21. charge' = charge /\ hold' = hold /\ Solvent /\ \A v \in Workers : NoNewHolds(v)
  BY Untouched, WalletStays
<1>22. OneRow'
  BY <1>20 DEF OneRow, Sound, Rows
<1>23. RowOK(run)'
  <2>1. InLog'[x] \subseteq 1 .. d + 1
    <3>1. \A n \in 1 .. d : n \in 1 .. d + 1
      BY <1>5
    <3>2. d + 1 \in 1 .. d + 1
      BY <1>5
    <3>. QED BY <1>3, <1>7, <1>13, <3>1, <3>2
  <2>2. row'[run].rev <= world'.rev
    BY <1>2, <1>12, <1>18
  <2>3. next.cost \in Costs
    BY <1>3, <1>19 DEF RowOK, Phase
  <2>. QED BY <1>3, <1>5, <1>7, <1>18, <1>19, <1>21, <2>1, <2>2, <2>3 DEF RowOK
<1>24. ASSUME NEW r \in Runs \ {run}
       PROVE  RowOK(r)'
  <2>1. RowOK(r) /\ Unmoved(r) /\ row[r] \in RowType
    BY <1>17 DEF Sound, Rows, TypeOK
  <2>2. Phase(r) = "generated" => row[r].journal.ref # x
    BY <1>3 DEF Sound, Rows, OneRow, x
  <2>3. Phase(r) = "generated" => InLog'[row[r].journal.ref] = InLog[row[r].journal.ref]
    BY <1>13, <2>1, <2>2 DEF RowOK, Phase
  <2>4. row'[r].rev <= world'.rev
    <3>1. row[r].rev \in Nat /\ row[r].rev <= world.rev /\ row'[r].rev = row[r].rev
      BY <2>1 DEF RowOK, RowType, Unmoved
    <3>. QED BY <1>2, <1>12, <3>1
  <2>. QED BY <1>21, <2>1, <2>3, <2>4 DEF RowOK, Unmoved, Phase
<1>25. Rows'
  <2>1. \A r \in Runs : RowOK(r)'
    BY <1>23, <1>24
  <2>. QED BY <1>22, <2>1 DEF Rows
<1>26. Fresh \subseteq Fresh'
  <2>1. x \notin Fresh
    BY <1>3 DEF Fresh, x
  <2>. QED BY <1>13, <1>20, <2>1 DEF Fresh
<1> DEFINE result == [self.result EXCEPT !.done = d + 1]
           after == [self EXCEPT !.copy = copy, !.result = result]
<1>27. /\ result \in JournalType /\ result.ref = x /\ result.cost = j.cost /\ result.todo = j.todo
       /\ result.done = d + 1
  BY <1>4, <1>5 DEF JournalType
<1>28. Becomes(w, after)
  BY <1>2, <1>4 DEF Becomes, WorkerType
<1> HIDE DEF result
<1>29. after \in WorkerType
  BY <1>2, <1>8, <1>27 DEF WorkerType
<1>30. /\ after.pc = "write" /\ after.run = self.run /\ after.claimed = self.claimed
       /\ after.rev = self.rev /\ after.copy = copy /\ after.saves = self.saves
       /\ after.tries = self.tries /\ after.step = self.step /\ after.held = self.held
       /\ after.replay = self.replay /\ after.result = result /\ after.restarts = self.restarts
  BY <1>2 DEF WorkerType
<1> HIDE DEF after
<1>31. worker' \in [Workers -> WorkerType] /\ worker'[w] = after /\ \A v \in Workers \ {w} : Same(v)
  BY <1>28, <1>29, OneWorker
<1>32. WorkerOK(w)'
  <2>1. Names(w)'
    BY <1>2, <1>26, <1>30, <1>31 DEF Names, WorkerOK, Unstaged
  <2>2. Row(w)' = row'[run]
    BY <1>1, <1>30, <1>31 DEF Row
  <2>3. RowResult(w)'
    BY <1>18, <1>19, <1>27, <1>30, <1>31, <2>2 DEF RowResult
  <2>4. AtWorld(w)'
    BY <1>8, <1>12, <1>30, <1>31 DEF AtWorld
  <2>5. worker'[w].rev <= world'.rev
    <3>1. self.rev \in Nat /\ self.rev <= world.rev
      BY <1>2 DEF WorkerType, WorkerOK, Copies
    <3>. QED BY <1>2, <1>12, <1>30, <1>31, <3>1
  <2>6. Copies(w)'
    BY <1>18, <1>19, <1>30, <1>31, <2>2, <2>3, <2>4, <2>5 DEF Copies, Copied, Unstaged
  <2>7. Local(w)'
    BY <1>1, <1>2, <1>3, <1>30, <1>31 DEF Local, WorkerOK, Live, Unstaged, Has
  <2>8. Holding(w)'
    BY <1>2, <1>21, <1>30, <1>31 DEF Holding, WorkerOK, NoNewHolds
  <2>. QED BY <2>1, <2>6, <2>7, <2>8 DEF WorkerOK
<1>33. Typed
  <2>1. world.rev + 1 \in Nat /\ 1 \in Nat
    BY <1>2
  <2>2. world' \in [rev : Nat, saves : Nat, writes : SUBSET Writes]
    BY <1>8, <2>1
  <2>3. log'.landed \in [Writes -> Nat]
    BY <1>8, <1>9, <1>10, <2>1
  <2>4. log' \in [saves : Nat, landed : [Writes -> Nat]]
    <3>1. log' = [log EXCEPT !.landed = log'.landed]
      BY <1>8, <1>9
    <3>. QED BY <1>8, <2>3, <3>1
  <2>5. stopping' \subseteq Runs /\ faults' \in Nat
    BY DEF Sound, TypeOK
  <2>. QED BY <1>17, <1>31, <2>2, <2>4, <2>5 DEF Typed
<1>34. Forward
  BY <1>2, <1>12 DEF Forward
<1>35. ASSUME NEW v \in Workers \ {w}
       PROVE  WorkerOK(v)'
  <2>1. \A r \in Runs : Unmoved(r) \/ row'[r].claim = w
    BY <1>17, <1>18
  <2>2. Undisturbed(v)
    BY <1>21, <1>26, <2>1 DEF Undisturbed
  <2>. QED BY <1>31, <1>33, <1>34, <2>2, Bystander
<1>36. World'
  <2>1. NothingIsOverwritten'
    <3>1. world.saves = log.saves /\ world.writes = {y \in Writes : log.landed[y] > 0}
      BY DEF Sound, World, NothingIsOverwritten
    <3>2. \A y \in Writes : log'.landed[y] > 0 <=> y = key \/ log.landed[y] > 0
      BY <1>8, <1>11
    <3>3. copy = {y \in Writes : log'.landed[y] > 0}
      BY <1>6, <1>8, <3>1, <3>2
    <3>. QED BY <1>9, <1>12, <3>1, <3>3 DEF NothingIsOverwritten
  <2>2. AppliedOnce'
    BY <1>11 DEF Sound, World, AppliedOnce
  <2>3. key[1] = x
    BY <1>6
  <2>4. PaidBeforeApplied'
    BY <1>7, <1>8, <1>12, <1>21, <2>3 DEF Sound, World, PaidBeforeApplied
  <2>. QED BY <2>1, <2>2, <2>4 DEF World
<1>37. Crew'
  BY <1>32, <1>35 DEF Crew
<1>. QED BY <1>21, <1>25, <1>33, <1>36, <1>37, TypedSolvent DEF Sound

LEMMA WriteSound ==
  ASSUME Sound, NEW w \in Workers, Write(w)
  PROVE  Sound'
<1> DEFINE key == <<Ref(w), Done(w) + 1>>
           new == worker[w].copy \cup {key}
<1>1. worker[w].pc = "write" /\ ~ Finished(w) /\ UNCHANGED <<wallet, stopping, faults>> /\ Live(w)
  BY DEF Write, Live
<1>2. CASE Out(w, "exit") /\ UNCHANGED <<world, row, log>>
  <2>1. UNCHANGED Rest /\ row' = row
    BY <1>1, <1>2 DEF Rest
  <2>2. row' \in [Runs -> RowType] /\ \A r \in Runs : Unmoved(r) /\ Plain(r)
    BY <2>1, RowsStay
  <2>. QED BY <1>1, <1>2, <2>1, <2>2, OutStep
<1>3. CASE Fails(w) /\ UNCHANGED <<world, log>>
  <2>1. UNCHANGED Rest
    BY <1>1, <1>3 DEF Rest
  <2>. QED BY <1>1, <1>3, <2>1, FailsRow, OutStep
<1>4. CASE /\ Owns(w) /\ Current(w)
           /\ world' = [rev |-> world.rev + 1, saves |-> worker[w].saves, writes |-> new]
           /\ log' = [log EXCEPT !.landed[key] = @ + 1]
           /\ SetRow(w, Progressed(w))
           /\ Becomes(w, [worker[w] EXCEPT !.copy = new, !.result.done = @ + 1])
  BY <1>1, <1>4, WriteLands
<1>. QED BY <1>2, <1>3, <1>4 DEF Write

-----------------------------------------------------------------------------
(* The end of a step, and of a run.                                        *)

\* The step is consumed and the next one journaled.
LEMMA ConsumesStep ==
  ASSUME Sound, NEW w \in Workers, worker[w].pc = "write", Owns(w), UNCHANGED Rest,
         SetRow(w, [Row(w) EXCEPT !.rev = world.rev, !.step = worker[w].step + 1,
                                  !.journal = Preflight]),
         Becomes(w, [worker[w] EXCEPT !.pc = "loop", !.step = @ + 1, !.copy = {}, !.saves = 0,
                                      !.rev = 0, !.result = Nothing])
  PROVE  Sound'
<1> DEFINE self == worker[w]
           next == [Row(w) EXCEPT !.rev = world.rev, !.step = self.step + 1, !.journal = Preflight]
           new == [self EXCEPT !.pc = "loop", !.step = self.step + 1, !.copy = {}, !.saves = 0,
                               !.rev = 0, !.result = Nothing]
<1>1. /\ self \in WorkerType /\ WorkerOK(w) /\ Live(w) /\ self.run \in Runs /\ Row(w) \in RowType
      /\ world.rev \in Nat
  BY Known DEF Live
<1>2. /\ ~ self.held /\ ~ self.replay /\ self.step \in Nat /\ self.step + 1 \in Nat
      /\ self.tries \in Nat /\ self.restarts \in Nat /\ self.tries <= self.step + self.restarts + 1
  <2>1. self.step \in Nat /\ self.tries \in 0 .. MaxTries /\ self.restarts \in 0 .. MaxRestarts
    BY <1>1 DEF WorkerType
  <2>2. self.tries \in Nat /\ self.restarts \in Nat /\ self.step + 1 \in Nat
    BY <2>1
  <2>. QED BY <1>1, <2>1, <2>2 DEF WorkerOK, Holding, Local
<1>3. row[self.run].claim = w
  BY OwnResult
<1>4. next \in RowType /\ next.claim = w /\ next.rev = world.rev /\ next.journal = Preflight
  BY <1>1, <1>2, <1>3, Journals DEF RowType, Row
<1> HIDE DEF next
<1>5. row' \in [Runs -> RowType] /\ \A r \in Runs \ {self.run} : Unmoved(r) /\ Plain(r)
  BY <1>1, <1>4, OneRowSet DEF next
<1>6. row'[self.run].claim = w /\ row'[self.run].rev = world.rev /\ row'[self.run].journal = Preflight
  BY <1>1, <1>4, OneRowSet DEF next
<1>7. world' = world /\ NoNewHolds(w)
  BY RestStays
<1>8. Plain(self.run)
  BY <1>1, <1>6, <1>7, Journals DEF Plain
<1>9. new \in WorkerType
  BY <1>1, <1>2, Journals DEF WorkerType, Pcs
<1>10. /\ new.pc = "loop" /\ new.run = self.run /\ new.rev = 0 /\ new.tries = self.tries
       /\ new.step = self.step + 1 /\ new.held = self.held /\ new.replay = self.replay
       /\ new.restarts = self.restarts
  BY <1>1 DEF WorkerType
<1>11. Becomes(w, new)
  BY <1>1 DEF WorkerType, Becomes
<1> HIDE DEF new
<1>12. worker' \in [Workers -> WorkerType] /\ worker'[w] = new /\ \A v \in Workers \ {w} : Same(v)
  BY <1>9, <1>11, OneWorker
<1>13. ASSUME Fresh \subseteq Fresh'
       PROVE  WorkerOK(w)'
  <2>1. Names(w)'
    BY <1>1, <1>10, <1>12, <1>13 DEF Names, WorkerOK, Unstaged
  <2>2. Copies(w)'
    BY <1>1, <1>2, <1>7, <1>10, <1>12 DEF Copies, Copied, Unstaged, Has
  <2>3. Local(w)'
    BY <1>1, <1>2, <1>10, <1>12 DEF Local, Live, Unstaged, Has
  <2>4. Holding(w)'
    BY <1>1, <1>2, <1>7, <1>10, <1>12 DEF Holding, WorkerOK, NoNewHolds
  <2>. QED BY <2>1, <2>2, <2>3, <2>4 DEF WorkerOK
<1>. QED BY <1>5, <1>6, <1>8, <1>12, <1>13, RowAndOwnStep

LEMMA FinishIterationSound ==
  ASSUME Sound, NEW w \in Workers, FinishIteration(w)
  PROVE  Sound'
<1>1. worker[w].pc = "write" /\ UNCHANGED Rest /\ Live(w)
  BY DEF FinishIteration, Live
<1>2. CASE Out(w, "exit") /\ UNCHANGED row
  <2>1. row' \in [Runs -> RowType] /\ \A r \in Runs : Unmoved(r) /\ Plain(r)
    BY <1>2, RowsStay
  <2>. QED BY <1>1, <1>2, <2>1, OutStep
<1>3. CASE /\ Owns(w)
           /\ SetRow(w, [Row(w) EXCEPT !.rev = world.rev, !.step = worker[w].step + 1,
                                       !.journal = Preflight])
           /\ Becomes(w, [worker[w] EXCEPT !.pc = "loop", !.step = @ + 1, !.copy = {}, !.saves = 0,
                                           !.rev = 0, !.result = Nothing])
  BY <1>1, <1>3, ConsumesStep
<1>. QED BY <1>2, <1>3 DEF FinishIteration

LEMMA FinalizeSound ==
  ASSUME Sound, NEW w \in Workers, Finalize(w)
  PROVE  Sound'
<1> DEFINE self == worker[w]
           mine == self.claimed /\ (Aborted(w) \/ ~ Owns(w))
           new == [self EXCEPT !.pc = "exit", !.claimed = mine]
<1>1. /\ self \in WorkerType /\ WorkerOK(w) /\ self.pc \in {"final", "card"} /\ Live(w)
      /\ UNCHANGED Rest
  BY Known DEF Finalize, Live
<1>2. row' \in [Runs -> RowType] /\ \A r \in Runs : Plain(r) /\ (Unmoved(r) \/ row'[r].claim \in {w, None})
  <2>1. PICK s \in {"completed", "awaiting_approval"} :
          row' = row \/ SetRow(w, Consumed(w, s)) \/ Marks(w, s)
    BY DEF Finalize
  <2>2. CASE row' = row
    BY <2>2, RowsStay
  <2>3. CASE SetRow(w, Consumed(w, s))
    <3>1. Row(w) \in RowType /\ self.run \in Runs
      BY <1>1, Known
    <3>2. /\ Consumed(w, s) \in RowType /\ Consumed(w, s).claim = None
          /\ Consumed(w, s).rev = Row(w).rev /\ Consumed(w, s).journal = Nothing
      BY <3>1, Journals DEF Consumed, RowType
    <3>. QED BY <1>1, <2>3, <3>1, <3>2, OneRowSet, Journals DEF Plain, Row
  <2>4. CASE Marks(w, s)
    BY <1>1, <2>4, MarksRow
  <2>. QED BY <2>1, <2>2, <2>3, <2>4
<1>3. world' = world /\ NoNewHolds(w)
  BY <1>1, RestStays
<1>4. ~ self.held /\ ~ self.replay
  BY <1>1 DEF WorkerOK, Holding, Local
<1>5. mine \in BOOLEAN
  OBVIOUS
<1>6. Becomes(w, new)
  BY DEF Finalize
<1> HIDE DEF mine
<1>7. new \in WorkerType
  BY <1>1, <1>5 DEF WorkerType, Pcs
<1>8. /\ new.pc = "exit" /\ new.run = self.run /\ new.rev = self.rev /\ new.tries = self.tries
      /\ new.held = self.held /\ new.replay = self.replay
  BY <1>1 DEF WorkerType
<1> HIDE DEF new
<1>9. worker' \in [Workers -> WorkerType] /\ worker'[w] = new /\ \A v \in Workers \ {w} : Same(v)
  BY <1>6, <1>7, OneWorker
<1>10. ASSUME Fresh \subseteq Fresh'
       PROVE  WorkerOK(w)'
  <2>1. Names(w)'
    BY <1>1, <1>8, <1>9, <1>10 DEF Names, WorkerOK, Unstaged
  <2>2. Copies(w)'
    BY <1>1, <1>3, <1>8, <1>9 DEF Copies, WorkerOK, Copied, Unstaged, Has
  <2>3. Local(w)'
    BY <1>1, <1>4, <1>8, <1>9 DEF Local, WorkerOK, Live, Unstaged, Has
  <2>4. Holding(w)'
    BY <1>1, <1>3, <1>4, <1>8, <1>9 DEF Holding, WorkerOK, NoNewHolds
  <2>. QED BY <2>1, <2>2, <2>3, <2>4 DEF WorkerOK
<1>. QED BY <1>1, <1>2, <1>9, <1>10, RowAndOwnStep

-----------------------------------------------------------------------------
(* The theorems.                                                           *)

LEMMA InitSound == Init => Sound
<1> SUFFICES ASSUME Init
             PROVE  Sound
  OBVIOUS
<1>1. Ledger!Init
  BY Zenon DEF Init, Wallet!Init, Ledger!Init, Wallet!NoHold, Ledger!NoHold, Wallet!Ended, Ledger!Ended
<1>2. Ledger!Covered
  BY <1>1, LedgerConstants, Ledger!InitCovered
<1>3. Wallet!TypeOK /\ Wallet!HoldsCovered
  BY <1>2, SameLedger DEF Ledger!Covered
<1>4. /\ world = [rev |-> 0, saves |-> 0, writes |-> {}]
      /\ \A r \in Runs : row[r] = Unborn
      /\ row \in [Runs -> {Unborn}] /\ worker \in [Workers -> {Idle}]
      /\ \A w \in Workers : worker[w] = Idle
      /\ stopping = {} /\ log = [saves |-> 0, landed |-> [x \in Writes |-> 0]] /\ faults = 0
  BY DEF Init
<1>5. Unborn \in RowType /\ Unborn.journal = Nothing /\ Unborn.rev = 0
  BY Journals DEF Unborn, RowType
<1>6. TypeOK
  <2>1. world \in [rev : Nat, saves : Nat, writes : SUBSET Writes]
    BY <1>4
  <2>2. row \in [Runs -> RowType] /\ worker \in [Workers -> WorkerType]
    BY <1>4, <1>5, IdleTyped
  <2>3. log \in [saves : Nat, landed : [Writes -> Nat]]
    BY <1>4
  <2>. QED BY <1>3, <1>4, <2>1, <2>2, <2>3 DEF TypeOK
<1>7. \A x \in Writes : log.landed[x] = 0
  BY <1>4
<1>8. World
  BY <1>4, <1>7 DEF World, NothingIsOverwritten, PaidBeforeApplied, AppliedOnce
<1>9. Rows
  BY <1>4, <1>5, Journals DEF Rows, OneRow, RowOK, Phase
<1>10. Fresh = Refs
  <2>1. \A x \in Refs, n \in 1 .. MaxWrites : log.landed[<<x, n>>] = 0
    BY <1>7 DEF Writes
  <2>2. \A x \in Refs : InLog[x] = {}
    BY <2>1 DEF InLog
  <2>. QED BY <1>4, <1>5, <2>2, Journals DEF Fresh, Phase
<1>11. ASSUME NEW w \in Workers
       PROVE  WorkerOK(w)
  <2>1. /\ worker[w].pc = "idle" /\ worker[w].tries = 0 /\ worker[w].rev = 0 /\ ~ worker[w].held
        /\ ~ worker[w].replay /\ world.rev = 0
    <3>1. worker[w] = Idle /\ world.rev = 0
      BY <1>4
    <3>2. /\ Idle.pc = "idle" /\ Idle.tries = 0 /\ Idle.rev = 0 /\ Idle.held = FALSE
          /\ Idle.replay = FALSE
      BY DEF Idle
    <3>. QED BY <3>1, <3>2
  <2>2. \A n \in 1 .. MaxTries : <<w, n>> \in Refs
    BY DEF Refs
  <2>3. \A x \in Refs : hold[x].status # "active"
    BY DEF Init, Wallet!Init, Wallet!NoHold, Wallet!Ended
  <2>4. Names(w)
    BY <1>10, <2>1, <2>2 DEF Names, Unstaged
  <2>5. Copies(w)
    BY <2>1 DEF Copies, Copied, Unstaged, Has
  <2>6. Local(w)
    BY <2>1 DEF Local, Live, Unstaged, Has
  <2>7. Holding(w)
    BY <2>1, <2>2, <2>3 DEF Holding
  <2>. QED BY <2>4, <2>5, <2>6, <2>7 DEF WorkerOK
<1>. QED BY <1>3, <1>6, <1>8, <1>9, <1>11 DEF Sound, Crew

LEMMA NextSound == Sound /\ [Next]_vars => Sound'
<1> SUFFICES ASSUME Sound, [Next]_vars
             PROVE  Sound'
  OBVIOUS
<1>1. CASE UNCHANGED vars
  <2>1. /\ UNCHANGED wallet /\ world' = world /\ row' = row /\ worker' = worker
        /\ stopping' = stopping /\ log' = log /\ faults' = faults
    BY <1>1 DEF vars
  <2>2. row' \in [Runs -> RowType] /\ \A r \in Runs : Unmoved(r) /\ Plain(r)
    BY <2>1, RowsStay
  <2>3. stopping' \subseteq Runs
    BY <2>1 DEF Sound, TypeOK
  <2>. QED BY <2>1, <2>2, <2>3, RowStep
<1>2. ASSUME NEW w \in Workers, Step(w)
      PROVE  Sound'
  <2>1. CASE Reenter(w) \/ Loop(w) \/ StagePreflight(w) \/ Reserve(w)
    BY <2>1, ReenterSound, LoopSound, StagePreflightSound, ReserveSound
  <2>2. CASE Answers(w) \/ AnswersUnpriced(w) \/ ProviderFails(w) \/ Cut(w)
    BY <2>2, AnswersSound, AnswersUnpricedSound, ProviderFailsSound, QuietOutSound
  <2>3. CASE PayAborted(w) \/ StageGenerated(w) \/ Settle(w)
    BY <2>3, PayAbortedSound, StageGeneratedSound, SettleSound
  <2>4. CASE Write(w) \/ FinishIteration(w) \/ Concludes(w) \/ Breaks(w) \/ Finalize(w)
    BY <2>4, WriteSound, FinishIterationSound, QuietOutSound, FinalizeSound
  <2>5. CASE Pause(w) \/ Exit(w) \/ Release(w)
    BY <2>5, PauseSound, ExitSound, ReleaseSound
  <2>. QED BY <1>2, <2>1, <2>2, <2>3, <2>4, <2>5 DEF Step
<1>3. ASSUME NEW w \in Workers,
             Watchdog(w) \/ RenewalReply(w) \/ Notice(w) \/ Drain(w) \/ Crash(w) \/ Lapse(w)
      PROVE  Sound'
  BY <1>3, WatchdogSound, LearnsSound, CrashSound, LapseSound
<1>4. ASSUME NEW w \in Workers, NEW r \in Runs, Start(w, r) \/ Resume(w, r) \/ Answer(w, r)
      PROVE  Sound'
  BY <1>4, StartSound, ResumeSound, AnswerSound
<1>5. ASSUME NEW r \in Runs, StopArrives(r) \/ StopWrites(r) \/ Discard(r) \/ Age(r)
      PROVE  Sound'
  BY <1>5, StopArrivesSound, StopWritesSound, DiscardSound, AgeSound
<1>6. CASE EditorSave \/ TopUp
  BY <1>6, EditorSaveSound, TopUpSound
<1>. QED BY <1>1, <1>2, <1>3, <1>4, <1>5, <1>6 DEF Next

LEMMA StaysSound == Spec => []Sound
BY InitSound, NextSound, PTL DEF Spec

\* Rows, workers, world and wallet keep their types, for any number of runs,
\* workers, steps, writes and faults; no worker takes more tries than its
\* steps and its restarts allow.
THEOREM StudioTyped == Spec => []TypeOK
<1>1. Sound => TypeOK
  BY DEF Sound
<1>. QED BY <1>1, StaysSound, PTL

\* No write of a worker's whole copy of the world, and none made by whoever
\* resumed its run, removes a save of the editor or another write.
THEOREM StudioNothingIsOverwritten == Spec => []NothingIsOverwritten
<1>1. Sound => NothingIsOverwritten
  BY DEF Sound, World
<1>. QED BY <1>1, StaysSound, PTL

\* Every write in the world belongs to a step that was charged.
THEOREM StudioPaidBeforeApplied == Spec => []PaidBeforeApplied
<1>1. Sound => PaidBeforeApplied
  BY DEF Sound, World
<1>. QED BY <1>1, StaysSound, PTL

\* A crash, a deploy or a resume between any two writes repeats none of them.
THEOREM StudioAppliedOnce == Spec => []AppliedOnce
<1>1. Sound => AppliedOnce
  BY DEF Sound, World
<1>. QED BY <1>1, StaysSound, PTL

\* A worker that did not crash leaves no credits held, whichever of its exits
\* it took.
THEOREM StudioHoldsAreReleased == Spec => []HoldsAreReleased
<1>1. Sound => HoldsAreReleased
  BY DEF Sound, Crew, WorkerOK, Holding, HoldsAreReleased
<1>. QED BY <1>1, StaysSound, PTL

\* The runs use the wallet as it wants to be used, so that what they hold
\* together is always covered.
THEOREM StudioHoldsCovered == Spec => []Wallet!HoldsCovered
<1>1. Sound => Wallet!HoldsCovered
  BY DEF Sound
<1>. QED BY <1>1, StaysSound, PTL

-----------------------------------------------------------------------------
(* Paid work, if whoever answered a card only took back a run that is still*)
(* its own.                                                                *)
(*                                                                         *)
(* resumeWith marks a run running by its id alone.  Every other write of a *)
(* row during a run is made under ownedRunWhere, or in a transaction that  *)
(* compares the claim.  The results below are about the executions in      *)
(* which that update, too, finds its run as ownedRunWhere would.           *)

CardOwned == \A w \in Workers : Reenter(w) => Owns(w)
CardsOwnTheirRun == [][CardOwned]_vars

\* A result that a row can be resumed with belongs to a step within the limit.
WithinSteps(x) ==
  /\ x.journal.phase = "generated" /\ (x.claim # None \/ x.status = "awaiting_credits")
  => x.step < MaxSteps
\* A worker that has a step to do, or a result to apply, is within the limit.
Within(w) ==
  \/ worker[w].pc \in {"stage", "reserve", "generate", "bill", "settle"}
  \/ worker[w].pc = "loop" /\ worker[w].replay
  \/ worker[w].pc = "pause" /\ worker[w].result.phase = "generated"
  => worker[w].step < MaxSteps
\* What is in its row is not paid yet.
Before(w) == Copied(w) \/ (worker[w].pc = "loop" /\ ~ worker[w].replay)
\* What a worker that its row names is about to do there loses no paid result,
\* and neither does what a late answer makes of it.
Keeps(w) ==
  /\ Before(w) => ~ Row(w).journal.paid
  /\ worker[w].pc = "pause" => ~ Row(w).journal.paid \/ worker[w].result = Row(w).journal
  /\ worker[w].pc \in {"final", "card"} => ~ Owed(worker[w].run) \/ Aborted(w)
  /\ worker[w].pc \notin {"exit", "release"} => Row(w).status # "awaiting_approval"
  /\ worker[w].abort = "watchdog" /\ worker[w].pc \notin {"exit", "release"} =>
       Row(w).status # "running"
Careful(w) ==
  /\ Within(w)
  /\ Live(w) /\ Row(w).claim = w => Keeps(w)
  /\ worker[w].pc = "answer" => ~ worker[w].claimed
  /\ worker[w].abort = "watchdog" =>
       worker[w].pc \in {"generate", "write", "final", "exit", "release"}
Thrifty == (\A r \in Runs : WithinSteps(row[r])) /\ \A w \in Workers : Careful(w)

\* The step loses no paid result of r.
Saved(r) ==
  Owed(r) /\ Resumable(r) =>
    Kept(r) \/ row'[r].why \in {"stopped", "superseded"} \/ EndedBy(r, {"stop", "lease"})
\* All that is to be shown of a step that starts no run.
Frugal ==
  /\ Thrifty'
  /\ \A r \in Runs : Saved(r)
  /\ \A r \in Runs : row'[r].status = "running" => row[r].status = "running"

-----------------------------------------------------------------------------
(* What a step leaves to the others.                                       *)

Others(w) == \A v \in Workers \ {w} : worker'[v] = worker[v]
\* A row stays as it is, or is written by w that owned it.
Calm(w, r) ==
  \/ row'[r] = row[r]
  \/ /\ row'[r].claim \in {w, None} /\ row[r].status = "running"
     /\ WithinSteps(row'[r]) /\ Saved(r)

LEMMA SameRowSaved ==
  ASSUME Sound, NEW r \in Runs, row'[r] = row[r]
  PROVE  Saved(r)
<1>1. row[r].journal.done \in 0 .. MaxWrites
  BY DEF Sound, TypeOK, RowType, JournalType
<1>. QED BY <1>1 DEF Saved, Kept, Resumable

\* A row that keeps its claim and its result, and does not come to wait.
Aside(r) ==
  /\ row'[r].claim = row[r].claim /\ row'[r].journal = row[r].journal /\ row'[r].step = row[r].step
  /\ \/ row'[r].status \in {row[r].status, "completed"}
     \/ row[r].status = "awaiting_approval" /\ row'[r].status = "running"

\* A worker that learns something at most, and the row that names it.
LEMMA StaysCareful ==
  ASSUME Sound, NEW v \in Workers, Careful(v), Same(v),
         worker'[v].abort = worker[v].abort \/ (worker[v].abort = "" /\ worker'[v].abort # "watchdog"),
         \A r \in Runs : Aside(r) \/ row'[r].claim # v
  PROVE  Careful(v)'
<1>1. Live(v) => worker[v].run \in Runs
  BY Known
<1>2. Live(v)' <=> Live(v)
  BY DEF Live, Same
<1>3. ASSUME Live(v), Row(v)'.claim = v
      PROVE  Keeps(v)'
  <2>1. PICK r \in Runs : r = worker[v].run
    BY <1>1, <1>3
  <2>2. Row(v) = row[r] /\ Row(v)' = row'[r] /\ Aside(r)
    BY <1>3, <2>1 DEF Row, Same
  <2>3. Keeps(v)
    BY <1>3, <2>2 DEF Careful, Aside
  <2>4. (Before(v)' <=> Before(v)) /\ (Owed(r)' <=> Owed(r))
    BY <2>2 DEF Before, Copied, Unstaged, Owed, Same, Aside
  <2>5. Owed(worker[v].run)' <=> Owed(worker[v].run)
    BY <2>1, <2>4 DEF Owed, Same
  <2>6. Aborted(v) => Aborted(v)'
    BY DEF Aborted
  <2>7. Before(v)' => ~ Row(v)'.journal.paid
    BY <2>2, <2>3, <2>4 DEF Keeps, Aside
  <2>8. worker'[v].pc = "pause" => ~ Row(v)'.journal.paid \/ worker'[v].result = Row(v)'.journal
    BY <2>2, <2>3 DEF Keeps, Same, Aside
  <2>9. worker'[v].pc \in {"final", "card"} => ~ Owed(worker[v].run)' \/ Aborted(v)'
    BY <2>3, <2>5, <2>6 DEF Keeps, Same
  <2>10. worker'[v].pc \notin {"exit", "release"} => Row(v)'.status # "awaiting_approval"
    BY <2>2, <2>3 DEF Keeps, Same, Aside
  <2>11. worker'[v].abort = "watchdog" /\ worker'[v].pc \notin {"exit", "release"} =>
           Row(v)'.status # "running"
    BY <2>2, <2>3 DEF Keeps, Same, Aside
  <2>. QED BY <2>7, <2>8, <2>9, <2>10, <2>11 DEF Keeps, Same
<1>. QED BY <1>2, <1>3 DEF Careful, Within, Same

LEMMA Thrives ==
  ASSUME Sound, Thrifty, NEW w \in Workers, Others(w), \A r \in Runs : Calm(w, r), Careful(w)'
  PROVE  Frugal
<1>1. ASSUME NEW v \in Workers \ {w}
      PROVE  Careful(v)'
  <2>1. v # None /\ v # w
    BY ConstantsTyped
  <2>2. Same(v) /\ worker'[v].abort = worker[v].abort
    BY DEF Others, Same
  <2>3. \A r \in Runs : Aside(r) \/ row'[r].claim # v
    BY <2>1 DEF Calm, Aside
  <2>. QED BY <2>2, <2>3, StaysCareful DEF Thrifty
<1>2. Thrifty'
  BY <1>1 DEF Thrifty, Calm
<1>3. \A r \in Runs : Saved(r)
  BY SameRowSaved DEF Calm
<1>. QED BY <1>2, <1>3 DEF Frugal, Calm

\* The new worker and the others.
LEMMA BecomesOne ==
  ASSUME Sound, NEW w \in Workers, NEW new, Becomes(w, new)
  PROVE  worker'[w] = new /\ Others(w)
<1>1. worker \in [Workers -> WorkerType]
  BY DEF Sound, TypeOK
<1>. QED BY <1>1 DEF Becomes, Others

\* A worker that has nothing left to do in its row.
LEMMA EndsCareful ==
  ASSUME NEW w \in Workers, worker'[w].pc \in {"exit", "release", "gone", "dead"},
         worker'[w].pc \in {"exit", "release"} \/ worker'[w].abort = ""
  PROVE  Careful(w)'
<1>1. Within(w)' /\ (worker'[w].abort = "watchdog" => worker'[w].pc \in {"exit", "release"})
  BY DEF Within
<1>2. Live(w)' => Keeps(w)'
  BY DEF Keeps, Live, Before, Copied, Unstaged
<1>. QED BY <1>1, <1>2 DEF Careful

\* Who leaves the loop.
LEMMA OutCareful ==
  ASSUME Sound, NEW w \in Workers, Out(w, "exit")
  PROVE  Others(w) /\ Careful(w)'
<1>1. /\ worker'[w] = [Idle EXCEPT !.pc = "exit", !.run = worker[w].run, !.claimed = worker[w].claimed,
                         !.abort = worker[w].abort, !.late = worker[w].late,
                         !.held = worker[w].held, !.tries = worker[w].tries]
      /\ Others(w)
  BY BecomesOne DEF Out
<1>2. worker'[w].pc = "exit"
  BY <1>1 DEF Idle
<1>. QED BY <1>1, <1>2, EndsCareful

LEMMA LeavesCareful ==
  ASSUME Sound, NEW w \in Workers, NEW pc \in {"gone", "dead"}, Leaves(w, pc)
  PROVE  Others(w) /\ Careful(w)'
<1>1. worker'[w] = [Idle EXCEPT !.pc = pc] /\ Others(w)
  BY BecomesOne DEF Leaves
<1>2. worker'[w].pc = pc /\ worker'[w].abort = ""
  BY <1>1 DEF Idle
<1>. QED BY <1>1, <1>2, EndsCareful

-----------------------------------------------------------------------------
(* What a worker writes to the row that it owns.                           *)

LEMMA OwnClaim ==
  ASSUME Sound, NEW w \in Workers, Live(w), Owns(w)
  PROVE  /\ Row(w) \in RowType /\ Row(w).claim \in {w, None} /\ Row(w).status = "running"
         /\ worker[w].claimed <=> Row(w).claim = w
         /\ Row(w) = row[worker[w].run] /\ worker[w].run \in Runs
BY Known, ConstantsTyped DEF Owns, Row

\* A row that is written can be resumed no worse than before.
KeptIn(old, new) ==
  /\ new.status = "awaiting_credits" \/ (new.status \in {"running", "error"} /\ new.claim # None)
  /\ new.journal.ref = old.journal.ref /\ new.journal.done >= old.journal.done

LEMMA OwnerWrites ==
  ASSUME Sound, NEW w \in Workers, Live(w), Owns(w), NEW new \in RowType, SetRow(w, new),
         new.claim \in {w, None}, WithinSteps(new),
         Owed(worker[w].run) /\ Row(w).claim = w =>
           KeptIn(Row(w), new) \/ worker[w].abort \in {"stop", "lease"}
  PROVE  \A r \in Runs : Calm(w, r)
<1>0. PICK run \in Runs : run = worker[w].run
  BY OwnClaim
<1> DEFINE n == [new EXCEPT !.stale = FALSE]
<1>1. row \in [Runs -> RowType]
  BY DEF Sound, TypeOK
<1>2. /\ Row(w).claim \in {w, None} /\ row[run].status = "running" /\ Row(w) = row[run]
  BY <1>0, OwnClaim
<1>3. /\ n.status = new.status /\ n.claim = new.claim /\ n.journal = new.journal
      /\ n.step = new.step
  BY DEF RowType
<1>4. row' = [row EXCEPT ![run] = n]
  BY <1>0 DEF SetRow
<1> HIDE DEF n
<1>5. row'[run] = n /\ \A r \in Runs \ {run} : row'[r] = row[r]
  BY <1>1, <1>2, <1>4
<1>6. WithinSteps(row'[run])
  BY <1>3, <1>5 DEF WithinSteps
<1>7. Resumable(run) => Row(w).claim = w
  BY <1>2 DEF Resumable
<1>8. KeptIn(Row(w), new) => Kept(run)
  BY <1>2, <1>3, <1>5 DEF KeptIn, Kept, Resumable
<1>9. Saved(run)
  BY <1>0, <1>2, <1>7, <1>8 DEF Saved, EndedBy
<1>. QED BY <1>2, <1>3, <1>5, <1>6, <1>9 DEF Calm

\* finalizeRun keeps the claim and the journal.  Only an error can be resumed.
LEMMA MarksCalm ==
  ASSUME Sound, Thrifty, NEW w \in Workers, Live(w),
         NEW s \in {"completed", "error", "awaiting_approval"}, Marks(w, s),
         s = "error" \/ (Owed(worker[w].run) /\ Owns(w) /\ Row(w).claim = w =>
                           Shutdown(w) \/ worker[w].abort \in {"stop", "lease"})
  PROVE  \A r \in Runs : Calm(w, r)
<1>1. CASE row' = row
  BY <1>1 DEF Calm
<1>2. CASE Owns(w) /\ ~ Shutdown(w) /\ SetRow(w, [Row(w) EXCEPT !.status = s])
  <2> DEFINE new == [Row(w) EXCEPT !.status = s]
  <2>1. /\ Row(w) \in RowType /\ Row(w).claim \in {w, None} /\ Row(w).status = "running"
        /\ WithinSteps(Row(w))
    BY <1>2, OwnClaim DEF Thrifty
  <2>2. /\ new \in RowType /\ new.claim = Row(w).claim /\ new.journal = Row(w).journal
        /\ new.status = s /\ new.step = Row(w).step
    BY <2>1 DEF RowType
  <2>3. SetRow(w, new)
    BY <1>2
  <2> HIDE DEF new
  <2>4. WithinSteps(new)
    BY <2>1, <2>2 DEF WithinSteps
  <2>5. Row(w).journal.done \in 0 .. MaxWrites
    BY <2>1 DEF RowType, JournalType
  <2>6. s = "error" /\ Row(w).claim = w => KeptIn(Row(w), new)
    BY <2>2, <2>5, ConstantsTyped DEF KeptIn
  <2>. QED BY <1>2, <2>1, <2>2, <2>3, <2>4, <2>6, OwnerWrites
<1>. QED BY <1>1, <1>2 DEF Marks

LEMMA RestoresCalm ==
  ASSUME Sound, Thrifty, NEW w \in Workers, Live(w), Owns(w), worker[w].claimed,
         SetRow(w, Restored(w))
  PROVE  \A r \in Runs : Calm(w, r)
<1>1. /\ Row(w) \in RowType /\ Row(w).claim = w /\ w # None /\ WithinSteps(Row(w))
  BY OwnClaim, ConstantsTyped DEF Thrifty
<1>2. /\ Restored(w) \in RowType /\ Restored(w).claim = None /\ Restored(w).journal = Row(w).journal
      /\ Restored(w).status = "awaiting_credits" /\ Restored(w).step = Row(w).step
  BY <1>1 DEF RowType, Restored
<1>3. WithinSteps(Restored(w))
  BY <1>1, <1>2 DEF WithinSteps
<1>4. Row(w).journal.done \in 0 .. MaxWrites
  BY <1>1 DEF RowType, JournalType
<1>5. KeptIn(Row(w), Restored(w))
  BY <1>2, <1>4 DEF KeptIn
<1>. QED BY <1>2, <1>3, <1>5, OwnerWrites

\* A worker that leaves the loop and keeps its row resumable, if at all.
LEMMA OutFrugal ==
  ASSUME Sound, Thrifty, NEW w \in Workers, Out(w, "exit"), \A r \in Runs : Calm(w, r)
  PROVE  Frugal
BY OutCareful, Thrives

LEMMA FailsFrugal ==
  ASSUME Sound, Thrifty, NEW w \in Workers, Live(w), Fails(w)
  PROVE  Frugal
BY MarksCalm, RestoresCalm, OutFrugal DEF Fails

LEMMA QuietExit ==
  ASSUME Sound, Thrifty, NEW w \in Workers, Out(w, "exit"), row' = row
  PROVE  Frugal
BY OutFrugal DEF Calm

LEMMA QuietLeave ==
  ASSUME Sound, Thrifty, NEW w \in Workers, NEW pc \in {"gone", "dead"}, Leaves(w, pc), row' = row
  PROVE  Frugal
BY LeavesCareful, Thrives DEF Calm

\* The row of a worker that goes on with its run, when the step leaves it.
LEMMA RowOfGoing ==
  ASSUME NEW w \in Workers, row' = row, worker'[w].run = worker[w].run
  PROVE  Row(w)' = Row(w) /\ (Owed(worker[w].run)' <=> Owed(worker[w].run))
BY DEF Row, Owed

\* A worker that goes on in a place where it has not the last word: nothing
\* paid is in its row, or it holds what is there.
LEMMA GoesFrugal ==
  ASSUME Sound, Thrifty, NEW w \in Workers, Live(w), Others(w), row' = row,
         worker'[w].run = worker[w].run, worker'[w].abort = worker[w].abort,
         worker[w].abort = "watchdog" => worker'[w].pc \in {"generate", "write", "final"},
         worker[w].pc \notin {"exit", "release"}, worker'[w].pc # "answer",
         Within(w)',
         Row(w).claim = w =>
           /\ Before(w)' => ~ Row(w).journal.paid
           /\ worker'[w].pc = "pause" => ~ Row(w).journal.paid \/ worker'[w].result = Row(w).journal
           /\ worker'[w].pc \in {"final", "card"} => ~ Owed(worker[w].run) \/ Aborted(w)
  PROVE  Frugal
<1>1. Row(w)' = Row(w) /\ (Owed(worker[w].run)' <=> Owed(worker[w].run)) /\ Careful(w)
  BY RowOfGoing DEF Thrifty
<1>2. Row(w)'.claim = w => Keeps(w)'
  BY <1>1 DEF Careful, Keeps, Aborted
<1>3. Careful(w)'
  BY <1>1, <1>2 DEF Careful
<1>. QED BY <1>3, Thrives DEF Calm

-----------------------------------------------------------------------------
(* The steps of a worker.                                                  *)

\* Who concludes leaves nothing that is owed, unless it was aborted.
LEMMA OutsFrugal ==
  ASSUME Sound, Thrifty, NEW w \in Workers, Live(w), NEW pc \in {"final", "card"}, Out(w, pc),
         row' = row, worker[w].abort = "watchdog" => pc = "final",
         worker[w].pc \notin {"exit", "release"},
         Row(w).claim = w => ~ Owed(worker[w].run) \/ Aborted(w)
  PROVE  Frugal
<1>1. /\ worker'[w] = [Idle EXCEPT !.pc = pc, !.run = worker[w].run, !.claimed = worker[w].claimed,
                         !.abort = worker[w].abort, !.late = worker[w].late,
                         !.held = worker[w].held, !.tries = worker[w].tries]
      /\ Others(w)
  BY BecomesOne DEF Out
<1>2. worker'[w].pc = pc /\ worker'[w].run = worker[w].run /\ worker'[w].abort = worker[w].abort
  BY <1>1 DEF Idle
<1>3. Within(w)' /\ ~ Before(w)'
  BY <1>2 DEF Within, Before, Copied, Unstaged
<1>. QED BY <1>1, <1>2, <1>3, GoesFrugal

\* What is known of a worker, by the place it is in.
LEMMA Place ==
  ASSUME Sound, Thrifty, NEW w \in Workers, Live(w)
  PROVE  /\ worker[w] \in WorkerType /\ WorkerOK(w) /\ Careful(w)
         /\ worker[w].run \in Runs /\ Row(w) \in RowType /\ WithinSteps(Row(w))
         /\ Row(w) = row[worker[w].run]
         /\ worker[w].step \in Nat /\ MaxSteps \in Nat
<1>1. worker[w] \in WorkerType /\ WorkerOK(w) /\ worker[w].run \in Runs /\ Row(w) \in RowType
  BY Known
<1>. QED BY <1>1, ConstantsTyped DEF Thrifty, WorkerType, Row

LEMMA LoopFrugal ==
  ASSUME Sound, Thrifty, NEW w \in Workers, Loop(w)
  PROVE  Frugal
<1> DEFINE self == worker[w]
           seen == [self EXCEPT !.rev = world.rev, !.copy = world.writes,
                                !.saves = world.saves, !.result = Preflight]
<1>1. Live(w) /\ self.pc = "loop" /\ row' = row
  BY DEF Loop, Live
<1>2. self \in WorkerType /\ Careful(w) /\ self.step \in Nat /\ MaxSteps \in Nat
  BY <1>1, Place
<1>3. self.abort # "watchdog"
  BY <1>1, <1>2 DEF Careful
<1>4. ~ self.replay /\ Row(w).claim = w => ~ Row(w).journal.paid /\ ~ Owed(self.run)
  BY <1>1, <1>2 DEF Careful, Keeps, Before, Owed, Row
<1>5. CASE (Aborted(w) \/ self.step >= MaxSteps) /\ Out(w, "final")
  <2>1. ~ Aborted(w) => ~ self.replay
    BY <1>1, <1>2, <1>5 DEF Careful, Within
  <2>. QED BY <1>1, <1>3, <1>4, <1>5, <2>1, OutsFrugal
<1>6. CASE self.replay /\ self.step < MaxSteps /\ Becomes(w, [self EXCEPT !.pc = "bill"])
  <2>1. worker'[w] = [self EXCEPT !.pc = "bill"] /\ Others(w)
    BY <1>6, BecomesOne
  <2>2. /\ worker'[w].pc = "bill" /\ worker'[w].run = self.run /\ worker'[w].abort = self.abort
        /\ worker'[w].replay = self.replay /\ worker'[w].step = self.step
    BY <1>2, <2>1 DEF WorkerType
  <2>3. Within(w)' /\ ~ Before(w)'
    BY <1>6, <2>2 DEF Within, Before, Copied, Unstaged
  <2>. QED BY <1>1, <1>3, <2>1, <2>2, <2>3, GoesFrugal
<1>7. ASSUME ~ self.replay, self.step < MaxSteps,
             NEW pc \in {"pause", "stage"}, Becomes(w, [seen EXCEPT !.pc = pc])
      PROVE  Frugal
  <2>1. worker'[w] = [seen EXCEPT !.pc = pc] /\ Others(w)
    BY <1>7, BecomesOne
  <2>2. /\ worker'[w].pc = pc /\ worker'[w].run = self.run /\ worker'[w].abort = self.abort
        /\ worker'[w].step = self.step
    BY <1>2, <2>1 DEF WorkerType
  <2>3. Within(w)'
    BY <1>7, <2>2 DEF Within
  <2>. QED BY <1>1, <1>3, <1>4, <1>7, <2>1, <2>2, <2>3, GoesFrugal
<1>. QED BY <1>5, <1>6, <1>7 DEF Loop

\* A step begins again: its result, if there was one, was never in the row.
LEMMA AgainFrugal ==
  ASSUME Sound, Thrifty, NEW w \in Workers, worker[w].pc \in {"stage", "bill"}, Copied(w),
         row' = row, NEW late \in BOOLEAN, Becomes(w, [Again(w) EXCEPT !.late = late])
  PROVE  Frugal
<1>1. worker'[w] = [Again(w) EXCEPT !.late = late] /\ Others(w)
  BY BecomesOne
<1>2. /\ worker'[w].pc = "loop" /\ worker'[w].run = worker[w].run
      /\ worker'[w].abort = worker[w].abort /\ worker'[w].replay = FALSE
  BY <1>1 DEF Again, Idle
<1>3. Live(w) /\ Careful(w)
  BY DEF Live, Thrifty
<1>4. Row(w).claim = w => ~ Row(w).journal.paid
  BY <1>3 DEF Careful, Keeps, Before
<1>5. worker[w].abort # "watchdog"
  BY <1>3 DEF Careful
<1>6. Within(w)'
  BY <1>2 DEF Within
<1>. QED BY <1>1, <1>2, <1>3, <1>4, <1>5, <1>6, GoesFrugal

\* A step goes on in front of its result, or pauses there.
LEMMA BeforeFrugal ==
  ASSUME Sound, Thrifty, NEW w \in Workers, Copied(w), row' = row, Others(w),
         worker'[w].run = worker[w].run, worker'[w].abort = worker[w].abort,
         worker'[w].step = worker[w].step,
         worker'[w].pc \in {"reserve", "generate", "bill", "settle", "pause"},
         worker[w].abort = "watchdog" => worker'[w].pc = "generate"
  PROVE  Frugal
<1>1. Live(w) /\ Careful(w) /\ worker[w].pc \in {"stage", "reserve", "generate", "bill"}
  BY DEF Live, Thrifty, Copied, Unstaged
<1>2. Row(w).claim = w => ~ Row(w).journal.paid
  BY <1>1 DEF Careful, Keeps, Before
<1>3. Within(w)'
  BY <1>1 DEF Careful, Within
<1>. QED BY <1>1, <1>2, <1>3, GoesFrugal

\* The worker journals what it holds, before the model is asked or after.
LEMMA StagesCalm ==
  ASSUME Sound, Thrifty, NEW w \in Workers, Copied(w), Owns(w), SetRow(w, Staged(w))
  PROVE  /\ \A r \in Runs : Calm(w, r)
         /\ row'[worker[w].run].status = "running"
         /\ row'[worker[w].run].journal = worker[w].result
<1>1. Live(w) /\ worker[w].pc \in {"stage", "reserve", "generate", "bill"}
  BY DEF Live, Copied, Unstaged
<1>2. /\ worker[w] \in WorkerType /\ Careful(w) /\ worker[w].run \in Runs /\ Row(w) \in RowType
      /\ worker[w].step \in Nat
  BY <1>1, Place
<1>3. Row(w).status = "running"
  BY <1>1, OwnClaim
<1>4. /\ Staged(w) \in RowType /\ Staged(w).claim = w /\ Staged(w).step = worker[w].step
      /\ Staged(w).journal = worker[w].result /\ Staged(w).status = "running"
  BY <1>2, <1>3 DEF Staged, RowType, WorkerType
<1>5. WithinSteps(Staged(w))
  BY <1>1, <1>2, <1>4 DEF WithinSteps, Careful, Within
<1>6. Row(w).claim = w => ~ Owed(worker[w].run)
  BY <1>1, <1>2 DEF Careful, Keeps, Before, Owed, Row
<1>7. \A r \in Runs : Calm(w, r)
  BY <1>1, <1>4, <1>5, <1>6, OwnerWrites
<1>8. row'[worker[w].run] = [Staged(w) EXCEPT !.stale = FALSE]
  BY <1>2 DEF SetRow, Sound, TypeOK
<1>9. row'[worker[w].run].status = "running" /\ row'[worker[w].run].journal = worker[w].result
  BY <1>4, <1>8 DEF RowType
<1>. QED BY <1>7, <1>9

LEMMA StagePreflightFrugal ==
  ASSUME Sound, Thrifty, NEW w \in Workers, StagePreflight(w)
  PROVE  Frugal
<1> DEFINE self == worker[w]
<1>1. Live(w) /\ self.pc = "stage" /\ Copied(w)
  BY DEF StagePreflight, Live, Copied
<1>2. self \in WorkerType /\ WorkerOK(w) /\ Careful(w) /\ self.step \in Nat /\ MaxSteps \in Nat
  BY <1>1, Place
<1>3. self.result = Preflight /\ self.abort # "watchdog"
  BY <1>1, <1>2 DEF Careful, WorkerOK, Names
<1>4. CASE Out(w, "exit") /\ row' = row
  BY <1>4, QuietExit
<1>5. CASE Becomes(w, [Again(w) EXCEPT !.late = self.late]) /\ row' = row
  <2>1. self.late \in BOOLEAN
    BY <1>2 DEF WorkerType
  <2>. QED BY <1>1, <1>5, <2>1, AgainFrugal
<1>6. CASE Becomes(w, [self EXCEPT !.pc = "pause"]) /\ row' = row
  <2>1. worker'[w] = [self EXCEPT !.pc = "pause"] /\ Others(w)
    BY <1>6, BecomesOne
  <2>2. /\ worker'[w].pc = "pause" /\ worker'[w].run = self.run /\ worker'[w].abort = self.abort
        /\ worker'[w].step = self.step
    BY <1>2, <2>1 DEF WorkerType
  <2>. QED BY <1>1, <1>3, <1>6, <2>1, <2>2, BeforeFrugal
<1>7. CASE /\ Owns(w) /\ SetRow(w, Staged(w))
           /\ Becomes(w, [self EXCEPT !.pc = "reserve", !.claimed = TRUE, !.tries = @ + 1])
  <2>1. worker'[w] = [self EXCEPT !.pc = "reserve", !.claimed = TRUE, !.tries = @ + 1] /\ Others(w)
    BY <1>7, BecomesOne
  <2>2. /\ worker'[w].pc = "reserve" /\ worker'[w].run = self.run /\ worker'[w].abort = self.abort
        /\ worker'[w].step = self.step
    BY <1>2, <2>1 DEF WorkerType
  <2>3. /\ \A r \in Runs : Calm(w, r)
        /\ Row(w)'.status = "running" /\ Row(w)'.journal = Preflight
    BY <1>1, <1>3, <1>7, <2>2, StagesCalm DEF Row
  <2>4. Keeps(w)'
    BY <1>3, <2>2, <2>3, Journals DEF Keeps
  <2>5. Within(w)'
    BY <1>1, <1>2, <2>2 DEF Careful, Within
  <2>6. Careful(w)'
    BY <1>3, <2>2, <2>4, <2>5 DEF Careful
  <2>. QED BY <2>1, <2>3, <2>6, Thrives
<1>. QED BY <1>4, <1>5, <1>6, <1>7 DEF StagePreflight

LEMMA ReserveFrugal ==
  ASSUME Sound, Thrifty, NEW w \in Workers, Reserve(w)
  PROVE  Frugal
<1>1. worker[w].pc = "reserve" /\ Copied(w) /\ Live(w) /\ row' = row
  BY DEF Reserve, Copied, Unstaged, Live
<1>2. worker[w] \in WorkerType /\ Careful(w)
  BY <1>1, Place
<1>3. PICK new \in {[worker[w] EXCEPT !.pc = "generate", !.held = TRUE], [worker[w] EXCEPT !.pc = "pause"]} :
        Becomes(w, new)
  BY DEF Reserve, Goes
<1>4. /\ new.pc \in {"generate", "pause"} /\ new.run = worker[w].run /\ new.abort = worker[w].abort
      /\ new.step = worker[w].step
  BY <1>2, <1>3 DEF WorkerType
<1>5. worker'[w] = new /\ Others(w)
  BY <1>3, BecomesOne
<1>6. worker[w].abort # "watchdog"
  BY <1>1, <1>2 DEF Careful
<1>. QED BY <1>1, <1>4, <1>5, <1>6, BeforeFrugal

LEMMA AnswersFrugal ==
  ASSUME Sound, Thrifty, NEW w \in Workers, Answers(w) \/ AnswersUnpriced(w)
  PROVE  Frugal
<1>1. worker[w].pc = "generate" /\ Copied(w) /\ Live(w) /\ row' = row /\ worker[w].abort = ""
  BY DEF Answers, AnswersUnpriced, Copied, Unstaged, Live, Rest, Aborted
<1>2. worker[w] \in WorkerType
  BY <1>1, Place
<1>3. \E pc \in {"bill", "pause"} : \E j : Becomes(w, [worker[w] EXCEPT !.pc = pc, !.result = j])
  BY DEF Answers, AnswersUnpriced, Shelves
<1>4. PICK pc \in {"bill", "pause"} : \E j : Becomes(w, [worker[w] EXCEPT !.pc = pc, !.result = j])
  BY <1>3
<1>5. PICK j : Becomes(w, [worker[w] EXCEPT !.pc = pc, !.result = j])
  BY <1>4
<1>6. worker'[w] = [worker[w] EXCEPT !.pc = pc, !.result = j] /\ Others(w)
  BY <1>5, BecomesOne
<1>7. /\ worker'[w].pc = pc /\ worker'[w].run = worker[w].run /\ worker'[w].abort = worker[w].abort
      /\ worker'[w].step = worker[w].step
  BY <1>2, <1>6 DEF WorkerType
<1>. QED BY <1>1, <1>6, <1>7, BeforeFrugal

\* A provider fails before its answer is journaled, let alone paid.
LEMMA ProviderFailsFrugal ==
  ASSUME Sound, Thrifty, NEW w \in Workers, ProviderFails(w)
  PROVE  Frugal
<1>1. Live(w) /\ Before(w)
  BY DEF ProviderFails, Live, Before, Copied, Unstaged
<1>2. Careful(w) /\ Row(w) = row[worker[w].run]
  BY <1>1, Place
<1>3. Row(w).claim = w => ~ Owed(worker[w].run)
  BY <1>1, <1>2 DEF Careful, Keeps, Owed
<1>4. PICK s \in {"completed", "error"} : Marks(w, s)
  BY DEF ProviderFails
<1>5. \A r \in Runs : Calm(w, r)
  BY <1>1, <1>3, <1>4, MarksCalm
<1>. QED BY <1>5, OutFrugal DEF ProviderFails

\* The watchdog marks the row of its run as an error, if it can: whoever it
\* aborted no longer owns the run.
LEMMA WatchdogFrugal ==
  ASSUME Sound, Thrifty, NEW w \in Workers, Watchdog(w)
  PROVE  Frugal
<1> DEFINE self == worker[w]
<1>1. /\ self.pc \in {"generate", "write"} /\ self.abort = "" /\ Live(w) /\ Marks(w, "error")
      /\ Becomes(w, [self EXCEPT !.abort = "watchdog"])
  BY DEF Watchdog, Live, Aborted
<1>2. self \in WorkerType /\ WorkerOK(w) /\ Careful(w) /\ Row(w) \in RowType /\ self.run \in Runs
  BY <1>1, Place
<1>3. self.claimed
  BY <1>1, <1>2 DEF WorkerOK, Local, Unstaged, Has
<1>4. \A r \in Runs : Calm(w, r)
  BY <1>1, MarksCalm
<1>5. worker'[w] = [self EXCEPT !.abort = "watchdog"] /\ Others(w)
  BY <1>1, BecomesOne
<1>6. /\ worker'[w].pc = self.pc /\ worker'[w].run = self.run /\ worker'[w].step = self.step
      /\ worker'[w].abort = "watchdog" /\ worker'[w].replay = self.replay
  BY <1>2, <1>5 DEF WorkerType
<1>7. Row(w)' = row'[self.run]
  BY <1>6 DEF Row
<1>8. /\ Row(w)'.claim = Row(w).claim /\ Row(w)'.journal = Row(w).journal
      /\ Row(w)'.status = Row(w).status \/ Row(w)'.status = "error"
      /\ Owns(w) => Row(w)'.status = "error"
  <2>1. CASE Owns(w)
    <3>1. SetRow(w, [Row(w) EXCEPT !.status = "error"])
      BY <1>1, <2>1 DEF Marks, Shutdown
    <3>2. row'[self.run] = [[Row(w) EXCEPT !.status = "error"] EXCEPT !.stale = FALSE]
      BY <1>2, <3>1 DEF SetRow, Sound, TypeOK
    <3>3. ASSUME NEW x \in RowType, NEW y, y = [[x EXCEPT !.status = "error"] EXCEPT !.stale = FALSE]
          PROVE  y.claim = x.claim /\ y.journal = x.journal /\ y.status = "error"
      BY <3>3 DEF RowType
    <3>4. Row(w) \in RowType
      BY <1>2
    <3>5. /\ row'[self.run].claim = Row(w).claim /\ row'[self.run].journal = Row(w).journal
          /\ row'[self.run].status = "error"
      BY <3>2, <3>3, <3>4
    <3>. QED BY <1>7, <3>5
  <2>2. CASE ~ Owns(w)
    BY <1>1, <1>7, <2>2 DEF Marks, Row
  <2>. QED BY <2>1, <2>2
<1>9. Row(w).claim = w /\ Row(w).status = "running" => Owns(w)
  BY <1>3 DEF Owns
<1>10. Row(w)'.claim = w => Keeps(w)'
  <2>1. Before(w)' <=> Before(w)
    BY <1>6 DEF Before, Copied, Unstaged
  <2>2. Row(w).claim = w => Keeps(w)
    BY <1>1, <1>2 DEF Careful
  <2>. QED BY <1>1, <1>6, <1>8, <1>9, <2>1, <2>2 DEF Keeps
<1>11. Within(w)'
  BY <1>1, <1>2, <1>6 DEF Careful, Within
<1>12. Careful(w)'
  BY <1>1, <1>6, <1>10, <1>11 DEF Careful
<1>. QED BY <1>4, <1>5, <1>12, Thrives

LEMMA PayAbortedFrugal ==
  ASSUME Sound, Thrifty, NEW w \in Workers, PayAborted(w)
  PROVE  Frugal
<1>1. worker[w].pc = "bill" /\ Live(w) /\ row' = row
  BY DEF PayAborted, Live
<1>2. worker[w] \in WorkerType /\ WorkerOK(w) /\ Careful(w)
  BY <1>1, Place
<1>3. CASE Out(w, "exit")
  BY <1>1, <1>3, QuietExit
<1>4. CASE Leaves(w, "gone")
  BY <1>1, <1>4, QuietLeave
<1>5. CASE worker[w].held /\ Shelves(w, Preflight)
  <2>1. Copied(w) /\ worker[w].abort # "watchdog"
    BY <1>1, <1>2, <1>5 DEF WorkerOK, Holding, Copied, Unstaged, Careful
  <2>2. worker'[w] = [worker[w] EXCEPT !.pc = "pause", !.result = Preflight] /\ Others(w)
    BY <1>5, BecomesOne DEF Shelves
  <2>3. /\ worker'[w].pc = "pause" /\ worker'[w].run = worker[w].run
        /\ worker'[w].abort = worker[w].abort /\ worker'[w].step = worker[w].step
    BY <1>2, <2>2 DEF WorkerType
  <2>. QED BY <1>1, <2>1, <2>2, <2>3, BeforeFrugal
<1>. QED BY <1>3, <1>4, <1>5 DEF PayAborted

LEMMA StageGeneratedFrugal ==
  ASSUME Sound, Thrifty, NEW w \in Workers, StageGenerated(w)
  PROVE  Frugal
<1> DEFINE self == worker[w]
<1>1. self.pc = "bill" /\ Live(w)
  BY DEF StageGenerated, Live
<1>2. self \in WorkerType /\ WorkerOK(w) /\ Careful(w)
  BY <1>1, Place
<1>3. self.abort # "watchdog" /\ Within(w) /\ (~ self.replay => Copied(w))
  BY <1>1, <1>2 DEF Careful, Copied, Unstaged
<1>4. ASSUME NEW pc \in {"settle", "pause"}, Goes(w, pc)
      PROVE  /\ Others(w) /\ worker'[w].pc = pc /\ worker'[w].run = self.run
             /\ worker'[w].abort = self.abort /\ worker'[w].step = self.step
             /\ worker'[w].replay = self.replay
  <2>1. worker'[w] = [self EXCEPT !.pc = pc] /\ Others(w)
    BY <1>4, BecomesOne DEF Goes
  <2>. QED BY <1>2, <2>1 DEF WorkerType
<1>5. CASE self.replay /\ Goes(w, "settle") /\ row' = row
  <2>1. Within(w)' /\ ~ Before(w)'
    BY <1>1, <1>3, <1>4, <1>5 DEF Within, Before, Copied, Unstaged
  <2>. QED BY <1>1, <1>3, <1>4, <1>5, <2>1, GoesFrugal
<1>6. CASE Out(w, "exit") /\ row' = row
  BY <1>6, QuietExit
<1>7. CASE ~ self.replay /\ row' = row
           /\ \E late \in BOOLEAN : Becomes(w, [Again(w) EXCEPT !.late = late])
  BY <1>1, <1>3, <1>7, AgainFrugal
<1>8. CASE ~ self.replay /\ row' = row /\ Goes(w, "pause")
  BY <1>1, <1>3, <1>4, <1>8, BeforeFrugal
<1>9. CASE ~ self.replay /\ Owns(w) /\ SetRow(w, Staged(w)) /\ Goes(w, "settle")
  <2>1. /\ \A r \in Runs : Calm(w, r)
        /\ Row(w)'.status = "running"
    BY <1>3, <1>4, <1>9, StagesCalm DEF Row
  <2>2. Keeps(w)' /\ Within(w)'
    BY <1>1, <1>2, <1>3, <1>4, <1>9, <2>1 DEF Keeps, Within, Before, Copied, Unstaged
  <2>3. Careful(w)'
    BY <1>3, <1>4, <1>9, <2>2 DEF Careful
  <2>. QED BY <1>4, <1>9, <2>1, <2>3, Thrives
<1>10. AfterStaging(w) = "settle"
  BY DEF AfterStaging
<1>. QED BY <1>5, <1>6, <1>7, <1>8, <1>9, <1>10 DEF StageGenerated

\* The row of an owner that settles or applies has its result.
LEMMA SettleFrugal ==
  ASSUME Sound, Thrifty, NEW w \in Workers, Settle(w)
  PROVE  Frugal
<1> DEFINE self == worker[w]
<1>1. self.pc = "settle" /\ Live(w)
  BY DEF Settle, Live
<1>2. /\ self \in WorkerType /\ Careful(w) /\ Row(w) \in RowType /\ WithinSteps(Row(w))
      /\ self.run \in Runs /\ self.abort # "watchdog" /\ Within(w)
  BY <1>1, Place DEF Careful
<1>3. CASE Out(w, "exit") /\ row' = row
  BY <1>3, QuietExit
<1>4. CASE Fails(w)
  BY <1>1, <1>4, FailsFrugal
<1>5. CASE /\ row' = row
           /\ Becomes(w, [self EXCEPT !.pc = "pause", !.rev = Row(w).rev, !.result = Row(w).journal])
  <2>1. worker'[w] = [self EXCEPT !.pc = "pause", !.rev = Row(w).rev, !.result = Row(w).journal]
        /\ Others(w)
    BY <1>5, BecomesOne
  <2>2. /\ worker'[w].pc = "pause" /\ worker'[w].run = self.run /\ worker'[w].abort = self.abort
        /\ worker'[w].step = self.step /\ worker'[w].result = Row(w).journal
    BY <1>2, <2>1 DEF WorkerType
  <2>3. Within(w)' /\ ~ Before(w)'
    BY <1>1, <1>2, <2>2 DEF Within, Before, Copied, Unstaged
  <2>. QED BY <1>1, <1>2, <1>5, <2>1, <2>2, <2>3, GoesFrugal
<1>6. ASSUME Owns(w), SetRow(w, [Row(w) EXCEPT !.journal.paid = TRUE]),
             NEW pc \in {"exit", "write"}, NEW late \in BOOLEAN,
             Becomes(w, [self EXCEPT !.pc = pc, !.held = FALSE, !.replay = FALSE,
                                     !.late = @ \/ late])
      PROVE  Frugal
  <2> DEFINE paid == [Row(w) EXCEPT !.journal.paid = TRUE]
  <2>1. /\ paid \in RowType /\ paid.claim = Row(w).claim /\ paid.status = Row(w).status
        /\ paid.step = Row(w).step /\ paid.journal.phase = Row(w).journal.phase
        /\ paid.journal.ref = Row(w).journal.ref /\ paid.journal.done = Row(w).journal.done
    BY <1>2 DEF RowType, JournalType
  <2>2. SetRow(w, paid)
    BY <1>6
  <2> HIDE DEF paid
  <2>3. Row(w).claim \in {w, None} /\ Row(w).status = "running"
    BY <1>1, <1>6, OwnClaim
  <2>4. WithinSteps(paid)
    BY <1>2, <2>1, <2>3 DEF WithinSteps
  <2>5. Row(w).journal.done \in 0 .. MaxWrites
    BY <1>2 DEF RowType, JournalType
  <2>6. Row(w).claim = w => KeptIn(Row(w), paid)
    BY <2>1, <2>3, <2>5, ConstantsTyped DEF KeptIn
  <2>7. \A r \in Runs : Calm(w, r)
    BY <1>1, <1>6, <2>1, <2>2, <2>3, <2>4, <2>6, OwnerWrites
  <2>8. worker'[w] = [self EXCEPT !.pc = pc, !.held = FALSE, !.replay = FALSE, !.late = @ \/ late]
        /\ Others(w)
    BY <1>6, BecomesOne
  <2>9. worker'[w].pc = pc /\ worker'[w].run = self.run /\ worker'[w].abort = self.abort
    BY <1>2, <2>8 DEF WorkerType
  <2>10. row'[self.run] = [paid EXCEPT !.stale = FALSE]
    BY <1>2, <2>2 DEF SetRow, Sound, TypeOK
  <2>11. Row(w)'.status = "running"
    BY <2>1, <2>3, <2>9, <2>10 DEF Row, RowType
  <2>12. Within(w)' /\ Keeps(w)'
    BY <1>2, <2>9, <2>11 DEF Within, Keeps, Before, Copied, Unstaged
  <2>13. Careful(w)'
    BY <1>2, <2>9, <2>12 DEF Careful
  <2>. QED BY <2>7, <2>8, <2>13, Thrives
<1>. QED BY <1>3, <1>4, <1>5, <1>6 DEF Settle

LEMMA WriteFrugal ==
  ASSUME Sound, Thrifty, NEW w \in Workers, Write(w)
  PROVE  Frugal
<1> DEFINE self == worker[w]
<1>1. self.pc = "write" /\ Live(w) /\ self.abort = ""
  BY DEF Write, Live, Aborted
<1>2. /\ self \in WorkerType /\ Careful(w) /\ Row(w) \in RowType /\ WithinSteps(Row(w))
      /\ self.run \in Runs /\ WorkerOK(w)
  BY <1>1, Place
<1>3. CASE Out(w, "exit") /\ row' = row
  BY <1>3, QuietExit
<1>4. CASE Fails(w)
  BY <1>1, <1>4, FailsFrugal
<1>5. ASSUME Owns(w), SetRow(w, Progressed(w)), NEW new,
             Becomes(w, [self EXCEPT !.copy = new, !.result.done = @ + 1])
      PROVE  Frugal
  <2>1. /\ Row(w).claim = w /\ RowResult(w) /\ Row(w).status = "running" /\ Row(w) = row[self.run]
    BY <1>1, <1>5, OwnResult, OwnClaim
  <2>2. Done(w) = Row(w).journal.done /\ Row(w).journal.done \in 0 .. MaxWrites
    BY <1>2, <2>1 DEF RowResult, Done, RowType, JournalType
  <2>3. Row(w).journal.done \in Nat
    BY <2>2, ConstantsTyped
  <2> DEFINE n == [Progressed(w) EXCEPT !.stale = FALSE]
  <2>4. /\ n.claim = w /\ n.status = "running" /\ n.step = Row(w).step
        /\ n.journal.phase = Row(w).journal.phase /\ n.journal.ref = Row(w).journal.ref
        /\ n.journal.done = Row(w).journal.done + 1
    BY <1>2, <2>1, <2>2 DEF Progressed, RowType, JournalType
  <2>5. row' = [row EXCEPT ![self.run] = n]
    BY <1>5 DEF SetRow
  <2> HIDE DEF n
  <2>6. row'[self.run] = n /\ \A r \in Runs \ {self.run} : row'[r] = row[r]
    BY <1>2, <2>5 DEF Sound, TypeOK
  <2>7. WithinSteps(n)
    BY <1>2, <2>1, <2>4 DEF WithinSteps
  <2>8. ASSUME NEW r \in Runs, r = self.run
        PROVE  Calm(w, r)
    <3>1. Kept(r)
      BY <2>1, <2>3, <2>4, <2>6, <2>8, ConstantsTyped DEF Kept, Resumable
    <3>. QED BY <2>1, <2>4, <2>6, <2>7, <2>8, <3>1 DEF Calm, Saved
  <2>9. \A r \in Runs : Calm(w, r)
    BY <2>6, <2>8 DEF Calm
  <2>10. worker'[w] = [self EXCEPT !.copy = new, !.result.done = @ + 1] /\ Others(w)
    BY <1>5, BecomesOne
  <2>11. worker'[w].pc = "write" /\ worker'[w].run = self.run /\ worker'[w].abort = ""
    BY <1>1, <1>2, <2>10 DEF WorkerType
  <2>12. Row(w)'.status = "running"
    BY <2>4, <2>6, <2>11 DEF Row
  <2>13. Careful(w)'
    BY <2>11, <2>12 DEF Careful, Within, Keeps, Before, Copied, Unstaged
  <2>. QED BY <2>9, <2>10, <2>13, Thrives
<1>. QED BY <1>3, <1>4, <1>5 DEF Write

\* A worker that finished its writes owes nothing in the row that names it.
LEMMA FinishedOwesNothing ==
  ASSUME Sound, Thrifty, NEW w \in Workers, worker[w].pc = "write", Finished(w), Row(w).claim = w
  PROVE  ~ Owed(worker[w].run)
<1>1. Live(w) /\ WorkerOK(w) /\ Row(w) \in RowType /\ Row(w) = row[worker[w].run] /\ Has(w)
  BY Place DEF Live, Has
<1>2. RowResult(w)
  BY <1>1 DEF WorkerOK, Copies
<1>3. Row(w).journal.done = Row(w).journal.todo /\ Row(w).journal.done \in 0 .. MaxWrites
  BY <1>1, <1>2 DEF RowResult, Finished, Done, RowType, JournalType
<1>. QED BY <1>1, <1>3 DEF Owed

LEMMA FinishIterationFrugal ==
  ASSUME Sound, Thrifty, NEW w \in Workers, FinishIteration(w)
  PROVE  Frugal
<1> DEFINE self == worker[w]
           next == [Row(w) EXCEPT !.rev = world.rev, !.step = self.step + 1, !.journal = Preflight]
           new == [self EXCEPT !.pc = "loop", !.step = @ + 1, !.copy = {}, !.saves = 0,
                               !.rev = 0, !.result = Nothing]
<1>1. self.pc = "write" /\ Live(w) /\ self.abort = "" /\ Finished(w)
  BY DEF FinishIteration, Live, Aborted
<1>2. CASE Out(w, "exit") /\ row' = row
  BY <1>2, QuietExit
<1>3. CASE Owns(w) /\ SetRow(w, next) /\ Becomes(w, new)
  <2>1. /\ self \in WorkerType /\ WorkerOK(w) /\ Row(w) \in RowType /\ self.run \in Runs
        /\ self.step \in Nat /\ world.rev \in Nat
    BY <1>1, Place, Known
  <2>2. Row(w).claim \in {w, None} /\ Row(w).status = "running" /\ ~ self.replay
    BY <1>1, <1>3, <2>1, OwnClaim DEF WorkerOK, Local
  <2>3. self.step + 1 \in Nat
    BY <2>1
  <2>4. /\ next \in RowType /\ next.claim = Row(w).claim /\ next.status = Row(w).status
        /\ next.journal = Preflight
    BY <2>1, <2>3, Journals DEF RowType
  <2>5. SetRow(w, next)
    BY <1>3
  <2> HIDE DEF next
  <2>6. WithinSteps(next)
    BY <2>4, Journals DEF WithinSteps
  <2>7. \A r \in Runs : Calm(w, r)
    BY <1>1, <1>3, <2>2, <2>4, <2>5, <2>6, FinishedOwesNothing, OwnerWrites
  <2>8. worker'[w] = new /\ Others(w)
    BY <1>3, BecomesOne
  <2>9. /\ worker'[w].pc = "loop" /\ worker'[w].run = self.run /\ worker'[w].abort = ""
        /\ worker'[w].replay = self.replay
    BY <1>1, <2>1, <2>8 DEF WorkerType
  <2>10. row'[self.run] = [next EXCEPT !.stale = FALSE]
    BY <2>1, <2>5 DEF SetRow, Sound, TypeOK
  <2>11. Row(w)'.status = "running" /\ Row(w)'.journal = Preflight
    BY <2>2, <2>4, <2>9, <2>10 DEF Row, RowType
  <2>12. Careful(w)'
    BY <2>2, <2>9, <2>11, Journals DEF Careful, Within, Keeps
  <2>. QED BY <2>7, <2>8, <2>12, Thrives
<1>. QED BY <1>2, <1>3 DEF FinishIteration

LEMMA QuietOutFrugal ==
  ASSUME Sound, Thrifty, NEW w \in Workers, Cut(w) \/ Concludes(w) \/ Breaks(w)
  PROVE  Frugal
<1>1. row' = row
  BY DEF Cut, Concludes, Breaks
<1>2. CASE Out(w, "exit")
  BY <1>1, <1>2, QuietExit
<1>3. CASE Concludes(w)
  <2>1. PICK pc \in {"final", "card"} : Out(w, pc)
    BY <1>3 DEF Concludes
  <2>2. worker[w].pc = "write" /\ Live(w) /\ worker[w].abort = "" /\ Finished(w)
    BY <1>3 DEF Concludes, Live, Aborted
  <2>. QED BY <1>1, <2>1, <2>2, FinishedOwesNothing, OutsFrugal
<1>4. CASE Breaks(w) /\ Out(w, "final")
  BY <1>1, <1>4, OutsFrugal DEF Breaks, Live
<1>. QED BY <1>2, <1>3, <1>4 DEF Cut, Breaks

\* An owner that ends in peace owes nothing; one that was aborted only marks
\* its row, and only a stop or a refused lease leaves it there to do so.
LEMMA FinalizeFrugal ==
  ASSUME Sound, Thrifty, NEW w \in Workers, Finalize(w)
  PROVE  Frugal
<1> DEFINE self == worker[w]
           mine == self.claimed /\ (Aborted(w) \/ ~ Owns(w))
<1>1. self.pc \in {"final", "card"} /\ Live(w)
  BY DEF Finalize, Live
<1>2. self \in WorkerType /\ Careful(w) /\ Row(w) \in RowType
  BY <1>1, Place
<1>3. Row(w).claim = w => Keeps(w)
  BY <1>1, <1>2 DEF Careful
<1>4. self.abort \in {"", "stop", "lease", "watchdog", "shutdown"}
  BY <1>2 DEF WorkerType
<1>5. \A r \in Runs : Calm(w, r)
  <2>1. PICK s \in {"completed", "awaiting_approval"} :
          \/ row' = row
          \/ ~ Aborted(w) /\ Owns(w) /\ SetRow(w, Consumed(w, s))
          \/ ~ (self.claimed /\ ~ Aborted(w)) /\ Marks(w, s)
    BY DEF Finalize
  <2>2. CASE row' = row
    BY <2>2 DEF Calm
  <2>3. CASE ~ Aborted(w) /\ Owns(w) /\ SetRow(w, Consumed(w, s))
    <3>1. /\ Consumed(w, s) \in RowType /\ Consumed(w, s).claim = None
          /\ Consumed(w, s).journal = Nothing
      BY <1>2, Journals DEF Consumed, RowType
    <3>2. WithinSteps(Consumed(w, s))
      BY <3>1, Journals DEF WithinSteps
    <3>3. Row(w).claim = w => ~ Owed(self.run)
      BY <1>1, <1>3, <2>3 DEF Keeps
    <3>. QED BY <1>1, <2>3, <3>1, <3>2, <3>3, OwnerWrites
  <2>4. CASE ~ (self.claimed /\ ~ Aborted(w)) /\ Marks(w, s)
    <3>1. Owns(w) /\ Row(w).claim = w => self.claimed /\ Row(w).status = "running"
      BY <1>1, OwnClaim
    <3>2. Owns(w) /\ Row(w).claim = w => Shutdown(w) \/ self.abort \in {"stop", "lease"}
      BY <1>1, <1>3, <1>4, <2>4, <3>1 DEF Keeps, Aborted, Shutdown
    <3>. QED BY <1>1, <2>4, <3>2, MarksCalm
  <2>. QED BY <2>1, <2>2, <2>3, <2>4
<1>6. Becomes(w, [self EXCEPT !.pc = "exit", !.claimed = mine])
  BY DEF Finalize
<1> HIDE DEF mine
<1>7. worker'[w] = [self EXCEPT !.pc = "exit", !.claimed = mine] /\ Others(w)
  BY <1>6, BecomesOne
<1>8. worker'[w].pc = "exit"
  BY <1>2, <1>7 DEF WorkerType
<1>. QED BY <1>5, <1>7, <1>8, EndsCareful, Thrives

\* A pause writes what the row has, or finds nothing paid there.
LEMMA PauseFrugal ==
  ASSUME Sound, Thrifty, NEW w \in Workers, Pause(w)
  PROVE  Frugal
<1> DEFINE self == worker[w]
           mine == self.claimed /\ ~ Owns(w)
<1>1. self.pc = "pause" /\ Live(w)
  BY DEF Pause, Live
<1>2. /\ self \in WorkerType /\ WorkerOK(w) /\ Careful(w) /\ Row(w) \in RowType
      /\ Row(w) = row[self.run]
  BY <1>1, Place
<1>3. \A r \in Runs : Calm(w, r)
  <2>1. CASE row' = row
    BY <2>1 DEF Calm
  <2>2. CASE Owns(w) /\ SetRow(w, Paused(w))
    <3>1. /\ Paused(w) \in RowType /\ Paused(w).claim = None /\ Paused(w).step = self.step
          /\ Paused(w).status = "awaiting_credits" /\ Paused(w).journal = self.result
      BY <1>2 DEF Paused, RowType, WorkerType
    <3>2. WithinSteps(Paused(w))
      BY <1>1, <1>2, <3>1 DEF WithinSteps, Careful, Within
    <3>3. Row(w).journal.done \in 0 .. MaxWrites
      BY <1>2 DEF RowType, JournalType
    <3>4. Row(w).claim = w /\ Owed(self.run) => KeptIn(Row(w), Paused(w))
      BY <1>1, <1>2, <3>1, <3>3 DEF Careful, Keeps, Owed, KeptIn
    <3>. QED BY <1>1, <2>2, <3>1, <3>2, <3>4, OwnerWrites
  <2>. QED BY <2>1, <2>2 DEF Pause
<1>4. Becomes(w, [self EXCEPT !.pc = "exit", !.claimed = mine])
  BY DEF Pause
<1> HIDE DEF mine
<1>5. worker'[w] = [self EXCEPT !.pc = "exit", !.claimed = mine] /\ Others(w)
  BY <1>4, BecomesOne
<1>6. worker'[w].pc = "exit"
  BY <1>2, <1>5 DEF WorkerType
<1>. QED BY <1>3, <1>5, <1>6, EndsCareful, Thrives

\* A deploy gives the step back with its journal.
LEMMA ExitFrugal ==
  ASSUME Sound, Thrifty, NEW w \in Workers, Exit(w)
  PROVE  Frugal
<1>1. worker[w].pc = "exit" /\ Live(w) /\ Owns(w)
  BY DEF Exit, Live
<1>2. worker[w] \in WorkerType
  BY <1>1, Place
<1>3. \A r \in Runs : Calm(w, r)
  <2>1. CASE worker[w].claimed /\ SetRow(w, Restored(w))
    BY <1>1, <2>1, RestoresCalm
  <2>2. CASE ~ worker[w].claimed /\ SetRow(w, [Row(w) EXCEPT !.status = "error"])
    <3> DEFINE new == [Row(w) EXCEPT !.status = "error"]
    <3>1. Row(w) \in RowType /\ Row(w).claim = None /\ Row(w).claim # w
      BY <1>1, <2>2, OwnClaim
    <3>2. new \in RowType /\ new.claim = None /\ new.status = "error"
      BY <3>1 DEF RowType
    <3>3. SetRow(w, new)
      BY <2>2
    <3> HIDE DEF new
    <3>4. WithinSteps(new)
      BY <3>2 DEF WithinSteps
    <3>. QED BY <1>1, <3>1, <3>2, <3>3, <3>4, OwnerWrites
  <2>. QED BY <2>1, <2>2 DEF Exit
<1>4. worker'[w] = [worker[w] EXCEPT !.pc = "release"] /\ Others(w)
  BY BecomesOne DEF Exit, Goes
<1>5. worker'[w].pc = "release"
  BY <1>2, <1>4 DEF WorkerType
<1>. QED BY <1>3, <1>4, <1>5, EndsCareful, Thrives

LEMMA ReleaseFrugal ==
  ASSUME Sound, Thrifty, NEW w \in Workers, Release(w)
  PROVE  Frugal
BY QuietLeave DEF Release

\* Who answers a card has no claim, and the run that it still owns has none.
LEMMA ReenterFrugal ==
  ASSUME Sound, Thrifty, NEW w \in Workers, Reenter(w), Owns(w)
  PROVE  Frugal
<1> DEFINE self == worker[w]
           back == [Row(w) EXCEPT !.status = "running", !.step = self.step]
<1>1. self.pc = "answer" /\ Live(w)
  BY DEF Reenter, Live
<1>2. /\ self \in WorkerType /\ WorkerOK(w) /\ Careful(w) /\ Row(w) \in RowType /\ self.step \in Nat
      /\ self.run \in Runs
  BY <1>1, Place
<1>3. ~ self.claimed /\ ~ self.replay /\ self.abort # "watchdog"
  BY <1>1, <1>2 DEF Careful, WorkerOK, Local
<1>4. Row(w).claim = None /\ Row(w).claim # w
  BY <1>1, <1>3, OwnClaim
<1>5. back \in RowType /\ back.claim = None /\ back.status = "running"
  BY <1>2, <1>4 DEF RowType
<1>6. SetRow(w, back)
  BY DEF Reenter
<1> HIDE DEF back
<1>7. WithinSteps(back)
  BY <1>5 DEF WithinSteps
<1>8. \A r \in Runs : Calm(w, r)
  BY <1>1, <1>4, <1>5, <1>6, <1>7, OwnerWrites
<1>9. worker'[w] = [self EXCEPT !.pc = "loop"] /\ Others(w)
  BY BecomesOne DEF Reenter, Goes
<1>10. /\ worker'[w].pc = "loop" /\ worker'[w].run = self.run /\ worker'[w].abort = self.abort
       /\ worker'[w].replay = self.replay
  BY <1>2, <1>9 DEF WorkerType
<1>11. row'[self.run] = [back EXCEPT !.stale = FALSE]
  BY <1>2, <1>6 DEF SetRow, Sound, TypeOK
<1>12. Row(w)'.claim = None
  BY <1>5, <1>10, <1>11 DEF Row, RowType
<1>13. Careful(w)'
  BY <1>3, <1>10, <1>12, ConstantsTyped DEF Careful, Within
<1>. QED BY <1>8, <1>9, <1>13, Thrives

-----------------------------------------------------------------------------
(* What happens around the loop.                                           *)

\* A worker that is stopped, drained or refused its lease does what it did.
LEMMA LearnsFrugal ==
  ASSUME Sound, Thrifty, NEW w \in Workers, RenewalReply(w) \/ Notice(w) \/ Drain(w)
  PROVE  Frugal
<1>1. worker[w] \in WorkerType /\ Careful(w) /\ row' = row
  BY Known DEF RenewalReply, Notice, Drain, Thrifty
<1>2. Same(w)
  BY LearnsOf DEF RenewalReply, Notice, Drain
<1>3. /\ Others(w)
      /\ worker'[w].abort = worker[w].abort \/ (worker[w].abort = "" /\ worker'[w].abort # "watchdog")
  <2>1. CASE RenewalReply(w)
    <3>1. /\ worker'[w] = [worker[w] EXCEPT !.late = FALSE, !.abort = IF @ = "" THEN "lease" ELSE @]
          /\ Others(w)
      BY <2>1, BecomesOne DEF RenewalReply
    <3>2. worker'[w].abort = IF worker[w].abort = "" THEN "lease" ELSE worker[w].abort
      BY <1>1, <3>1 DEF WorkerType
    <3>. QED BY <3>1, <3>2
  <2>2. CASE Notice(w) \/ Drain(w)
    <3>1. PICK a \in {"stop", "shutdown"} : Becomes(w, [worker[w] EXCEPT !.abort = a])
      BY <2>2 DEF Notice, Drain
    <3>2. worker'[w] = [worker[w] EXCEPT !.abort = a] /\ Others(w)
      BY <3>1, BecomesOne
    <3>3. worker'[w].abort = a
      BY <1>1, <3>2 DEF WorkerType
    <3>4. worker[w].abort = ""
      BY <2>2 DEF Notice, Drain, Aborted
    <3>. QED BY <3>2, <3>3, <3>4
  <2>. QED BY <2>1, <2>2
<1>4. Careful(w)'
  BY <1>1, <1>2, <1>3, StaysCareful DEF Aside
<1>. QED BY <1>1, <1>3, <1>4, Thrives DEF Calm

LEMMA CrashFrugal ==
  ASSUME Sound, Thrifty, NEW w \in Workers, Crash(w)
  PROVE  Frugal
BY QuietLeave DEF Crash

\* A step that moves no worker.
LEMMA RowsFrugal ==
  ASSUME Sound, Thrifty, worker' = worker,
         \A r \in Runs : /\ Aside(r) \/ (row'[r].claim = None /\ row'[r].journal = Nothing)
                         /\ Saved(r) /\ (row'[r].status = "running" => row[r].status = "running")
  PROVE  Frugal
<1>1. ASSUME NEW v \in Workers
      PROVE  Careful(v)'
  <2>1. Same(v) /\ v # None
    BY ConstantsTyped DEF Same
  <2>. QED BY <2>1, StaysCareful DEF Thrifty
<1>2. ASSUME NEW r \in Runs
      PROVE  WithinSteps(row'[r])
  BY Journals DEF Thrifty, WithinSteps, Aside
<1>. QED BY <1>1, <1>2 DEF Frugal, Thrifty

LEMMA AroundFrugal ==
  ASSUME Sound, Thrifty, UNCHANGED <<row, worker>>
  PROVE  Frugal
<1>1. row' = row /\ worker' = worker
  OBVIOUS
<1>. QED BY <1>1, RowsFrugal, SameRowSaved DEF Aside

LEMMA StopArrivesFrugal ==
  ASSUME Sound, Thrifty, NEW r \in Runs, StopArrives(r)
  PROVE  Frugal
<1>1. row' = row
  BY DEF StopArrives
<1>2. ASSUME NEW v \in Workers
      PROVE  Careful(v)'
  <2>1. worker'[v] = worker[v] \/ (~ Aborted(v) /\ worker'[v] = [worker[v] EXCEPT !.abort = "stop"])
    BY DEF StopArrives
  <2>2. worker[v] \in WorkerType
    BY Known
  <2>3. Same(v)
    BY <2>1, <2>2 DEF Same, WorkerType
  <2>4. worker'[v].abort = worker[v].abort \/ (worker[v].abort = "" /\ worker'[v].abort = "stop")
    BY <2>1, <2>2 DEF WorkerType, Aborted
  <2>. QED BY <1>1, <2>3, <2>4, StaysCareful DEF Thrifty, Aside
<1>. QED BY <1>1, <1>2, SameRowSaved DEF Frugal, Thrifty

\* What a stop writes.
LEMMA StoppedFields ==
  ASSUME Sound, NEW r \in Runs
  PROVE  /\ Stopped(r).why = "stopped" /\ Stopped(r).status = "completed"
         /\ Stopped(r).step = row[r].step
<1>1. row[r] \in RowType
  BY DEF Sound, TypeOK
<1> DEFINE c == IF row[r].status = "running" THEN None ELSE row[r].claim
           j == IF row[r].status = "running" THEN Nothing ELSE row[r].journal
<1>2. Stopped(r) = [row[r] EXCEPT !.status = "completed", !.why = "stopped", !.stale = FALSE,
                                  !.claim = c, !.journal = j]
  BY <1>1 DEF Stopped, RowType
<1> HIDE DEF c, j
<1>. QED BY <1>1, <1>2 DEF RowType

\* A stop ends the run, whether or not its worker was told before.
LEMMA StopWritesFrugal ==
  ASSUME Sound, Thrifty, NEW r \in Runs, StopWrites(r)
  PROVE  Frugal
<1>1. /\ worker' = worker /\ row \in [Runs -> RowType]
      /\ row' = row \/ row' = [row EXCEPT ![r] = Stopped(r)]
  BY DEF StopWrites, Sound, TypeOK
<1>2. /\ Stopped(r).why = "stopped" /\ Stopped(r).status = "completed" /\ Stopped(r).step = row[r].step
  BY StoppedFields
<1>3. ASSUME NEW q \in Runs
      PROVE  /\ Aside(q) \/ (row'[q].claim = None /\ row'[q].journal = Nothing)
             /\ Saved(q) /\ (row'[q].status = "running" => row[q].status = "running")
  <2>1. CASE row'[q] = row[q]
    BY <2>1, SameRowSaved DEF Aside
  <2>2. CASE q = r /\ row'[q] = Stopped(q)
    BY <1>2, <2>2, StoppedRow DEF Aside, Saved
  <2>. QED BY <1>1, <2>1, <2>2
<1>. QED BY <1>1, <1>3, RowsFrugal

LEMMA DiscardFrugal ==
  ASSUME Sound, Thrifty, NEW r \in Runs, Discard(r)
  PROVE  Frugal
<1> DEFINE new == [Stopped(r) EXCEPT !.claim = None, !.journal = Nothing]
<1>1. worker' = worker /\ row \in [Runs -> RowType] /\ row' = [row EXCEPT ![r] = new]
  BY DEF Discard, Rest, Sound, TypeOK
<1>2. Stopped(r) \in RowType
  BY StoppedRow
<1>3. Stopped(r).why = "stopped" /\ Stopped(r).status = "completed"
  BY StoppedFields
<1>4. new.claim = None /\ new.journal = Nothing /\ new.why = "stopped" /\ new.status = "completed"
  BY <1>2, <1>3 DEF RowType
<1> HIDE DEF new
<1>5. ASSUME NEW q \in Runs
      PROVE  /\ Aside(q) \/ (row'[q].claim = None /\ row'[q].journal = Nothing)
             /\ Saved(q) /\ (row'[q].status = "running" => row[q].status = "running")
  <2>1. CASE q # r
    BY <1>1, <2>1, SameRowSaved DEF Aside
  <2>2. CASE q = r
    BY <1>1, <1>4, <2>2 DEF Saved
  <2>. QED BY <2>1, <2>2
<1>. QED BY <1>1, <1>5, RowsFrugal

\* A claim that ages is still a claim.
LEMMA AgeFrugal ==
  ASSUME Sound, Thrifty, NEW r \in Runs, Age(r)
  PROVE  Frugal
<1> DEFINE new == [row[r] EXCEPT !.stale = TRUE]
<1>1. worker' = worker /\ row \in [Runs -> RowType] /\ row' = [row EXCEPT ![r] = new]
  BY DEF Age, Rest, Sound, TypeOK
<1>2. /\ new.claim = row[r].claim /\ new.journal = row[r].journal /\ new.step = row[r].step
      /\ new.status = row[r].status
  BY <1>1 DEF RowType
<1>3. row[r].journal.done \in 0 .. MaxWrites
  BY <1>1 DEF RowType, JournalType
<1> HIDE DEF new
<1>4. ASSUME NEW q \in Runs
      PROVE  /\ Aside(q) /\ Saved(q) /\ (row'[q].status = "running" => row[q].status = "running")
  <2>1. CASE q # r
    BY <1>1, <2>1, SameRowSaved DEF Aside
  <2>2. CASE q = r
    BY <1>1, <1>2, <1>3, <2>2 DEF Saved, Kept, Resumable, Aside
  <2>. QED BY <2>1, <2>2
<1>. QED BY <1>1, <1>4, RowsFrugal

-----------------------------------------------------------------------------
(* The steps that start a run, or take one back.                           *)

\* They move one worker, which was idle and is now in front of its step.
LEMMA EntersThrifty ==
  ASSUME Sound, Thrifty, NEW w \in Workers, Others(w), Careful(w)',
         \A r \in Runs : Aside(r) \/ (row'[r].claim \in {w, None} /\ WithinSteps(row'[r]))
  PROVE  Thrifty'
<1>1. ASSUME NEW v \in Workers \ {w}
      PROVE  Careful(v)'
  <2>1. v # None /\ v # w
    BY ConstantsTyped
  <2>2. Same(v) /\ worker'[v].abort = worker[v].abort
    BY DEF Others, Same
  <2>. QED BY <2>1, <2>2, StaysCareful DEF Thrifty
<1>2. ASSUME NEW r \in Runs
      PROVE  WithinSteps(row'[r])
  BY DEF Thrifty, WithinSteps, Aside
<1>. QED BY <1>1, <1>2 DEF Thrifty

\* A new run supersedes the running ones.
LEMMA StartKeeps ==
  ASSUME Sound, Thrifty, NEW w \in Workers, NEW r \in Runs, Start(w, r)
  PROVE  /\ Thrifty' /\ \A q \in Runs : Saved(q)
         /\ \A q \in Runs : row'[q].status = "running" => q = r
<1> DEFINE Over(x) == [row[x] EXCEPT !.status = "completed", !.why = "superseded", !.stale = FALSE]
           born == [Unborn EXCEPT !.status = "running"]
<1>1. row \in [Runs -> RowType] /\ row[r].status = "unborn"
  BY DEF Sound, TypeOK, Start
<1>2. born.claim = None /\ born.journal = Nothing
  BY DEF Unborn
<1>3. \A x \in Runs : /\ Over(x).claim = row[x].claim /\ Over(x).journal = row[x].journal
                      /\ Over(x).step = row[x].step /\ Over(x).why = "superseded"
                      /\ Over(x).status = "completed"
  BY <1>1 DEF RowType
<1>4. row' = [x \in Runs |-> IF x = r THEN born ELSE IF row[x].status = "running" THEN Over(x) ELSE row[x]]
  BY DEF Start
<1> HIDE DEF born, Over
<1>5. row'[r] = born
  BY <1>4
<1>6. ASSUME NEW q \in Runs, q # r
      PROVE  \/ row'[q] = row[q] /\ row[q].status # "running"
             \/ row'[q] = Over(q)
  BY <1>4, <1>6
<1>7. \A q \in Runs : Saved(q)
  <2>1. Saved(r)
    BY <1>1 DEF Saved, Resumable
  <2>. QED BY <1>3, <1>6, <2>1, SameRowSaved DEF Saved
<1>8. \A q \in Runs : Aside(q) \/ (row'[q].claim \in {w, None} /\ WithinSteps(row'[q]))
  BY <1>2, <1>3, <1>5, <1>6, Journals DEF Aside, WithinSteps
<1>9. worker'[w] = [[Idle EXCEPT !.run = r] EXCEPT !.pc = "loop"] /\ Others(w)
  BY BecomesOne DEF Start, Enters, Becomes
<1>10. /\ worker'[w].pc = "loop" /\ worker'[w].run = r /\ worker'[w].replay = FALSE
       /\ worker'[w].abort = ""
  BY <1>9 DEF Idle
<1>11. Row(w)'.claim # w
  BY <1>2, <1>5, <1>10, ConstantsTyped DEF Row
<1>12. Careful(w)'
  BY <1>10, <1>11 DEF Careful, Within
<1>13. Thrifty'
  BY <1>8, <1>9, <1>12, EntersThrifty
<1>14. \A q \in Runs : row'[q].status = "running" => q = r
  BY <1>3, <1>6
<1>. QED BY <1>7, <1>13, <1>14

\* Who resumes a run takes its result with it, or starts the step over where
\* none was paid.
LEMMA ResumeKeeps ==
  ASSUME Sound, Thrifty, NEW w \in Workers, NEW r \in Runs, Resume(w, r)
  PROVE  /\ Thrifty' /\ \A q \in Runs : Saved(q)
         /\ \A q \in Runs \ {r} : row'[q] = row[q]
<1> DEFINE j == Rebased(r)
           back == [row[r] EXCEPT !.status = "running", !.why = "", !.claim = w, !.stale = FALSE,
                      !.rev = world.rev, !.journal = j]
<1>1. row \in [Runs -> RowType] /\ RowOK(r) /\ WithinSteps(row[r]) /\ w # None
  BY ConstantsTyped DEF Sound, TypeOK, Rows, Thrifty
<1>2. /\ j = row[r].journal \/ j = Preflight
      /\ j.phase = "generated" => j = row[r].journal
      /\ row[r].journal.paid => j = row[r].journal
  BY Journals DEF Resume, Rebased, Rebasable
<1>3. j.phase # "generated" => ~ j.paid
  BY <1>1, <1>2, Journals DEF RowOK
<1>4. row[r].claim # None \/ row[r].status = "awaiting_credits"
  BY DEF Resume, Eligible
<1> HIDE DEF j
<1>5. row' = [row EXCEPT ![r] = back]
  BY <1>1 DEF Resume, j
<1>6. /\ back.claim = w /\ back.journal = j /\ back.step = row[r].step /\ back.status = "running"
  BY <1>1 DEF RowType
<1> HIDE DEF back
<1>7. row'[r] = back /\ \A q \in Runs \ {r} : row'[q] = row[q]
  BY <1>1, <1>5
<1>8. j.phase = "generated" => row[r].step < MaxSteps
  BY <1>1, <1>2, <1>4 DEF WithinSteps
<1>9. WithinSteps(row'[r])
  BY <1>6, <1>7, <1>8 DEF WithinSteps
<1>10. \A q \in Runs : Saved(q)
  <2>1. row[r].journal.done \in 0 .. MaxWrites
    BY <1>1 DEF RowType, JournalType
  <2>2. Saved(r)
    BY <1>1, <1>2, <1>6, <1>7, <2>1 DEF Saved, Owed, Kept, Resumable
  <2>. QED BY <1>7, <2>2, SameRowSaved
<1>11. worker'[w] = [[Idle EXCEPT !.claimed = TRUE, !.step = row[r].step, !.copy = world.writes,
                        !.saves = world.saves, !.replay = j.phase = "generated", !.result = j]
                     EXCEPT !.run = r, !.pc = "loop"]
       /\ Others(w)
  BY BecomesOne DEF Resume, Enters, Becomes, j
<1>12. /\ worker'[w].pc = "loop" /\ worker'[w].run = r /\ worker'[w].abort = ""
       /\ worker'[w].replay = (j.phase = "generated") /\ worker'[w].step = row[r].step
  BY <1>11 DEF Idle
<1>13. Row(w)'.status = "running" /\ Row(w)'.journal = j
  BY <1>6, <1>7, <1>12 DEF Row
<1>14. Within(w)'
  BY <1>8, <1>12 DEF Within
<1>15. Keeps(w)'
  <2>1. Before(w)' => j.phase # "generated"
    BY <1>12 DEF Before, Copied, Unstaged
  <2>. QED BY <1>3, <1>12, <1>13, <2>1 DEF Keeps
<1>16. Careful(w)'
  BY <1>12, <1>14, <1>15 DEF Careful
<1>17. Thrifty'
  BY <1>6, <1>7, <1>9, <1>11, <1>16, EntersThrifty DEF Aside
<1>. QED BY <1>7, <1>10, <1>17

\* A run that waits for an answer holds no paid work.
LEMMA AnswerKeeps ==
  ASSUME Sound, Thrifty, NEW w \in Workers, NEW r \in Runs, Answer(w, r)
  PROVE  /\ Thrifty' /\ \A q \in Runs : Saved(q)
         /\ \A q \in Runs \ {r} : row'[q] = row[q]
<1> DEFINE back == [row[r] EXCEPT !.status = "running", !.stale = FALSE]
<1>1. row \in [Runs -> RowType] /\ row[r].status = "awaiting_approval"
  BY DEF Sound, TypeOK, Answer
<1>2. back.claim = row[r].claim /\ back.journal = row[r].journal /\ back.step = row[r].step
      /\ back.status = "running"
  BY <1>1 DEF RowType
<1>3. row' = [row EXCEPT ![r] = back]
  BY <1>1 DEF Answer
<1> HIDE DEF back
<1>4. row'[r] = back /\ \A q \in Runs \ {r} : row'[q] = row[q]
  BY <1>1, <1>3
<1>5. \A q \in Runs : Aside(q)
  BY <1>1, <1>2, <1>4 DEF Aside
<1>6. \A q \in Runs : Saved(q)
  <2>1. Saved(r)
    BY <1>1 DEF Saved, Resumable
  <2>. QED BY <1>4, <2>1, SameRowSaved
<1>7. worker'[w] = [Idle EXCEPT !.run = r, !.pc = "answer", !.step = row[r].step + 1] /\ Others(w)
  BY BecomesOne DEF Answer, Becomes
<1>8. /\ worker'[w].pc = "answer" /\ worker'[w].run = r /\ worker'[w].abort = ""
      /\ worker'[w].claimed = FALSE
  BY <1>7 DEF Idle
<1>9. Row(w)'.status = "running"
  BY <1>2, <1>4, <1>8 DEF Row
<1>10. Careful(w)'
  BY <1>8, <1>9 DEF Careful, Within, Keeps, Before, Copied, Unstaged
<1>11. Thrifty'
  BY <1>5, <1>7, <1>10, EntersThrifty
<1>. QED BY <1>4, <1>6, <1>11

-----------------------------------------------------------------------------
(* Every step, and the theorems.                                           *)

LEMMA StepFrugal ==
  ASSUME Sound, Thrifty, [Next]_vars, CardOwned,
         ~ \E w \in Workers, r \in Runs : Start(w, r) \/ Resume(w, r) \/ Answer(w, r)
  PROVE  Frugal
<1>1. CASE UNCHANGED vars
  BY <1>1, AroundFrugal DEF vars
<1>2. ASSUME NEW w \in Workers, Step(w)
      PROVE  Frugal
  <2>1. CASE Reenter(w)
    BY <2>1, ReenterFrugal DEF CardOwned
  <2>2. CASE Loop(w) \/ StagePreflight(w) \/ Reserve(w) \/ Answers(w) \/ AnswersUnpriced(w)
    BY <2>2, LoopFrugal, StagePreflightFrugal, ReserveFrugal, AnswersFrugal
  <2>3. CASE ProviderFails(w) \/ Cut(w) \/ PayAborted(w) \/ StageGenerated(w) \/ Settle(w)
    BY <2>3, ProviderFailsFrugal, QuietOutFrugal, PayAbortedFrugal, StageGeneratedFrugal, SettleFrugal
  <2>4. CASE Write(w) \/ FinishIteration(w) \/ Concludes(w) \/ Breaks(w) \/ Finalize(w)
    BY <2>4, WriteFrugal, FinishIterationFrugal, QuietOutFrugal, FinalizeFrugal
  <2>5. CASE Pause(w) \/ Exit(w) \/ Release(w)
    BY <2>5, PauseFrugal, ExitFrugal, ReleaseFrugal
  <2>. QED BY <1>2, <2>1, <2>2, <2>3, <2>4, <2>5 DEF Step
<1>3. ASSUME NEW w \in Workers,
             Watchdog(w) \/ RenewalReply(w) \/ Notice(w) \/ Drain(w) \/ Crash(w) \/ Lapse(w)
      PROVE  Frugal
  <2>1. CASE Lapse(w)
    BY <2>1, AroundFrugal DEF Lapse
  <2>. QED BY <1>3, <2>1, WatchdogFrugal, LearnsFrugal, CrashFrugal
<1>4. ASSUME NEW r \in Runs, StopArrives(r) \/ StopWrites(r) \/ Discard(r) \/ Age(r)
      PROVE  Frugal
  BY <1>4, StopArrivesFrugal, StopWritesFrugal, DiscardFrugal, AgeFrugal
<1>5. CASE EditorSave \/ TopUp
  BY <1>5, AroundFrugal DEF EditorSave, TopUp
<1>. QED BY <1>1, <1>2, <1>3, <1>4, <1>5 DEF Next

\* The inductive step, with what it loses and whom it starts.
LEMMA NextFrugal ==
  ASSUME Sound, Thrifty, [Next]_vars, CardOwned
  PROVE  /\ Thrifty' /\ \A r \in Runs : Saved(r)
         /\ OneRunner => OneRunner'
<1>1. CASE ~ \E w \in Workers, r \in Runs : Start(w, r) \/ Resume(w, r) \/ Answer(w, r)
  BY <1>1, StepFrugal DEF Frugal, OneRunner
<1>2. ASSUME NEW w \in Workers, NEW r \in Runs, Start(w, r)
      PROVE  /\ Thrifty' /\ \A q \in Runs : Saved(q)
             /\ OneRunner => OneRunner'
  BY <1>2, StartKeeps DEF OneRunner
<1>3. ASSUME NEW w \in Workers, NEW r \in Runs, Resume(w, r) \/ Answer(w, r)
      PROVE  /\ Thrifty' /\ \A q \in Runs : Saved(q)
             /\ OneRunner => OneRunner'
  <2>1. \A q \in Runs \ {r} : row[q].status # "running"
    BY <1>3 DEF Resume, Answer, OthersRunning
  <2>. QED BY <1>3, <2>1, ResumeKeeps, AnswerKeeps DEF OneRunner
<1>. QED BY <1>1, <1>2, <1>3

LEMMA InitThrifty == Init => Thrifty /\ OneRunner
<1> SUFFICES ASSUME Init
             PROVE  Thrifty /\ OneRunner
  OBVIOUS
<1>1. \A r \in Runs : row[r] = Unborn
  BY DEF Init
<1>2. Unborn.status = "unborn" /\ Unborn.journal = Nothing
  BY DEF Unborn
<1>3. \A w \in Workers : worker[w] = Idle
  BY DEF Init
<1>4. Idle.pc = "idle" /\ Idle.abort = ""
  BY DEF Idle
<1>5. \A w \in Workers : Careful(w)
  BY <1>3, <1>4 DEF Careful, Within, Live
<1>. QED BY <1>1, <1>2, <1>5, Journals DEF Thrifty, WithinSteps, OneRunner

\* Were the answer to a card to take back only a run that is still its own,
\* at most one run of a world would be running: a new run supersedes the
\* others, and nobody resumes one beside another.
THEOREM StudioOneRunner == Spec /\ CardsOwnTheirRun => []OneRunner
<1>1. Init => Thrifty /\ OneRunner
  BY InitThrifty
<1>2. Sound /\ Thrifty /\ OneRunner /\ [Next]_vars /\ [CardOwned]_vars => (Thrifty /\ OneRunner)'
  <2> SUFFICES ASSUME Sound, Thrifty, OneRunner, [Next]_vars, [CardOwned]_vars
               PROVE  (Thrifty /\ OneRunner)'
    OBVIOUS
  <2>1. CASE CardOwned
    BY <2>1, NextFrugal
  <2>2. CASE UNCHANGED vars
    <3>1. row' = row /\ worker' = worker
      BY <2>2 DEF vars
    <3>2. Thrifty'
      BY <3>1, AroundFrugal DEF Frugal
    <3>. QED BY <3>1, <3>2 DEF OneRunner
  <2>. QED BY <2>1, <2>2
<1>. QED BY <1>1, <1>2, StaysSound, PTL DEF Spec, CardsOwnTheirRun

\* Under the same condition a paid result that is not applied yet is never
\* lost: it stays in a checkpoint that can be resumed, through crashes,
\* deploys, pauses and take-overs, until it is applied, the creator ends the
\* run, or a refused lease does.
THEOREM StudioPaidWorkIsKept == Spec /\ CardsOwnTheirRun => PaidWorkIsKept
<1>1. Init => Thrifty
  BY InitThrifty
<1>2. Sound /\ Thrifty /\ [Next]_vars /\ [CardOwned]_vars => Thrifty' /\ \A r \in Runs : Saved(r)
  <2> SUFFICES ASSUME Sound, Thrifty, [Next]_vars, [CardOwned]_vars
               PROVE  Thrifty' /\ \A r \in Runs : Saved(r)
    OBVIOUS
  <2>1. CASE CardOwned
    BY <2>1, NextFrugal
  <2>2. CASE UNCHANGED vars
    BY <2>2, AroundFrugal DEF vars, Frugal
  <2>. QED BY <2>1, <2>2
<1>3. (\A r \in Runs : Saved(r)) =>
        [\A r \in Runs :
           Owed(r) /\ Resumable(r) =>
             \/ Kept(r) \/ row'[r].why \in {"stopped", "superseded"}
             \/ EndedBy(r, {"stop", "lease"})]_vars
  BY DEF Saved
<1>. QED BY <1>1, <1>2, <1>3, StaysSound, PTL DEF Spec, CardsOwnTheirRun, PaidWorkIsKept
=============================================================================
