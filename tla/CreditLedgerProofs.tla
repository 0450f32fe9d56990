------------------------- MODULE CreditLedgerProofs -------------------------
(***************************************************************************)
(* CreditLedger keeps its holds covered for any number of references and   *)
(* any amounts.  Every step changes the hold of one reference, or lets     *)
(* some lapse, so it is enough to know what a change of one term does to   *)
(* the sum of the holds: SumTheorems.                                      *)
(*                                                                         *)
(* The assumptions on the constants are hypotheses of each theorem, so     *)
(* that a module that works against the ledger can cite them.              *)
(***************************************************************************)
EXTENDS CreditLedger, SumTheorems

\* The provers are quicker on the bare fact.
LEMMA AtMost ==
  ASSUME NEW a \in Nat, NEW b \in Nat, NEW c \in Nat, NEW d \in Nat, NEW e \in Nat,
         a <= b + c, b + c <= d + e
  PROVE  a <= d + e
OBVIOUS

Holds == [status : Statuses, credits : Nat]
Sizes(h) == [r \in Refs |-> h[r].credits]
ActiveOf(h, S) == {r \in S : h[r].status = "active"}
HeldBy(h, S) == SumFunctionOnSet(Sizes(h), ActiveOf(h, S))

\* What is held for any references is a natural number.
LEMMA HeldByIsNat ==
  ASSUME IsFiniteSet(Refs), NEW h \in [Refs -> Holds], NEW S \in SUBSET Refs
  PROVE  HeldBy(h, S) \in Nat
<1>1. IsFiniteSet(ActiveOf(h, S))
  <2>1. ActiveOf(h, S) \subseteq Refs
    BY DEF ActiveOf
  <2>. QED BY <2>1, FS_Subset
<1>2. \A r \in ActiveOf(h, S) : Sizes(h)[r] \in Nat
  BY DEF ActiveOf, Sizes, Holds
<1>. QED BY <1>1, <1>2, SumIsNat DEF HeldBy

\* The holds of the others do not depend on the hold of r.
LEMMA OthersUnchanged ==
  ASSUME IsFiniteSet(Refs), NEW h \in [Refs -> Holds], NEW k \in [Refs -> Holds],
         NEW r \in Refs, \A q \in Refs \ {r} : k[q] = h[q]
  PROVE  HeldBy(k, Refs \ {r}) = HeldBy(h, Refs \ {r})
<1> DEFINE A == ActiveOf(h, Refs \ {r})
<1>1. ActiveOf(k, Refs \ {r}) = A
  BY DEF ActiveOf
<1>2. A \subseteq Refs
  BY DEF ActiveOf
<1>3. IsFiniteSet(A)
  BY <1>2, FS_Subset
<1>4. \A q \in A : Sizes(h)[q] \in Nat /\ Sizes(k)[q] = Sizes(h)[q]
  BY DEF ActiveOf, Sizes, Holds
<1> HIDE DEF A
<1>5. SumFunctionOnSet(Sizes(k), A) = SumFunctionOnSet(Sizes(h), A)
  BY <1>3, <1>4, SumOfEqual
<1>. QED BY <1>1, <1>5 DEF HeldBy, A

\* What is held is what is held for one reference and for the others.
LEMMA HeldSplits ==
  ASSUME IsFiniteSet(Refs), NEW h \in [Refs -> Holds], NEW r \in Refs
  PROVE  HeldBy(h, Refs) =
           (IF h[r].status = "active" THEN h[r].credits ELSE 0) + HeldBy(h, Refs \ {r})
<1> DEFINE A == ActiveOf(h, Refs)
<1>1. A \subseteq Refs
  BY DEF ActiveOf
<1>2. IsFiniteSet(A)
  BY <1>1, FS_Subset
<1>3. ActiveOf(h, Refs \ {r}) = A \ {r}
  BY DEF ActiveOf
<1>4. \A q \in A : Sizes(h)[q] \in Nat
  BY <1>1 DEF Sizes, Holds
<1>5. Sizes(h)[r] = h[r].credits
  BY DEF Sizes
<1>6. CASE r \in A
  <2>1. SumFunctionOnSet(Sizes(h), A) = Sizes(h)[r] + SumFunctionOnSet(Sizes(h), A \ {r})
    <3> HIDE DEF A
    <3>. QED BY <1>2, <1>4, <1>6, SumWithout
  <2>. QED BY <1>3, <1>5, <1>6, <2>1 DEF HeldBy, ActiveOf
<1>7. CASE r \notin A
  <2>1. A \ {r} = A /\ h[r].status # "active"
    BY <1>7 DEF ActiveOf
  <2>2. HeldBy(h, Refs \ {r}) = HeldBy(h, Refs)
    BY <1>3, <2>1 DEF HeldBy
  <2>. QED BY <2>1, <2>2, HeldByIsNat
<1>. QED BY <1>6, <1>7

\* A hold that lapses leaves no more than was held.
LEMMA HeldByFewer ==
  ASSUME IsFiniteSet(Refs), NEW h \in [Refs -> Holds], NEW k \in [Refs -> Holds],
         \A q \in Refs : k[q].status = "active" => k[q] = h[q]
  PROVE  HeldBy(k, Refs) <= HeldBy(h, Refs)
<1> DEFINE A == ActiveOf(h, Refs)
           B == ActiveOf(k, Refs)
<1>1. B \in SUBSET A /\ A \subseteq Refs
  BY DEF ActiveOf
<1>2. IsFiniteSet(A) /\ IsFiniteSet(B)
  BY <1>1, FS_Subset
<1>3. \A q \in A : Sizes(h)[q] \in Nat
  BY DEF ActiveOf, Sizes, Holds
<1>4. \A q \in B : Sizes(h)[q] \in Nat /\ Sizes(k)[q] = Sizes(h)[q]
  BY DEF ActiveOf, Sizes, Holds
<1> HIDE DEF A, B
<1>5. SumFunctionOnSet(Sizes(k), B) = SumFunctionOnSet(Sizes(h), B)
  BY <1>2, <1>4, SumOfEqual
<1>6. SumFunctionOnSet(Sizes(h), B) <= SumFunctionOnSet(Sizes(h), A)
  BY <1>1, <1>2, <1>3, SumOfFewer
<1>. QED BY <1>5, <1>6 DEF HeldBy, A, B

-----------------------------------------------------------------------------
(* The steps.  Covered is what they all preserve.                          *)

Covered == TypeOK /\ HoldsCovered

\* What is held in a state, in the terms of the lemmas.
LEMMA HeldIs ==
  /\ \A S : Held(S) = HeldBy(hold, S)
  /\ \A S : Held(S)' = HeldBy(hold', S)
BY Zenon DEF Held, HeldBy, Sizes, ActiveOf

\* A step that sets the hold of r to h is covered when what it leaves in the
\* wallet is enough for the others and for h.
LEMMA OneHoldChanges ==
  ASSUME IsFiniteSet(Refs), TypeOK, HoldsCovered, NEW r \in Refs, NEW h \in Holds,
         hold' = [hold EXCEPT ![r] = h], balance' \in Nat, lost' \in Nat,
         \/ h.status = "active" /\ h.credits + HeldForOthers(r) <= balance'
         \/ (h.status # "active" \/ h.credits = 0) /\ HeldForOthers(r) <= balance' + lost'
  PROVE  hold' \in [Refs -> Holds] /\ HoldsCovered'
<1>1. hold \in [Refs -> Holds] /\ hold' \in [Refs -> Holds]
  BY DEF TypeOK, Holds
<1>2. HeldBy(hold', Refs) =
        (IF h.status = "active" THEN h.credits ELSE 0) + HeldBy(hold', Refs \ {r})
  BY <1>1, HeldSplits
<1>3. HeldBy(hold', Refs \ {r}) = HeldBy(hold, Refs \ {r})
  BY <1>1, OthersUnchanged
<1>4. HeldBy(hold, Refs \ {r}) \in Nat /\ h.credits \in Nat
  BY <1>1, HeldByIsNat DEF Holds
<1>5. HeldBy(hold', Refs) <= balance' + lost'
  BY <1>2, <1>3, <1>4, HeldIs DEF HeldForOthers
<1>. QED BY <1>1, <1>5, HeldIs DEF HoldsCovered

\* A reference that is not held for keeps at least what the others hold.
LEMMA OthersHoldLess ==
  ASSUME IsFiniteSet(Refs), TypeOK, HoldsCovered, NEW r \in Refs
  PROVE  /\ Held(Refs) \in Nat /\ HeldForOthers(r) \in Nat
         /\ HeldForOthers(r) <= Held(Refs)
         /\ HeldForOthers(r) <= balance + lost
<1>1. hold \in [Refs -> Holds]
  BY DEF TypeOK, Holds
<1>2. HeldBy(hold, Refs) \in Nat /\ HeldBy(hold, Refs \ {r}) \in Nat
  BY <1>1, HeldByIsNat
<1>3. HeldBy(hold, Refs) =
        (IF hold[r].status = "active" THEN hold[r].credits ELSE 0) + HeldBy(hold, Refs \ {r})
  BY <1>1, HeldSplits
<1>4. hold[r].credits \in Nat
  BY <1>1 DEF Holds
<1>5. HeldBy(hold, Refs \ {r}) <= HeldBy(hold, Refs)
  BY <1>2, <1>3, <1>4
<1>6. Held(Refs) = HeldBy(hold, Refs) /\ HeldForOthers(r) = HeldBy(hold, Refs \ {r})
  BY HeldIs DEF HeldForOthers
<1>7. balance \in Nat /\ lost \in Nat /\ Held(Refs) <= balance + lost
  BY DEF TypeOK, HoldsCovered
<1>. QED BY <1>2, <1>5, <1>6, <1>7

\* The assumptions on the constants.
Constants == Credits \subseteq Nat /\ None \notin Nat /\ IsFiniteSet(Refs)

\* A step that leaves the holds alone is covered when it takes no more out
\* of the wallet than it counts as lost, or leaves enough for all holds.
LEMMA NoHoldChanges ==
  ASSUME Constants, Covered, UNCHANGED hold, balance' \in Nat, lost' \in Nat,
         balance + lost <= balance' + lost' \/ Held(Refs) <= balance'
  PROVE  HoldsCovered'
<1>1. Held(Refs)' = Held(Refs)
  BY HeldIs
<1>2. Held(Refs) \in Nat
  <2>1. hold \in [Refs -> Holds]
    BY DEF Covered, TypeOK, Holds
  <2>. QED BY <2>1, HeldByIsNat, HeldIs DEF Constants
<1>3. balance \in Nat /\ lost \in Nat /\ Held(Refs) <= balance + lost
  BY DEF Covered, TypeOK, HoldsCovered
<1>4. Held(Refs) <= balance' + lost'
  <2>1. CASE balance + lost <= balance' + lost'
    BY <1>2, <1>3, <2>1, AtMost
  <2>2. CASE Held(Refs) <= balance'
    BY <1>2, <2>2
  <2>. QED BY <2>1, <2>2
<1>. QED BY <1>1, <1>4 DEF HoldsCovered

LEMMA ReserveCovered ==
  ASSUME Constants, Covered, NEW r \in Refs, NEW c \in Credits, NEW x \in Credits,
         Loses(x), Reserve(r, c, x)
  PROVE  Covered'
<1> DEFINE h == [status |-> "active", credits |-> c]
<1>1. /\ c \in Nat /\ x \in Nat /\ h \in Holds
  BY DEF Constants, Holds, Statuses
<1>2. /\ TypeOK /\ HoldsCovered /\ IsFiniteSet(Refs)
  BY DEF Covered, Constants
<1>3. /\ balance' = balance - x /\ lost' = lost + x /\ balance' \in Nat /\ lost' \in Nat
  BY <1>1, <1>2 DEF Reserve, Loses, Left, TypeOK
<1>4. HeldForOthers(r) \in Nat /\ HeldForOthers(r) <= balance + lost
  BY <1>2, OthersHoldLess
<1>5. hold' = [hold EXCEPT ![r] = h] /\ h.status = "active" /\ h.credits = c
  BY DEF Reserve
<1>6. CASE c = 0
  <2>1. HeldForOthers(r) <= balance' + lost'
    BY <1>1, <1>2, <1>3, <1>4 DEF TypeOK
  <2> HIDE DEF h
  <2>2. hold' \in [Refs -> Holds] /\ HoldsCovered'
    BY <1>1, <1>2, <1>3, <1>5, <1>6, <2>1, OneHoldChanges
  <2>. QED BY <1>2, <1>3, <2>2 DEF Covered, TypeOK, Reserve, Holds
<1>7. CASE c # 0
  <2>1. c + HeldForOthers(r) <= balance'
    BY <1>3, <1>7 DEF Reserve, Left
  <2> HIDE DEF h
  <2>2. hold' \in [Refs -> Holds] /\ HoldsCovered'
    BY <1>1, <1>2, <1>3, <1>5, <2>1, OneHoldChanges
  <2>. QED BY <1>2, <1>3, <2>2 DEF Covered, TypeOK, Reserve, Holds
<1>. QED BY <1>6, <1>7

\* A hold that ends, by a release or a settlement.
LEMMA EndsCovered ==
  ASSUME Constants, Covered, NEW r \in Refs, NEW s \in Statuses \ {"active"},
         hold' = [hold EXCEPT ![r] = Ended(s)], balance' \in Nat, lost' \in Nat,
         \/ balance + lost <= balance' + lost'
         \/ HeldForOthers(r) <= balance'
  PROVE  hold' \in [Refs -> Holds] /\ HoldsCovered'
<1> DEFINE h == Ended(s)
<1>1. h \in Holds /\ h.status # "active"
  BY DEF Ended, Holds
<1>2. TypeOK /\ HoldsCovered /\ IsFiniteSet(Refs) /\ balance \in Nat /\ lost \in Nat
  BY DEF Covered, Constants, TypeOK
<1>3. HeldForOthers(r) \in Nat /\ HeldForOthers(r) <= balance + lost
  BY <1>2, OthersHoldLess
<1>4. HeldForOthers(r) <= balance' + lost'
  <2>1. CASE balance + lost <= balance' + lost'
    BY <1>2, <1>3, <2>1, AtMost
  <2>2. CASE HeldForOthers(r) <= balance'
    BY <1>3, <2>2
  <2>. QED BY <2>1, <2>2
<1>5. hold' = [hold EXCEPT ![r] = h]
  OBVIOUS
<1> HIDE DEF h
<1>. QED BY <1>1, <1>2, <1>4, <1>5, OneHoldChanges

LEMMA SettleCovered ==
  ASSUME Constants, Covered, NEW r \in Refs, NEW c \in Credits, NEW x \in Credits,
         Loses(x), Settle(r, c, x)
  PROVE  Covered'
<1>1. c \in Nat /\ x \in Nat /\ TypeOK
  BY DEF Constants, Covered
<1>2. HeldForOthers(r) \in Nat
  BY OthersHoldLess DEF Covered, Constants
<1>3. hold' = [hold EXCEPT ![r] = Ended("settled")]
  BY DEF Settle
<1>4. /\ balance' \in Nat /\ lost' \in Nat /\ charge' \in [Refs -> Nat \cup {None}]
      /\ balance + lost <= balance' + lost' \/ HeldForOthers(r) <= balance'
  <2>1. CASE charge' = [charge EXCEPT ![r] = c] /\ c + HeldForOthers(r) <= Left(x)
             /\ balance' = Left(x) - c
    BY <1>1, <1>2, <2>1 DEF Loses, Left, TypeOK
  <2>2. CASE balance' = Left(x) /\ UNCHANGED charge
    BY <1>1, <2>2 DEF Loses, Left, TypeOK
  <2>. QED BY <2>1, <2>2 DEF Settle
<1>5. hold' \in [Refs -> Holds] /\ HoldsCovered'
  BY <1>3, <1>4, EndsCovered DEF Statuses
<1>. QED BY <1>1, <1>4, <1>5 DEF Covered, TypeOK, Settle, Holds

LEMMA DeductCovered ==
  ASSUME Constants, Covered, NEW r \in Refs, NEW c \in Credits, NEW x \in Credits,
         Loses(x), Deduct(r, c, x)
  PROVE  Covered'
<1>1. c \in Nat /\ x \in Nat /\ TypeOK
  BY DEF Constants, Covered
<1>2. Held(Refs) \in Nat
  BY OthersHoldLess DEF Covered, Constants
<1>3. balance' \in Nat /\ lost' \in Nat /\ Held(Refs) <= balance'
  BY <1>1, <1>2 DEF Deduct, Loses, Left, TypeOK
<1>4. HoldsCovered'
  BY <1>3, NoHoldChanges DEF Deduct
<1>5. TypeOK'
  BY <1>1, <1>3 DEF TypeOK, Deduct
<1>. QED BY <1>4, <1>5 DEF Covered

LEMMA FundCovered ==
  ASSUME Constants, Covered, NEW c \in Credits, NEW x \in Credits, Loses(x), Fund(c, x)
  PROVE  Covered'
<1>1. c \in Nat /\ x \in Nat /\ TypeOK
  BY DEF Constants, Covered
<1>2. balance' \in Nat /\ lost' \in Nat /\ balance + lost <= balance' + lost'
  BY <1>1 DEF Fund, Loses, Left, TypeOK
<1>3. HoldsCovered'
  BY <1>2, NoHoldChanges DEF Fund
<1>4. TypeOK'
  BY <1>1, <1>2 DEF TypeOK, Fund
<1>. QED BY <1>3, <1>4 DEF Covered

LEMMA ReleaseCovered ==
  ASSUME Constants, Covered, NEW r \in Refs, Loses(0), Release(r)
  PROVE  Covered'
<1>1. TypeOK
  BY DEF Covered
<1>2. balance' \in Nat /\ lost' \in Nat /\ balance + lost <= balance' + lost'
  BY <1>1 DEF Release, Loses, TypeOK
<1>3. hold' \in [Refs -> Holds] /\ HoldsCovered'
  BY <1>2, EndsCovered DEF Release, Statuses
<1>. QED BY <1>1, <1>2, <1>3 DEF Covered, TypeOK, Release, Holds

LEMMA RefundCovered ==
  ASSUME Constants, Covered, NEW r \in Refs, Loses(0), Refund(r)
  PROVE  Covered'
<1>1. TypeOK
  BY DEF Covered
<1>2. charge[r] \in Nat
  BY <1>1 DEF TypeOK, Refund
<1>3. balance' \in Nat /\ lost' \in Nat /\ balance + lost <= balance' + lost'
  BY <1>1, <1>2 DEF Refund, Loses, TypeOK
<1>4. HoldsCovered'
  BY <1>3, NoHoldChanges DEF Refund
<1>5. TypeOK'
  BY <1>1, <1>3 DEF TypeOK, Refund
<1>. QED BY <1>4, <1>5 DEF Covered

LEMMA LapseCovered ==
  ASSUME Constants, Covered, NEW S \in SUBSET Refs, Loses(0), Lapse(S)
  PROVE  Covered'
<1>1. TypeOK /\ HoldsCovered /\ IsFiniteSet(Refs)
  BY DEF Covered, Constants
<1>2. hold \in [Refs -> Holds] /\ hold' \in [Refs -> Holds]
  BY <1>1 DEF Lapse, TypeOK, Holds, Statuses
<1>3. \A q \in Refs : hold'[q].status = "active" => hold'[q] = hold[q]
  BY <1>1 DEF Lapse, TypeOK
<1>4. HeldBy(hold', Refs) <= HeldBy(hold, Refs)
  BY <1>1, <1>2, <1>3, HeldByFewer
<1>5. balance' = balance /\ lost' = lost
  BY <1>1 DEF Lapse, Loses, TypeOK
<1>6. HeldBy(hold', Refs) \in Nat /\ HeldBy(hold, Refs) \in Nat
  BY <1>1, <1>2, HeldByIsNat
<1>7. HeldBy(hold, Refs) <= balance + lost
  BY <1>1, HeldIs DEF HoldsCovered
<1>8. HoldsCovered'
  BY <1>1, <1>4, <1>5, <1>6, <1>7, HeldIs DEF HoldsCovered, TypeOK
<1>. QED BY <1>1, <1>2, <1>5, <1>8 DEF Covered, TypeOK, Lapse, Holds

LEMMA InitCovered == Constants /\ Init => Covered
<1> SUFFICES ASSUME Constants, Init PROVE Covered
  OBVIOUS
<1>1. TypeOK
  BY DEF Constants, Init, TypeOK, NoHold, Ended, Statuses
<1>2. ActiveOf(hold, Refs) = {}
  BY DEF Init, ActiveOf, NoHold, Ended
<1>3. HeldBy(hold, Refs) = 0
  BY <1>2, SumOfNone DEF HeldBy
<1>. QED BY <1>1, <1>3, HeldIs DEF Covered, HoldsCovered, TypeOK

LEMMA NextCovered == Constants /\ Covered /\ [Next]_vars => Covered'
<1> SUFFICES ASSUME Constants, Covered, [Next]_vars PROVE Covered'
  OBVIOUS
<1>1. CASE UNCHANGED vars
  BY <1>1, HeldIs DEF vars, Covered, TypeOK, HoldsCovered
<1>2. ASSUME Loses(0), NEW r \in Refs, Release(r) PROVE Covered'
  BY <1>2, ReleaseCovered
<1>3. ASSUME Loses(0), NEW r \in Refs, Refund(r) PROVE Covered'
  BY <1>3, RefundCovered
<1>4. ASSUME Loses(0), NEW S \in SUBSET Refs, Lapse(S) PROVE Covered'
  BY <1>4, LapseCovered
<1>5. ASSUME NEW x \in Credits, Loses(x), NEW c \in Credits, Fund(c, x) PROVE Covered'
  BY <1>5, FundCovered
<1>6. ASSUME NEW x \in Credits, Loses(x), NEW c \in Credits, NEW r \in Refs, Reserve(r, c, x)
      PROVE  Covered'
  BY <1>6, ReserveCovered
<1>7. ASSUME NEW x \in Credits, Loses(x), NEW c \in Credits, NEW r \in Refs, Settle(r, c, x)
      PROVE  Covered'
  BY <1>7, SettleCovered
<1>8. ASSUME NEW x \in Credits, Loses(x), NEW c \in Credits, NEW r \in Refs, Deduct(r, c, x)
      PROVE  Covered'
  BY <1>8, DeductCovered
<1>. QED BY <1>1, <1>2, <1>3, <1>4, <1>5, <1>6, <1>7, <1>8, Zenon DEF Next

\* What is held never exceeds what is there, but for what was lost, whatever
\* work is held for, charged, given back or let lapse, in any order.
THEOREM LedgerCovered ==
  ASSUME Credits \subseteq Nat, None \notin Nat, IsFiniteSet(Refs)
  PROVE  Spec => []TypeOK /\ []HoldsCovered
<1>0. Constants
  BY DEF Constants
<1>1. Init => Covered
  BY <1>0, InitCovered
<1>2. Covered /\ [Next]_vars => Covered'
  BY <1>0, NextCovered
<1>3. Covered => TypeOK /\ HoldsCovered
  BY DEF Covered
<1>. QED BY <1>1, <1>2, <1>3, PTL DEF Spec

\* One step keeps every charge and every settled hold.
LEMMA StepIsFinal ==
  ASSUME Constants, TypeOK, [Next]_vars, NEW r \in Refs
  PROVE  /\ charge[r] # None => charge'[r] = charge[r]
         /\ hold[r].status = "settled" => hold'[r].status = "settled"
<1>1. CASE UNCHANGED vars
  BY <1>1 DEF vars
<1>2. ASSUME NEW q \in Refs, Release(q) \/ Refund(q)
      PROVE  /\ charge[r] # None => charge'[r] = charge[r]
             /\ hold[r].status = "settled" => hold'[r].status = "settled"
  BY <1>2 DEF Release, Refund, TypeOK
<1>3. ASSUME NEW S \in SUBSET Refs, Lapse(S)
      PROVE  /\ charge[r] # None => charge'[r] = charge[r]
             /\ hold[r].status = "settled" => hold'[r].status = "settled"
  BY <1>3 DEF Lapse, TypeOK
<1>4. ASSUME NEW x \in Credits, NEW c \in Credits, Fund(c, x)
      PROVE  /\ charge[r] # None => charge'[r] = charge[r]
             /\ hold[r].status = "settled" => hold'[r].status = "settled"
  BY <1>4 DEF Fund
<1>5. ASSUME NEW x \in Credits, NEW c \in Credits, NEW q \in Refs,
             Reserve(q, c, x) \/ Settle(q, c, x) \/ Deduct(q, c, x)
      PROVE  /\ charge[r] # None => charge'[r] = charge[r]
             /\ hold[r].status = "settled" => hold'[r].status = "settled"
  BY <1>5 DEF Reserve, Settle, Deduct, Ended, TypeOK
<1>. QED BY <1>1, <1>2, <1>3, <1>4, <1>5, Zenon DEF Next

\* A charge is never taken again, changed or forgotten, and a settled hold
\* stays settled: no step has another way to the row of a reference.
THEOREM LedgerChargesAreFinal ==
  ASSUME Credits \subseteq Nat, None \notin Nat, IsFiniteSet(Refs)
  PROVE  Spec => ChargesAreFinal
<1>0. Constants
  BY DEF Constants
<1>1. Spec => []TypeOK
  BY LedgerCovered
<1>2. TypeOK /\ [Next]_vars =>
        [\A r \in Refs :
           /\ charge[r] # None => charge'[r] = charge[r]
           /\ hold[r].status = "settled" => hold'[r].status = "settled"]_vars
  BY <1>0, StepIsFinal
<1>. QED BY <1>1, <1>2, PTL DEF Spec, ChargesAreFinal
=============================================================================
