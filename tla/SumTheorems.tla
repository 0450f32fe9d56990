---------------------------- MODULE SumTheorems ----------------------------
(***************************************************************************)
(* What a sum over a finite set is, for sums written with SumFunctionOnSet *)
(* of the community modules: the SUM of the holds of a wallet that         *)
(* heldCreditsForWallet takes, and that every spending is checked against. *)
(*                                                                         *)
(* SumFunctionOnSet takes the elements in the order of a CHOOSE.  That its *)
(* recursion has a solution, that the solution is unique and that the      *)
(* order does not matter are proved by induction on the size of a subset.  *)
(***************************************************************************)
EXTENDS Integers, FiniteSets, Functions, FiniteSetTheorems, WellFoundedInduction, TLAPS

\* Induction on the naturals, for a set instead of a predicate.
LEMMA NaturalsByInduction ==
  ASSUME NEW T, T \subseteq Nat, 0 \in T, \A n \in T : n + 1 \in T
  PROVE  T = Nat
<1>1. SUFFICES ASSUME Nat \ T # {} PROVE FALSE
  OBVIOUS
<1> DEFINE Below == OpToRel(<, Nat)
<1>2. \A m, n \in Nat : m < n => <<m, n>> \in Below
  BY Zenon DEF OpToRel
<1>3. IsWellFoundedOn(Below, Nat)
  BY NatLessThanWellFounded, Zenon
<1> HIDE DEF Below
<1>4. PICK n \in Nat \ T : \A m \in Nat \ T : <<m, n>> \notin Below
  BY <1>1, <1>3, WFMin, Zenon
<1>5. n # 0 /\ n - 1 \in Nat /\ n - 1 < n
  BY <1>4
<1>6. n - 1 \in T
  BY <1>2, <1>4, <1>5
<1>. QED BY <1>4, <1>5, <1>6

\* The recursion of a sum over the subsets of S.
PartSums(f, S, g) ==
  g = [s \in SUBSET S |->
         IF s = {} THEN 0
         ELSE f[CHOOSE x \in s : TRUE] + g[s \ {CHOOSE x \in s : TRUE}]]

\* The sum of the community modules is that recursion at the whole set.
LEMMA SumUnfolds ==
  ASSUME NEW f, NEW S
  PROVE  SumFunctionOnSet(f, S) = (CHOOSE g : PartSums(f, S, g))[S]
BY Zenon DEF SumFunctionOnSet, FoldFunctionOnSet, MapThenFoldSet, PartSums

\* The element that is added next.
Chosen(s) == CHOOSE x \in s : TRUE
LEMMA ChosenIsIn == ASSUME NEW s, s # {} PROVE Chosen(s) \in s
BY Zenon DEF Chosen

\* Up to a size the recursion has a solution.
PartsUpTo(S, n) == {s \in SUBSET S : Cardinality(s) <= n}
SolvesUpTo(f, S, n, g) ==
  /\ g \in [PartsUpTo(S, n) -> Nat]
  /\ \A s \in PartsUpTo(S, n) :
       g[s] = IF s = {} THEN 0 ELSE f[Chosen(s)] + g[s \ {Chosen(s)}]

\* Taking an element away makes a part smaller.
LEMMA PartShrinks ==
  ASSUME NEW S, IsFiniteSet(S), NEW n \in Nat, NEW s \in PartsUpTo(S, n + 1), NEW x \in s
  PROVE  s \ {x} \in PartsUpTo(S, n)
<1>1. IsFiniteSet(s)
  BY FS_Subset DEF PartsUpTo
<1>2. Cardinality(s \ {x}) = Cardinality(s) - 1 /\ Cardinality(s) \in Nat
  BY <1>1, FS_RemoveElement, FS_CardinalityType
<1>. QED BY <1>2 DEF PartsUpTo

\* The recursion can be solved for the parts of any size.
LEMMA SolvableUpTo ==
  ASSUME NEW f, NEW S, IsFiniteSet(S), \A x \in S : f[x] \in Nat, NEW n \in Nat
  PROVE  \E g : SolvesUpTo(f, S, n, g)
<1> DEFINE T == {k \in Nat : \E g : SolvesUpTo(f, S, k, g)}
<1>1. 0 \in T
  <2>1. PartsUpTo(S, 0) = {{}}
    <3>1. \A s \in SUBSET S : Cardinality(s) <= 0 => s = {}
      BY FS_Subset, FS_EmptySet, FS_CardinalityType
    <3>2. Cardinality({}) = 0
      BY FS_EmptySet
    <3>. QED BY <3>1, <3>2 DEF PartsUpTo
  <2>2. SolvesUpTo(f, S, 0, [s \in PartsUpTo(S, 0) |-> 0])
    BY <2>1 DEF SolvesUpTo
  <2>. QED BY <2>2
<1>2. ASSUME NEW k \in T PROVE k + 1 \in T
  <2>1. PICK g : SolvesUpTo(f, S, k, g)
    OBVIOUS
  <2> DEFINE h == [s \in PartsUpTo(S, k + 1) |-> IF s = {} THEN 0 ELSE f[Chosen(s)] + g[s \ {Chosen(s)}]]
  <2>2. \A s \in PartsUpTo(S, k + 1) : s # {} => /\ Chosen(s) \in S /\ s \ {Chosen(s)} \in PartsUpTo(S, k)
    BY ChosenIsIn, PartShrinks DEF PartsUpTo
  <2>3. h \in [PartsUpTo(S, k + 1) -> Nat]
    BY <2>1, <2>2 DEF SolvesUpTo
  <2>4. \A s \in PartsUpTo(S, k) : s \in PartsUpTo(S, k + 1) /\ h[s] = g[s]
    BY <2>1, FS_Subset, FS_CardinalityType DEF SolvesUpTo, PartsUpTo
  <2>5. \A s \in PartsUpTo(S, k + 1) : h[s] = IF s = {} THEN 0 ELSE f[Chosen(s)] + h[s \ {Chosen(s)}]
    BY <2>2, <2>4
  <2>6. SolvesUpTo(f, S, k + 1, h)
    BY <2>3, <2>5 DEF SolvesUpTo
  <2>. QED BY <2>6
<1> HIDE DEF T
<1>3. T = Nat
  <2>1. T \subseteq Nat
    BY DEF T
  <2>. QED BY <1>1, <1>2, <2>1, NaturalsByInduction
<1>. QED BY <1>3 DEF T

\* The recursion can be solved, so the CHOOSE of a sum finds a solution.
LEMMA Solvable ==
  ASSUME NEW f, NEW S, IsFiniteSet(S), \A x \in S : f[x] \in Nat
  PROVE  \E g : PartSums(f, S, g)
<1>1. Cardinality(S) \in Nat
  BY FS_CardinalityType
<1>2. PICK g : SolvesUpTo(f, S, Cardinality(S), g)
  BY <1>1, SolvableUpTo
<1>3. PartsUpTo(S, Cardinality(S)) = SUBSET S
  BY FS_Subset DEF PartsUpTo
<1>4. g = [s \in SUBSET S |-> IF s = {} THEN 0 ELSE f[Chosen(s)] + g[s \ {Chosen(s)}]]
  BY <1>2, <1>3 DEF SolvesUpTo
<1>. QED BY <1>4 DEF PartSums, Chosen

\* What a solution says of one part.
LEMMA PartSumStep ==
  ASSUME NEW f, NEW S, NEW g, PartSums(f, S, g)
  PROVE  \A s \in SUBSET S :
           g[s] = IF s = {} THEN 0 ELSE f[Chosen(s)] + g[s \ {Chosen(s)}]
<1>1. g = [t \in SUBSET S |-> IF t = {} THEN 0 ELSE f[Chosen(t)] + g[t \ {Chosen(t)}]]
  BY DEF PartSums, Chosen
<1>. QED BY <1>1

\* What holds of every subset of S once it holds of the smaller ones.
LEMMA SubsetsByInduction ==
  ASSUME NEW S, IsFiniteSet(S), NEW T, T \subseteq SUBSET S,
         \A s \in SUBSET S : (\A x \in s : s \ {x} \in T) => s \in T
  PROVE  T = SUBSET S
<1> DEFINE N == {n \in Nat : PartsUpTo(S, n) \subseteq T}
<1>1. {} \in T
  OBVIOUS
<1>2. 0 \in N
  <2>1. \A s \in SUBSET S : Cardinality(s) <= 0 => s = {}
    BY FS_Subset, FS_EmptySet, FS_CardinalityType
  <2>. QED BY <1>1, <2>1 DEF PartsUpTo
<1>3. ASSUME NEW n \in N PROVE n + 1 \in N
  <2>1. ASSUME NEW s \in PartsUpTo(S, n + 1) PROVE s \in T
    <3>1. \A x \in s : s \ {x} \in T
      BY PartShrinks
    <3>. QED BY <3>1 DEF PartsUpTo
  <2>. QED BY <2>1
<1>4. N \subseteq Nat
  OBVIOUS
<1> HIDE DEF N
<1>5. N = Nat
  BY <1>2, <1>3, <1>4, NaturalsByInduction
<1>6. ASSUME NEW s \in SUBSET S PROVE s \in T
  <2>1. Cardinality(s) \in Nat
    BY FS_Subset, FS_CardinalityType
  <2>2. s \in PartsUpTo(S, Cardinality(s)) /\ Cardinality(s) \in N
    BY <1>5, <2>1 DEF PartsUpTo
  <2>. QED BY <2>2 DEF N
<1>. QED BY <1>6

\* Sums of naturals are naturals.
LEMMA SumsAreNat ==
  ASSUME NEW f, NEW S, IsFiniteSet(S), \A x \in S : f[x] \in Nat,
         NEW g, PartSums(f, S, g)
  PROVE  \A s \in SUBSET S : g[s] \in Nat
<1>r. \A s \in SUBSET S :
        g[s] = IF s = {} THEN 0 ELSE f[Chosen(s)] + g[s \ {Chosen(s)}]
  BY DEF PartSums, Chosen
<1> DEFINE T == {s \in SUBSET S : g[s] \in Nat}
<1>1. ASSUME NEW s \in SUBSET S, \A x \in s : s \ {x} \in T PROVE s \in T
  <2>1. g[s] = IF s = {} THEN 0 ELSE f[Chosen(s)] + g[s \ {Chosen(s)}]
    BY <1>r
  <2>2. s # {} => Chosen(s) \in s
    BY ChosenIsIn
  <2>3. s # {} => f[Chosen(s)] \in Nat /\ g[s \ {Chosen(s)}] \in Nat
    BY <1>1, <2>2
  <2>4. g[s] \in Nat
    BY <2>1, <2>3
  <2>. QED BY <2>4
<1>2. T \subseteq SUBSET S
  OBVIOUS
<1> HIDE DEF T
<1>3. T = SUBSET S
  BY <1>1, <1>2, SubsetsByInduction
<1>. QED BY <1>3 DEF T

\* Two solutions agree where their terms do.
LEMMA SumsAgree ==
  ASSUME NEW e, NEW R, NEW S, IsFiniteSet(S), R \subseteq S, NEW f,
         \A x \in R : e[x] = f[x],
         NEW d, PartSums(e, R, d), NEW g, PartSums(f, S, g)
  PROVE  \A s \in SUBSET R : d[s] = g[s]
<1>q. \A s \in SUBSET R : d[s] = IF s = {} THEN 0 ELSE e[Chosen(s)] + d[s \ {Chosen(s)}]
  BY DEF PartSums, Chosen
<1>r. \A s \in SUBSET S : g[s] = IF s = {} THEN 0 ELSE f[Chosen(s)] + g[s \ {Chosen(s)}]
  BY DEF PartSums, Chosen
<1> DEFINE T == {s \in SUBSET R : d[s] = g[s]}
<1>1. ASSUME NEW s \in SUBSET R, \A x \in s : s \ {x} \in T PROVE s \in T
  <2>1. d[s] = IF s = {} THEN 0 ELSE e[Chosen(s)] + d[s \ {Chosen(s)}]
    BY <1>q
  <2>2. g[s] = IF s = {} THEN 0 ELSE f[Chosen(s)] + g[s \ {Chosen(s)}]
    BY <1>r
  <2>3. s # {} => Chosen(s) \in s
    BY ChosenIsIn
  <2>. QED BY <1>1, <2>1, <2>2, <2>3
<1>2. T \subseteq SUBSET R
  OBVIOUS
<1> HIDE DEF T
<1>3. IsFiniteSet(R)
  BY FS_Subset
<1>4. T = SUBSET R
  BY <1>1, <1>2, <1>3, SubsetsByInduction
<1>. QED BY <1>4 DEF T

\* The order in which the elements are taken does not matter.
LEMMA AnyElement ==
  ASSUME NEW f, NEW S, IsFiniteSet(S), \A x \in S : f[x] \in Nat,
         NEW g, PartSums(f, S, g)
  PROVE  \A s \in SUBSET S : \A x \in s : g[s] = f[x] + g[s \ {x}]
<1>r. \A s \in SUBSET S :
        g[s] = IF s = {} THEN 0 ELSE f[Chosen(s)] + g[s \ {Chosen(s)}]
  BY DEF PartSums, Chosen
<1> DEFINE T == {s \in SUBSET S : \A x \in s : g[s] = f[x] + g[s \ {x}]}
<1>1. ASSUME NEW s \in SUBSET S, \A x \in s : s \ {x} \in T PROVE s \in T
  <2>1. SUFFICES ASSUME NEW x \in s PROVE g[s] = f[x] + g[s \ {x}]
    OBVIOUS
  <2> DEFINE y == Chosen(s)
  <2>2. y \in s /\ g[s] = f[y] + g[s \ {y}]
    <3>1. g[s] = IF s = {} THEN 0 ELSE f[Chosen(s)] + g[s \ {Chosen(s)}]
      BY <1>r
    <3>2. Chosen(s) \in s
      BY ChosenIsIn
    <3>. QED BY <3>1, <3>2
  <2> HIDE DEF y
  <2>3. CASE x = y
    BY <2>2, <2>3
  <2>4. CASE x # y
    <3>1. g[s \ {y}] = f[x] + g[(s \ {y}) \ {x}]
      BY <1>1, <2>2, <2>4
    <3>2. g[s \ {x}] = f[y] + g[(s \ {x}) \ {y}]
      BY <1>1, <2>2, <2>4
    <3>3. (s \ {y}) \ {x} = (s \ {x}) \ {y}
      OBVIOUS
    <3>4. f[x] \in Nat /\ f[y] \in Nat /\ g[(s \ {x}) \ {y}] \in Nat
      BY <2>2, SumsAreNat
    <3>. QED BY <2>2, <3>1, <3>2, <3>3, <3>4
  <2>. QED BY <2>3, <2>4
<1>2. T \subseteq SUBSET S
  OBVIOUS
<1> HIDE DEF T
<1>3. T = SUBSET S
  BY <1>1, <1>2, SubsetsByInduction
<1>. QED BY <1>3 DEF T

-----------------------------------------------------------------------------
\* A sum is the value of a solution.
LEMMA SumSolves ==
  ASSUME NEW f, NEW S, IsFiniteSet(S), \A x \in S : f[x] \in Nat
  PROVE  \E g : PartSums(f, S, g) /\ SumFunctionOnSet(f, S) = g[S]
<1>1. PartSums(f, S, CHOOSE g : PartSums(f, S, g))
  BY Solvable
<1>. QED BY <1>1, SumUnfolds

\* A sum over any part of S is the value of the recursion on S there.
LEMMA SumOfPart ==
  ASSUME NEW f, NEW S, IsFiniteSet(S), \A x \in S : f[x] \in Nat,
         NEW g, PartSums(f, S, g), NEW s \in SUBSET S
  PROVE  SumFunctionOnSet(f, s) = g[s]
<1>1. IsFiniteSet(s)
  BY FS_Subset
<1>2. PICK d : PartSums(f, s, d) /\ SumFunctionOnSet(f, s) = d[s]
  BY <1>1, SumSolves
<1>3. d[s] = g[s]
  BY <1>2, SumsAgree
<1>. QED BY <1>2, <1>3

\* What is held for any references is a natural number of credits.
THEOREM SumIsNat ==
  ASSUME NEW f, NEW S, IsFiniteSet(S), \A x \in S : f[x] \in Nat
  PROVE  SumFunctionOnSet(f, S) \in Nat
BY SumSolves, SumsAreNat

\* Nothing is held for nobody.
THEOREM SumOfNone ==
  ASSUME NEW f
  PROVE  SumFunctionOnSet(f, {}) = 0
<1>1. IsFiniteSet({})
  BY FS_EmptySet
<1>2. PICK g : PartSums(f, {}, g) /\ SumFunctionOnSet(f, {}) = g[{}]
  BY <1>1, SumSolves
<1>. QED BY <1>2, PartSumStep

\* What is held is what is held for one reference and for the others.
THEOREM SumWithout ==
  ASSUME NEW f, NEW S, IsFiniteSet(S), \A x \in S : f[x] \in Nat, NEW x \in S
  PROVE  SumFunctionOnSet(f, S) = f[x] + SumFunctionOnSet(f, S \ {x})
<1>1. PICK g : PartSums(f, S, g)
  BY Solvable
<1>2. SumFunctionOnSet(f, S) = g[S] /\ SumFunctionOnSet(f, S \ {x}) = g[S \ {x}]
  BY <1>1, SumOfPart
<1>. QED BY <1>1, <1>2, AnyElement

\* What is held depends on nothing but the holds that are summed.
THEOREM SumOfEqual ==
  ASSUME NEW e, NEW f, NEW S, IsFiniteSet(S), \A x \in S : f[x] \in Nat /\ e[x] = f[x]
  PROVE  SumFunctionOnSet(e, S) = SumFunctionOnSet(f, S)
<1>1. PICK g : PartSums(f, S, g) /\ SumFunctionOnSet(f, S) = g[S]
  BY SumSolves
<1>2. PICK d : PartSums(e, S, d) /\ SumFunctionOnSet(e, S) = d[S]
  BY SumSolves
<1>. QED BY <1>1, <1>2, SumsAgree

\* A hold that ends never raises what is held.
THEOREM SumOfFewer ==
  ASSUME NEW f, NEW S, IsFiniteSet(S), \A x \in S : f[x] \in Nat, NEW R \in SUBSET S
  PROVE  SumFunctionOnSet(f, R) <= SumFunctionOnSet(f, S)
<1>1. PICK g : PartSums(f, S, g)
  BY Solvable
<1> DEFINE T == {s \in SUBSET S : \A r \in SUBSET s : g[r] <= g[s]}
<1>2. ASSUME NEW s \in SUBSET S, \A x \in s : s \ {x} \in T PROVE s \in T
  <2>1. SUFFICES ASSUME NEW r \in SUBSET s PROVE g[r] <= g[s]
    OBVIOUS
  <2>2. CASE r = s
    BY <2>2, <1>1, SumsAreNat
  <2>3. CASE r # s
    <3>1. PICK x \in s : x \notin r
      BY <2>3
    <3>2. g[r] <= g[s \ {x}]
      BY <3>1, <1>2
    <3>3. g[s] = f[x] + g[s \ {x}]
      BY <1>1, AnyElement
    <3>4. f[x] \in Nat /\ g[s \ {x}] \in Nat /\ g[r] \in Nat
      BY <1>1, SumsAreNat
    <3>. QED BY <3>2, <3>3, <3>4
  <2>. QED BY <2>2, <2>3
<1>3. T \subseteq SUBSET S
  OBVIOUS
<1> HIDE DEF T
<1>4. T = SUBSET S
  BY <1>2, <1>3, SubsetsByInduction
<1>5. g[R] <= g[S]
  BY <1>4 DEF T
<1>6. SumFunctionOnSet(f, R) = g[R] /\ SumFunctionOnSet(f, S) = g[S]
  BY <1>1, SumOfPart
<1>. QED BY <1>5, <1>6

\* A term that changes changes the sum by as much.
THEOREM SumChanges ==
  ASSUME NEW f, NEW g, NEW S, IsFiniteSet(S), NEW x \in S,
         \A y \in S : f[y] \in Nat /\ g[y] \in Nat,
         \A y \in S \ {x} : g[y] = f[y]
  PROVE  /\ SumFunctionOnSet(f, S) \in Nat /\ SumFunctionOnSet(g, S) \in Nat
         /\ SumFunctionOnSet(g, S) + f[x] = SumFunctionOnSet(f, S) + g[x]
<1> DEFINE R == S \ {x}
<1>1. IsFiniteSet(R)
  BY FS_Subset
<1>2. \A y \in R : f[y] \in Nat /\ g[y] = f[y]
  OBVIOUS
<1>3. SumFunctionOnSet(f, S) = f[x] + SumFunctionOnSet(f, R)
  BY SumWithout
<1>4. SumFunctionOnSet(g, S) = g[x] + SumFunctionOnSet(g, R)
  BY SumWithout
<1> HIDE DEF R
<1>5. SumFunctionOnSet(g, R) = SumFunctionOnSet(f, R) /\ SumFunctionOnSet(f, R) \in Nat
  BY <1>1, <1>2, SumOfEqual, SumIsNat
<1>. QED BY <1>3, <1>4, <1>5
=============================================================================
