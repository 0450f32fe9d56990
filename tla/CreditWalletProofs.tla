------------------------- MODULE CreditWalletProofs -------------------------
(***************************************************************************)
(* The wallet keeps its three kinds of credits consistent, its ledger      *)
(* adds up, and it implements CreditLedger.                                *)
(***************************************************************************)
EXTENDS CreditWallet, SumTheorems

-----------------------------------------------------------------------------
(* Promotions up to a date.                                                *)

\* BonusBy is a recursion that the sums of the first lots solve.
LEMMA BonusUnfolds ==
  ASSUME NEW w, w.bonus \in [Instants -> Nat]
  PROVE  /\ BonusBy(w)[0] = 0
         /\ \A n \in Instants : BonusBy(w)[n] = BonusBy(w)[n - 1] + w.bonus[n]
<1> DEFINE Solves(g) == g = [n \in 0 .. Horizon |-> IF n = 0 THEN 0 ELSE g[n - 1] + w.bonus[n]]
           b == w.bonus
           h == [n \in 0 .. Horizon |-> SumFunctionOnSet(b, 1 .. n)]
<1>1. Horizon \in Nat
  BY WalletAssumption
<1>2. SumFunctionOnSet(b, 1 .. 0) = 0
  <2>1. 1 .. 0 = {}
    OBVIOUS
  <2>. QED BY <2>1, SumOfNone
<1>3. ASSUME NEW n \in Instants
      PROVE  SumFunctionOnSet(b, 1 .. n) = SumFunctionOnSet(b, 1 .. n - 1) + b[n]
  <2> DEFINE S == 1 .. n
  <2>0. n \in Nat /\ n >= 1 /\ n <= Horizon
    BY <1>1 DEF Instants
  <2>i. IsFiniteSet(S)
    BY <2>0, FS_Interval
  <2>1. n \in S /\ S \ {n} = 1 .. n - 1
    BY <2>0
  <2>2. \A x \in S : b[x] \in Nat
    BY <1>1, <2>0 DEF Instants
  <2>3. IsFiniteSet(1 .. n - 1) /\ \A x \in 1 .. n - 1 : b[x] \in Nat
    BY <2>1, <2>2, <2>i, FS_Subset
  <2>d. S = 1 .. n
    OBVIOUS
  <2> HIDE DEF S
  <2>4. SumFunctionOnSet(b, S) = b[n] + SumFunctionOnSet(b, S \ {n})
    BY <2>1, <2>2, <2>i, SumWithout
  <2>5. SumFunctionOnSet(b, 1 .. n - 1) \in Nat
    BY <2>3, SumIsNat
  <2>6. b[n] \in Nat
    BY <2>1, <2>2
  <2>7. SumFunctionOnSet(b, S) = b[n] + SumFunctionOnSet(b, 1 .. n - 1)
    BY <2>1, <2>4
  <2> HIDE DEF b
  <2>8. SumFunctionOnSet(b, S) = SumFunctionOnSet(b, 1 .. n - 1) + b[n]
    BY <2>5, <2>6, <2>7
  <2>. QED BY <2>8, <2>d
<1>4. Solves(h)
  <2>1. \A n \in 0 .. Horizon : n # 0 => n \in Instants /\ n - 1 \in 0 .. Horizon
    BY <1>1 DEF Instants
  <2> HIDE DEF b
  <2>2. \A n \in 0 .. Horizon : h[n] = IF n = 0 THEN 0 ELSE h[n - 1] + b[n]
    BY <1>2, <1>3, <2>1
  <2>. QED BY <2>2 DEF b
<1>5. Solves(CHOOSE g : Solves(g))
  <2> HIDE DEF h, Solves
  <2>. QED BY <1>4, Zenon
<1>6. BonusBy(w) = CHOOSE g : Solves(g)
  BY Zenon DEF BonusBy
<1> HIDE DEF h
<1>7. \A n \in 0 .. Horizon : BonusBy(w)[n] = IF n = 0 THEN 0 ELSE BonusBy(w)[n - 1] + w.bonus[n]
  BY <1>5, <1>6
<1>. QED BY <1>1, <1>7 DEF Instants

\* Induction over the dates.
LEMMA DatesByInduction ==
  ASSUME NEW T, T \subseteq 0 .. Horizon, 0 \in T, \A n \in Instants : n - 1 \in T => n \in T
  PROVE  T = 0 .. Horizon
<1>1. Horizon \in Nat
  BY WalletAssumption
<1> DEFINE N == {n \in Nat : n <= Horizon => n \in T}
<1>2. 0 \in N
  OBVIOUS
<1>3. ASSUME NEW n \in N PROVE n + 1 \in N
  <2>1. CASE n + 1 <= Horizon
    <3>1. n + 1 \in Instants /\ (n + 1) - 1 = n /\ n <= Horizon
      BY <1>1, <2>1 DEF Instants
    <3>2. n \in T
      BY <3>1
    <3>. QED BY <3>1, <3>2
  <2>. QED BY <2>1
<1>4. N \subseteq Nat
  OBVIOUS
<1> HIDE DEF N
<1>5. N = Nat
  BY <1>2, <1>3, <1>4, NaturalsByInduction
<1>6. \A n \in 0 .. Horizon : n \in N
  BY <1>1, <1>5
<1>7. \A n \in 0 .. Horizon : n \in T
  BY <1>1, <1>6 DEF N
<1>. QED BY <1>7

\* A sum of lots is a natural number and grows with the date.
LEMMA BonusIsNat ==
  ASSUME NEW w, w.bonus \in [Instants -> Nat]
  PROVE  \A n \in 0 .. Horizon : BonusBy(w)[n] \in Nat
<1> DEFINE T == {n \in 0 .. Horizon : BonusBy(w)[n] \in Nat}
<1>1. 0 \in T
  BY BonusUnfolds, WalletAssumption
<1>2. ASSUME NEW n \in Instants, n - 1 \in T PROVE n \in T
  <2>1. BonusBy(w)[n] = BonusBy(w)[n - 1] + w.bonus[n] /\ w.bonus[n] \in Nat
    BY BonusUnfolds
  <2>2. n \in 0 .. Horizon
    BY WalletAssumption DEF Instants
  <2>. QED BY <1>2, <2>1, <2>2
<1> HIDE DEF T
<1>3. T = 0 .. Horizon
  <2>1. T \subseteq 0 .. Horizon
    BY DEF T
  <2>. QED BY <1>1, <1>2, <2>1, DatesByInduction
<1>. QED BY <1>3 DEF T

LEMMA BonusGrows ==
  ASSUME NEW w, w.bonus \in [Instants -> Nat], NEW m \in 0 .. Horizon
  PROVE  \A n \in 0 .. Horizon : m <= n => BonusBy(w)[m] <= BonusBy(w)[n]
<1> DEFINE T == {n \in 0 .. Horizon : m <= n => BonusBy(w)[m] <= BonusBy(w)[n]}
<1>1. 0 \in T
  BY BonusIsNat, WalletAssumption
<1>2. ASSUME NEW n \in Instants, n - 1 \in T PROVE n \in T
  <2>1. BonusBy(w)[n] = BonusBy(w)[n - 1] + w.bonus[n] /\ w.bonus[n] \in Nat
    BY BonusUnfolds
  <2>2. n \in 0 .. Horizon /\ n - 1 \in 0 .. Horizon
    BY WalletAssumption DEF Instants
  <2>3. BonusBy(w)[m] \in Nat /\ BonusBy(w)[n] \in Nat /\ BonusBy(w)[n - 1] \in Nat
    BY <2>2, BonusIsNat
  <2>4. m <= n => m = n \/ m <= n - 1
    BY <2>2
  <2>. QED BY <1>2, <2>1, <2>2, <2>3, <2>4
<1> HIDE DEF T
<1>3. T = 0 .. Horizon
  <2>1. T \subseteq 0 .. Horizon
    BY DEF T
  <2>. QED BY <1>1, <1>2, <2>1, DatesByInduction
<1>. QED BY <1>3 DEF T

\* The lots that a sweep leaves.
LEMMA BonusSwept ==
  ASSUME NEW w, NEW v, w.bonus \in [Instants -> Nat], NEW t \in 0 .. Horizon,
         v.bonus = [e \in Instants |-> IF e <= t THEN 0 ELSE w.bonus[e]]
  PROVE  \A n \in 0 .. Horizon :
           BonusBy(v)[n] = IF n <= t THEN 0 ELSE BonusBy(w)[n] - BonusBy(w)[t]
<1> DEFINE T == {n \in 0 .. Horizon :
                   BonusBy(v)[n] = IF n <= t THEN 0 ELSE BonusBy(w)[n] - BonusBy(w)[t]}
<1>0. v.bonus \in [Instants -> Nat]
  OBVIOUS
<1>1. 0 \in T
  BY <1>0, BonusUnfolds, WalletAssumption
<1>2. ASSUME NEW n \in Instants, n - 1 \in T PROVE n \in T
  <2>1. BonusBy(w)[n] = BonusBy(w)[n - 1] + w.bonus[n] /\ w.bonus[n] \in Nat
    BY BonusUnfolds
  <2>2. BonusBy(v)[n] = BonusBy(v)[n - 1] + v.bonus[n]
    BY <1>0, BonusUnfolds
  <2>3. v.bonus[n] = IF n <= t THEN 0 ELSE w.bonus[n]
    OBVIOUS
  <2>4. n \in 0 .. Horizon /\ n - 1 \in 0 .. Horizon
    BY WalletAssumption DEF Instants
  <2>5. BonusBy(w)[t] \in Nat /\ BonusBy(w)[n] \in Nat /\ BonusBy(w)[n - 1] \in Nat
    BY <2>4, BonusIsNat
  <2>6. BonusBy(v)[n - 1] = IF n - 1 <= t THEN 0 ELSE BonusBy(w)[n - 1] - BonusBy(w)[t]
    BY <1>2
  <2>7. CASE n <= t
    BY <2>2, <2>3, <2>4, <2>6, <2>7
  <2>8. CASE n = t + 1
    <3>1. n - 1 = t /\ ~ (n <= t)
      BY <2>8
    <3>2. BonusBy(v)[n] = w.bonus[n]
      BY <2>1, <2>2, <2>3, <2>6, <3>1
    <3>3. BonusBy(w)[n] - BonusBy(w)[t] = w.bonus[n]
      BY <2>1, <2>5, <3>1
    <3>. QED BY <2>4, <3>1, <3>2, <3>3
  <2>9. CASE n > t + 1
    <3>1. ~ (n <= t) /\ ~ (n - 1 <= t)
      BY <2>4, <2>9
    <3>. QED BY <2>1, <2>2, <2>3, <2>4, <2>5, <2>6, <3>1
  <2>. QED BY <2>4, <2>7, <2>8, <2>9
<1> HIDE DEF T
<1>3. T = 0 .. Horizon
  <2>1. T \subseteq 0 .. Horizon
    BY DEF T
  <2>. QED BY <1>1, <1>2, <2>1, DatesByInduction
<1>. QED BY <1>3 DEF T

\* The lots after a reward.
LEMMA BonusAdded ==
  ASSUME NEW w, NEW v, w.bonus \in [Instants -> Nat], NEW d \in Instants,
         v.bonus = [w.bonus EXCEPT ![d] = @ + 1]
  PROVE  \A n \in 0 .. Horizon :
           BonusBy(v)[n] = BonusBy(w)[n] + (IF d <= n THEN 1 ELSE 0)
<1> DEFINE T == {n \in 0 .. Horizon :
                   BonusBy(v)[n] = BonusBy(w)[n] + (IF d <= n THEN 1 ELSE 0)}
<1>0. v.bonus \in [Instants -> Nat]
  OBVIOUS
<1>1. 0 \in T
  <2>1. BonusBy(v)[0] = 0 /\ BonusBy(w)[0] = 0
    BY <1>0, BonusUnfolds
  <2>2. ~ (d <= 0) /\ 0 \in 0 .. Horizon
    BY WalletAssumption DEF Instants
  <2>. QED BY <2>1, <2>2
<1>2. ASSUME NEW n \in Instants, n - 1 \in T PROVE n \in T
  <2>1. BonusBy(w)[n] = BonusBy(w)[n - 1] + w.bonus[n] /\ w.bonus[n] \in Nat
    BY BonusUnfolds
  <2>2. BonusBy(v)[n] = BonusBy(v)[n - 1] + v.bonus[n]
    BY <1>0, BonusUnfolds
  <2>3. v.bonus[n] = IF n = d THEN w.bonus[n] + 1 ELSE w.bonus[n]
    OBVIOUS
  <2>4. n \in 0 .. Horizon /\ n - 1 \in 0 .. Horizon /\ d \in 0 .. Horizon
    BY WalletAssumption DEF Instants
  <2>5. BonusBy(w)[n] \in Nat /\ BonusBy(w)[n - 1] \in Nat
    BY <2>4, BonusIsNat
  <2>6. BonusBy(v)[n - 1] = BonusBy(w)[n - 1] + (IF d <= n - 1 THEN 1 ELSE 0)
    BY <1>2
  <2>7. BonusBy(v)[n] = BonusBy(w)[n] + (IF d <= n THEN 1 ELSE 0)
    <3>1. CASE n = d
      BY <2>1, <2>2, <2>3, <2>4, <2>5, <2>6, <3>1
    <3>2. CASE n < d
      BY <2>1, <2>2, <2>3, <2>4, <2>5, <2>6, <3>2
    <3>3. CASE n > d
      BY <2>1, <2>2, <2>3, <2>4, <2>5, <2>6, <3>3
    <3>. QED BY <2>4, <3>1, <3>2, <3>3
  <2>. QED BY <2>4, <2>7
<1> HIDE DEF T
<1>3. T = 0 .. Horizon
  <2>1. T \subseteq 0 .. Horizon
    BY DEF T
  <2>. QED BY <1>1, <1>2, <2>1, DatesByInduction
<1>. QED BY <1>3 DEF T

\* What is due depends on the lots only.
LEMMA BonusSame ==
  ASSUME NEW w, NEW v, w.bonus \in [Instants -> Nat], v.bonus = w.bonus
  PROVE  \A n \in 0 .. Horizon : BonusBy(v)[n] = BonusBy(w)[n]
<1> DEFINE T == {n \in 0 .. Horizon : BonusBy(v)[n] = BonusBy(w)[n]}
<1>1. 0 \in T
  BY BonusUnfolds, WalletAssumption
<1>2. ASSUME NEW n \in Instants, n - 1 \in T PROVE n \in T
  <2>1. BonusBy(w)[n] = BonusBy(w)[n - 1] + w.bonus[n]
    BY BonusUnfolds
  <2>2. BonusBy(v)[n] = BonusBy(v)[n - 1] + v.bonus[n]
    BY BonusUnfolds
  <2>3. n \in 0 .. Horizon
    BY WalletAssumption DEF Instants
  <2>. QED BY <1>2, <2>1, <2>2, <2>3
<1> HIDE DEF T
<1>3. T = 0 .. Horizon
  <2>1. T \subseteq 0 .. Horizon
    BY DEF T
  <2>. QED BY <1>1, <1>2, <2>1, DatesByInduction
<1>. QED BY <1>3 DEF T

-----------------------------------------------------------------------------
(* What a wallet row is, and what spending from it leaves.                 *)

WalletRows ==
  [balance : Nat, addon : Nat, bonus : [Instants -> Nat],
   periodEnd : Nat \ {0}, drops : 1 .. 2, recorded : Int,
   rewards : 0 .. MaxGifts, granted : 0 .. MaxGifts, cycles : Nat]
Fits(w) ==
  /\ w \in WalletRows
  /\ TotalBonus(w) <= w.addon /\ w.addon <= w.balance
  /\ w.recorded = w.balance

\* The monthly part of a spending.
LEMMA MonthlyPart ==
  ASSUME NEW w, Fits(w), NEW c \in Nat
  PROVE  /\ FromMonthly(w, c) \in Nat
         /\ FromMonthly(w, c) <= c /\ FromMonthly(w, c) <= w.balance - w.addon
         /\ w.periodEnd <= Horizon =>
              FromMonthly(w, c) = Least(AtLeast0(c - BonusBy(w)[w.periodEnd - 1]), w.balance - w.addon)
         /\ w.periodEnd > Horizon =>
              FromMonthly(w, c) = Least(AtLeast0(c - TotalBonus(w)), w.balance - w.addon)
<1> DEFINE m == Least(w.periodEnd - 1, Horizon)
           b == BonusBy(w)[m]
           M == w.balance - w.addon
<1>1. Horizon \in Nat /\ w.periodEnd \in Nat /\ w.periodEnd # 0 /\ w.bonus \in [Instants -> Nat]
  BY WalletAssumption DEF Fits, WalletRows
<1>2. m \in 0 .. Horizon
  BY <1>1 DEF Least
<1>3. b \in Nat
  BY <1>1, <1>2, BonusIsNat
<1>4. M \in Nat /\ AtLeast0(M) = M
  BY DEF Fits, WalletRows, AtLeast0
<1>5. FromMonthly(w, c) = Least(AtLeast0(c - b), M)
  BY <1>4 DEF FromMonthly, EarlierBonus, Monthly
<1>6. w.periodEnd <= Horizon => m = w.periodEnd - 1
  BY <1>1 DEF Least
<1>7. w.periodEnd > Horizon => m = Horizon
  BY <1>1 DEF Least
<1>8. Least(AtLeast0(c - b), M) \in Nat /\ Least(AtLeast0(c - b), M) <= c
      /\ Least(AtLeast0(c - b), M) <= M
  <2> HIDE DEF b, M
  <2>. QED BY <1>3, <1>4 DEF Least, AtLeast0
<1> HIDE DEF m
<1>. QED BY <1>5, <1>6, <1>7, <1>8 DEF TotalBonus

\* What is taken out of the promotions up to a date: all that is there, less
\* what the month paid of it.
LEMMA NextLot ==
  ASSUME NEW c \in Nat, NEW B \in Nat, NEW b \in Nat, NEW m \in Nat
  PROVE  Least(c, B + m) + Least(AtLeast0(c - (B + m)), b) = Least(c, B + b + m)
BY DEF Least, AtLeast0

TakenBy(w, c, n) ==
  Least(c, BonusBy(w)[n] + (IF w.periodEnd <= n THEN w.balance - w.addon ELSE 0))
    - (IF w.periodEnd <= n THEN FromMonthly(w, c) ELSE 0)

LEMMA LotPart ==
  ASSUME NEW w, Fits(w), NEW c \in Nat, NEW n \in Instants
  PROVE  /\ TakenBy(w, c, n) = TakenBy(w, c, n - 1) + FromBonus(w, c, n)
         /\ FromBonus(w, c, n) \in Nat /\ FromBonus(w, c, n) <= w.bonus[n]
<1> DEFINE M == w.balance - w.addon
           F == FromMonthly(w, c)
           P == w.periodEnd
           B == BonusBy(w)[n - 1]
           b == w.bonus[n]
<1>1. Horizon \in Nat /\ P \in Nat /\ P # 0 /\ w.bonus \in [Instants -> Nat]
      /\ n \in Nat /\ n >= 1 /\ n <= Horizon
  BY WalletAssumption DEF Fits, WalletRows, Instants
<1>2. B \in Nat /\ b \in Nat /\ BonusBy(w)[n] = B + b
  <2>1. n - 1 \in 0 .. Horizon
    BY <1>1
  <2>. QED BY <1>1, <2>1, BonusIsNat, BonusUnfolds
<1>3. M \in Nat /\ AtLeast0(Monthly(w)) = M
  BY DEF Fits, WalletRows, AtLeast0, Monthly
<1>4. F \in Nat /\ (P = n => F = Least(AtLeast0(c - B), M))
  BY <1>1, MonthlyPart
<1>5. EarlierBonus(w, n) = B
  BY <1>1 DEF EarlierBonus, Least
<1>6. FromBonus(w, c, n) = Least(AtLeast0(c - (B + (IF P <= n THEN M ELSE 0))), b)
  BY <1>3, <1>5 DEF FromBonus
<1>7. TakenBy(w, c, n) = Least(c, B + b + (IF P <= n THEN M ELSE 0)) - (IF P <= n THEN F ELSE 0)
  BY <1>2 DEF TakenBy
<1>8. TakenBy(w, c, n - 1) = Least(c, B + (IF P <= n - 1 THEN M ELSE 0)) - (IF P <= n - 1 THEN F ELSE 0)
  BY DEF TakenBy
<1> HIDE DEF M, F, P, B, b
<1>9. FromBonus(w, c, n) \in Nat /\ FromBonus(w, c, n) <= b
  BY <1>2, <1>3, <1>6 DEF Least, AtLeast0
<1>10. CASE P <= n - 1
  <2>1. P <= n
    BY <1>1, <1>10
  <2>2. Least(c, B + M) + Least(AtLeast0(c - (B + M)), b) = Least(c, B + b + M)
    BY <1>2, <1>3, NextLot
  <2>3. Least(c, B + M) \in Nat /\ Least(AtLeast0(c - (B + M)), b) \in Nat
    BY <1>2, <1>3 DEF Least, AtLeast0
  <2>4. TakenBy(w, c, n) = Least(c, B + b + M) - F /\ TakenBy(w, c, n - 1) = Least(c, B + M) - F
        /\ FromBonus(w, c, n) = Least(AtLeast0(c - (B + M)), b)
    BY <1>6, <1>7, <1>8, <1>10, <2>1
  <2>5. TakenBy(w, c, n) = TakenBy(w, c, n - 1) + FromBonus(w, c, n)
    BY <1>4, <2>2, <2>3, <2>4
  <2>. QED BY <1>9, <2>5 DEF b
<1>11. CASE P = n
  <2>1. P <= n /\ ~ (P <= n - 1)
    BY <1>1, <1>11
  <2>2. Least(c, B + M) + Least(AtLeast0(c - (B + M)), b) = Least(c, B + b + M)
    BY <1>2, <1>3, NextLot
  <2>3. F + Least(c, B) = Least(c, B + M) /\ Least(c, B) \in Nat
    BY <1>2, <1>3, <1>4, <1>11 DEF Least, AtLeast0
  <2>4. Least(AtLeast0(c - (B + M)), b) \in Nat
    BY <1>2, <1>3 DEF Least, AtLeast0
  <2>5. TakenBy(w, c, n) = Least(c, B + b + M) - F /\ TakenBy(w, c, n - 1) = Least(c, B + 0) - 0
        /\ FromBonus(w, c, n) = Least(AtLeast0(c - (B + M)), b)
    BY <1>6, <1>7, <1>8, <2>1
  <2>6. B + 0 = B
    BY <1>2
  <2>7. TakenBy(w, c, n) = TakenBy(w, c, n - 1) + FromBonus(w, c, n)
    BY <1>4, <2>2, <2>3, <2>4, <2>5, <2>6
  <2>. QED BY <1>9, <2>7 DEF b
<1>12. CASE P > n
  <2>1. ~ (P <= n) /\ ~ (P <= n - 1)
    BY <1>1, <1>12
  <2>2. Least(c, B + 0) + Least(AtLeast0(c - (B + 0)), b) = Least(c, B + b + 0)
    BY <1>2 DEF Least, AtLeast0
  <2>3. Least(c, B + 0) \in Nat /\ Least(AtLeast0(c - (B + 0)), b) \in Nat
    BY <1>2 DEF Least, AtLeast0
  <2>4. TakenBy(w, c, n) = Least(c, B + b + 0) - 0 /\ TakenBy(w, c, n - 1) = Least(c, B + 0) - 0
        /\ FromBonus(w, c, n) = Least(AtLeast0(c - (B + 0)), b)
    BY <1>6, <1>7, <1>8, <2>1
  <2>5. TakenBy(w, c, n) = TakenBy(w, c, n - 1) + FromBonus(w, c, n)
    BY <2>2, <2>3, <2>4
  <2>. QED BY <1>9, <2>5 DEF b
<1>. QED BY <1>1, <1>10, <1>11, <1>12

\* The lots that a spending leaves.
LEMMA BonusSpent ==
  ASSUME NEW w, Fits(w), NEW c \in Nat
  PROVE  /\ Spent(w, c).bonus \in [Instants -> Nat]
         /\ \A n \in 0 .. Horizon :
              BonusBy(Spent(w, c))[n] = BonusBy(w)[n] - TakenBy(w, c, n)
<1> DEFINE v == Spent(w, c)
           T == {n \in 0 .. Horizon : BonusBy(v)[n] = BonusBy(w)[n] - TakenBy(w, c, n)}
<1>1. w.bonus \in [Instants -> Nat] /\ Horizon \in Nat
  BY WalletAssumption DEF Fits, WalletRows
<1>2. v.bonus = [e \in Instants |-> w.bonus[e] - FromBonus(w, c, e)]
  BY DEF Fits, WalletRows, Spent
<1>3. v.bonus \in [Instants -> Nat]
  <2>1. ASSUME NEW e \in Instants PROVE w.bonus[e] - FromBonus(w, c, e) \in Nat
    <3>1. FromBonus(w, c, e) \in Nat /\ FromBonus(w, c, e) <= w.bonus[e]
      BY LotPart
    <3>. QED BY <1>1, <3>1
  <2>. QED BY <1>2, <2>1
<1> HIDE DEF v
<1>4. 0 \in T
  <2>1. BonusBy(v)[0] = 0 /\ BonusBy(w)[0] = 0
    BY <1>1, <1>3, BonusUnfolds
  <2>2. ~ (w.periodEnd <= 0)
    BY DEF Fits, WalletRows
  <2>3. TakenBy(w, c, 0) = 0
    BY <2>1, <2>2 DEF TakenBy, Least
  <2>. QED BY <1>1, <2>1, <2>3
<1>5. ASSUME NEW n \in Instants, n - 1 \in T PROVE n \in T
  <2>1. BonusBy(w)[n] = BonusBy(w)[n - 1] + w.bonus[n] /\ w.bonus[n] \in Nat
    BY <1>1, BonusUnfolds
  <2>2. BonusBy(v)[n] = BonusBy(v)[n - 1] + v.bonus[n]
    BY <1>3, BonusUnfolds
  <2>3. v.bonus[n] = w.bonus[n] - FromBonus(w, c, n)
    BY <1>2
  <2>4. TakenBy(w, c, n) = TakenBy(w, c, n - 1) + FromBonus(w, c, n) /\ FromBonus(w, c, n) \in Nat
    BY LotPart
  <2>5. BonusBy(v)[n - 1] = BonusBy(w)[n - 1] - TakenBy(w, c, n - 1)
    BY <1>5
  <2>6. n \in 0 .. Horizon /\ n - 1 \in 0 .. Horizon
    BY <1>1 DEF Instants
  <2>7. BonusBy(w)[n - 1] \in Nat /\ BonusBy(v)[n - 1] \in Nat
    BY <1>1, <1>3, <2>6, BonusIsNat
  <2>8. TakenBy(w, c, n - 1) \in Int
    <3>1. FromMonthly(w, c) \in Nat /\ w.balance \in Nat /\ w.addon \in Nat
      BY MonthlyPart DEF Fits, WalletRows
    <3>2. Least(c, BonusBy(w)[n - 1] + (IF w.periodEnd <= n - 1 THEN w.balance - w.addon ELSE 0)) \in Int
      BY <2>7, <3>1 DEF Least
    <3>. QED BY <3>1, <3>2 DEF TakenBy
  <2>9. BonusBy(v)[n] = BonusBy(w)[n] - TakenBy(w, c, n)
    <3> DEFINE p == BonusBy(v)[n - 1]
               q == BonusBy(w)[n - 1]
               t == TakenBy(w, c, n - 1)
               f == FromBonus(w, c, n)
               b == w.bonus[n]
    <3>1. p = q - t /\ BonusBy(w)[n] = q + b /\ BonusBy(v)[n] = p + (b - f) /\ TakenBy(w, c, n) = t + f
      BY <2>1, <2>2, <2>3, <2>4, <2>5
    <3>2. q \in Int /\ t \in Int /\ f \in Int /\ b \in Int
      BY <2>1, <2>4, <2>7, <2>8
    <3> HIDE DEF p, q, t, f, b
    <3>. QED BY <3>1, <3>2
  <2>. QED BY <2>6, <2>9
<1> HIDE DEF T
<1>6. T = 0 .. Horizon
  <2>1. T \subseteq 0 .. Horizon
    BY DEF T
  <2>. QED BY <1>4, <1>5, <2>1, DatesByInduction
<1>. QED BY <1>3, <1>6 DEF T, v

\* The arithmetic of a spending, when s comes out of the promotions and f
\* out of the month.
LEMMA KindsAfterSpending ==
  ASSUME NEW balance \in Nat, NEW addon \in Nat, NEW bonus \in Nat, NEW c \in Nat,
         NEW f \in Nat, NEW s \in Int, bonus - s \in Nat,
         bonus <= addon, addon <= balance, c <= balance,
         f <= c, f <= balance - addon, f + s = Least(c, bonus + (balance - addon))
  PROVE  /\ AtLeast0(addon - (c - f)) \in Nat
         /\ bonus - s <= AtLeast0(addon - (c - f))
         /\ AtLeast0(addon - (c - f)) <= balance - c
         /\ (addon - bonus) - (AtLeast0(addon - (c - f)) - (bonus - s)) \in Nat
BY DEF Least, AtLeast0

LEMMA SpentFits ==
  ASSUME NEW w, Fits(w), NEW c \in Nat, c <= w.balance
  PROVE  /\ Fits(Spent(w, c))
         /\ Spent(w, c).balance = w.balance - c
         /\ Saved(w) - Saved(Spent(w, c)) \in Nat
         /\ \A x \in {"periodEnd", "drops", "rewards", "granted", "cycles"} :
              Spent(w, c)[x] = w[x]
<1> DEFINE v == Spent(w, c)
           f == FromMonthly(w, c)
           s == TakenBy(w, c, Horizon)
           M == w.balance - w.addon
           R == TotalBonus(w)
<1>0. Horizon \in 0 .. Horizon /\ Horizon \in Nat
  BY WalletAssumption
<1>1. /\ w.balance \in Nat /\ w.addon \in Nat /\ R <= w.addon /\ w.addon <= w.balance
      /\ w.periodEnd \in Nat /\ w.bonus \in [Instants -> Nat]
  BY DEF Fits, WalletRows
<1>2. R \in Nat
  BY <1>0, <1>1, BonusIsNat DEF TotalBonus
<1>3. /\ f \in Nat /\ f <= c /\ f <= M
      /\ w.periodEnd > Horizon => f = Least(AtLeast0(c - R), M)
  BY MonthlyPart
<1>4. TotalBonus(v) = R - s /\ v.bonus \in [Instants -> Nat]
  BY <1>0, BonusSpent DEF TotalBonus
<1>5. TotalBonus(v) \in Nat
  BY <1>0, <1>4, BonusIsNat DEF TotalBonus
<1>6. s = Least(c, R + (IF w.periodEnd <= Horizon THEN M ELSE 0)) - (IF w.periodEnd <= Horizon THEN f ELSE 0)
  BY DEF TakenBy, TotalBonus
<1>7. v = [w EXCEPT !.balance = w.balance - c, !.addon = AtLeast0(w.addon - (c - f)),
                    !.bonus = v.bonus, !.recorded = w.recorded - c]
  BY DEF Fits, WalletRows, Spent
<1>8. w \in WalletRows /\ w.recorded = w.balance
  BY DEF Fits
<1>9. Saved(w) - Saved(v) = (w.addon - R) - (v.addon - TotalBonus(v))
  BY DEF Saved
<1> HIDE DEF v, f, s, M, R
<1>10. M \in Nat /\ M = w.balance - w.addon
  BY <1>1 DEF M
<1>11. s \in Int /\ f + s = Least(c, R + M)
  <2>1. CASE w.periodEnd <= Horizon
    BY <1>2, <1>3, <1>6, <1>10, <2>1 DEF Least
  <2>2. CASE w.periodEnd > Horizon
    <3>1. f = Least(AtLeast0(c - R), M)
      BY <1>3, <2>2
    <3>2. s = Least(c, R + 0) - 0
      BY <1>0, <1>1, <1>6, <2>2
    <3>. QED BY <1>2, <1>10, <3>1, <3>2 DEF Least, AtLeast0
  <2>. QED BY <1>0, <1>1, <2>1, <2>2
<1>12. /\ AtLeast0(w.addon - (c - f)) \in Nat
       /\ R - s <= AtLeast0(w.addon - (c - f))
       /\ AtLeast0(w.addon - (c - f)) <= w.balance - c
       /\ (w.addon - R) - (AtLeast0(w.addon - (c - f)) - (R - s)) \in Nat
  <2>1. R - s \in Nat /\ f <= w.balance - w.addon
    BY <1>3, <1>4, <1>5, <1>10
  <2>2. f + s = Least(c, R + (w.balance - w.addon))
    BY <1>10, <1>11
  <2>. QED BY <1>1, <1>2, <1>3, <1>11, <2>1, <2>2, KindsAfterSpending
<1>13. /\ v.balance = w.balance - c /\ v.addon = AtLeast0(w.addon - (c - f)) /\ v.recorded = w.recorded - c
       /\ v.balance \in Nat
  <2>1. v.balance = w.balance - c /\ v.recorded = w.recorded - c
    BY <1>7, <1>8 DEF WalletRows
  <2>2. v.addon = AtLeast0(w.addon - (c - f))
    BY <1>7, <1>8 DEF WalletRows
  <2>. QED BY <1>1, <2>1, <2>2
<1>14. v \in WalletRows
  <2>1. w.balance - c \in Nat /\ w.recorded - c \in Int
    BY <1>1, <1>8
  <2>. QED BY <1>4, <1>7, <1>8, <1>12, <2>1 DEF WalletRows
<1>15. Fits(v)
  BY <1>1, <1>4, <1>8, <1>12, <1>13, <1>14 DEF Fits
<1>16. Saved(w) - Saved(v) \in Nat
  BY <1>4, <1>9, <1>12, <1>13
<1>17. \A x \in {"periodEnd", "drops", "rewards", "granted", "cycles"} : v[x] = w[x]
  BY <1>7, <1>8 DEF WalletRows
<1>. QED BY <1>13, <1>15, <1>16, <1>17 DEF v

\* What a transaction finds after the promotions that fell due.
LEMMA SweptFits ==
  ASSUME Fits(wallet), now \in 0 .. Horizon
  PROVE  /\ Fits(Swept) /\ Due(wallet) \in Nat /\ Due(wallet) <= wallet.balance
         /\ Swept.balance = wallet.balance - Due(wallet)
         /\ Saved(Swept) = Saved(wallet)
         /\ \A x \in {"periodEnd", "drops", "rewards", "granted", "cycles"} :
              Swept[x] = wallet[x]
<1> DEFINE D == Due(wallet)
           v == Swept
<1>0. Horizon \in 0 .. Horizon /\ Horizon \in Nat
  BY WalletAssumption
<1>1. /\ wallet \in WalletRows /\ TotalBonus(wallet) <= wallet.addon /\ wallet.addon <= wallet.balance
      /\ wallet.recorded = wallet.balance
  BY DEF Fits
<1>2. /\ wallet.bonus \in [Instants -> Nat] /\ wallet.balance \in Nat /\ wallet.addon \in Nat
  BY <1>1 DEF WalletRows
<1>3. D \in Nat /\ TotalBonus(wallet) \in Nat /\ D <= TotalBonus(wallet)
  BY <1>0, <1>2, BonusIsNat, BonusGrows DEF Due, TotalBonus
<1>4. v = [wallet EXCEPT !.balance = wallet.balance - D, !.addon = wallet.addon - D,
             !.bonus = [e \in Instants |-> IF e <= now THEN 0 ELSE wallet.bonus[e]],
             !.recorded = wallet.recorded - D]
  BY <1>1 DEF Swept, WalletRows
<1>5. v.bonus = [e \in Instants |-> IF e <= now THEN 0 ELSE wallet.bonus[e]]
  BY <1>1, <1>4 DEF WalletRows
<1>6. TotalBonus(v) = TotalBonus(wallet) - D
  <2> HIDE DEF v
  <2>1. BonusBy(v)[Horizon] = IF Horizon <= now THEN 0 ELSE BonusBy(wallet)[Horizon] - BonusBy(wallet)[now]
    BY <1>0, <1>2, <1>5, BonusSwept
  <2>2. Horizon <= now => Horizon = now
    BY <1>0
  <2>. QED BY <1>3, <2>1, <2>2 DEF TotalBonus, Due
<1>7. v.bonus \in [Instants -> Nat]
  BY <1>2, <1>5
<1> HIDE DEF v, D
<1>8. wallet.balance - D \in Nat /\ wallet.addon - D \in Nat /\ wallet.recorded - D \in Int
  BY <1>1, <1>2, <1>3
<1>9. v \in WalletRows
  BY <1>1, <1>4, <1>5, <1>7, <1>8 DEF WalletRows
<1>10. /\ v.balance = wallet.balance - D /\ v.addon = wallet.addon - D /\ v.recorded = wallet.recorded - D
       /\ \A x \in {"periodEnd", "drops", "rewards", "granted", "cycles"} : v[x] = wallet[x]
  BY <1>1, <1>4 DEF WalletRows
<1>11. Fits(v)
  BY <1>1, <1>2, <1>3, <1>6, <1>9, <1>10 DEF Fits
<1>12. Saved(v) = Saved(wallet)
  BY <1>2, <1>3, <1>6, <1>10 DEF Saved
<1>. QED BY <1>1, <1>2, <1>3, <1>10, <1>11, <1>12 DEF v, D

-----------------------------------------------------------------------------
(* The inductive invariant, in three parts: the wallet and what was taken  *)
(* out of it, the holds and calls, the clock.                              *)

SavedBy(u) == [r \in Refs |-> IF u[r] = None THEN 0 ELSE u[r].saved]
GivenBack(u, S) ==
  [r \in Refs |-> IF r \in S THEN Least(u[r].amount, u[r].addon) ELSE 0]

Money ==
  /\ Fits(wallet)
  /\ usage \in [Refs -> UsageRows \cup {None}]
  /\ refunded \subseteq Draws /\ \A r \in refunded : usage[r] # None
  /\ lost \in Nat
  /\ SavedIsAccountedFor
HoldRows ==
  [status : {"none", "active", "released", "settled"}, credits : Nat, expires : Nat]
Work ==
  /\ hold \in [Refs -> HoldRows]
  /\ \A r \in Refs : hold[r].status = "settled" => hold[r].credits = 0
  /\ call \in [Replies -> [pc : {"idle", "clamp", "done"}, ask : Nat,
                           attempt : 0 .. MaxClamps - 1]]
Clock ==
  /\ now \in 0 .. Horizon
  /\ seen \in [Visitors -> Nat \cup {None}]
  /\ \A v \in Visitors : seen[v] # None => seen[v] <= now
Sound == Money /\ Work /\ Clock

\* The promise holds for all amounts, so the ledger is taken over Nat.
MappedHold == [r \in Refs |-> AsHeld(hold[r])]
MappedCharge == [r \in Refs |-> IF usage[r] = None THEN None ELSE usage[r].amount]
Promise == INSTANCE CreditLedgerProofs WITH
  Credits <- Nat, balance <- wallet.balance, hold <- MappedHold, charge <- MappedCharge

\* The two sides of the account of saved credits.
Accounted(w, u, S) ==
  Saved(w) + SumFunctionOnSet(SavedBy(u), Refs)
    = w.granted + SumFunctionOnSet(GivenBack(u, S), Refs)
LEMMA AccountIs ==
  /\ SavedIsAccountedFor <=> Accounted(wallet, usage, refunded)
  /\ SavedIsAccountedFor' <=> Accounted(wallet', usage', refunded')
<1>1. SavedIsAccountedFor <=> Accounted(wallet, usage, refunded)
  BY Zenon DEF SavedIsAccountedFor, Accounted, SavedBy, GivenBack, PutBack
<1>2. SavedIsAccountedFor' <=> Accounted(wallet', usage', refunded')
  BY Zenon DEF SavedIsAccountedFor, Accounted, SavedBy, GivenBack, PutBack, Saved, TotalBonus, BonusBy
<1>. QED BY <1>1, <1>2

LEMMA SumsTyped ==
  ASSUME NEW u \in [Refs -> UsageRows \cup {None}], NEW S \in SUBSET Refs,
         \A r \in S : u[r] # None
  PROVE  /\ \A r \in Refs : SavedBy(u)[r] \in Nat /\ GivenBack(u, S)[r] \in Nat
         /\ SumFunctionOnSet(SavedBy(u), Refs) \in Nat
         /\ SumFunctionOnSet(GivenBack(u, S), Refs) \in Nat
<1>1. IsFiniteSet(Refs)
  BY WalletAssumption
<1>2. ASSUME NEW r \in Refs PROVE SavedBy(u)[r] \in Nat /\ GivenBack(u, S)[r] \in Nat
  BY DEF SavedBy, GivenBack, UsageRows, Least
<1>3. SumFunctionOnSet(SavedBy(u), Refs) \in Nat /\ SumFunctionOnSet(GivenBack(u, S), Refs) \in Nat
  BY <1>1, <1>2, SumIsNat
<1>. QED BY <1>2, <1>3

LEMMA SavedIsNat ==
  ASSUME NEW w, Fits(w)
  PROVE  Saved(w) \in Nat /\ TotalBonus(w) \in Nat
<1>1. w.bonus \in [Instants -> Nat] /\ w.addon \in Nat /\ TotalBonus(w) <= w.addon
  BY DEF Fits, WalletRows
<1>2. TotalBonus(w) \in Nat
  BY <1>1, BonusIsNat, WalletAssumption DEF TotalBonus
<1>. QED BY <1>1, <1>2 DEF Saved

\* What is held is a natural number.
LEMMA HeldIsNat ==
  ASSUME Work, NEW S \in SUBSET Refs
  PROVE  Held(S) \in Nat
<1> DEFINE f == [r \in Refs |-> hold[r].credits]
           A == {r \in S : Active(r)}
<1>1. A \subseteq Refs
  OBVIOUS
<1>2. IsFiniteSet(A)
  BY <1>1, WalletAssumption, FS_Subset
<1>3. \A r \in A : f[r] \in Nat
  BY <1>1 DEF Work, HoldRows
<1>4. Held(S) = SumFunctionOnSet(f, A)
  BY DEF Held
<1> HIDE DEF f, A
<1>. QED BY <1>2, <1>3, <1>4, SumIsNat

-----------------------------------------------------------------------------
(* Transactions that sweep, and those that take something out.             *)

LEMMA SweepsMoney ==
  ASSUME Money, now \in 0 .. Horizon, Commits(Swept), UNCHANGED <<usage, refunded>>
  PROVE  Money' /\ wallet'.cycles = wallet.cycles
<1>1. Fits(wallet) /\ Fits(Swept) /\ Saved(Swept) = Saved(wallet) /\ Due(wallet) \in Nat
      /\ Swept.granted = wallet.granted /\ Swept.cycles = wallet.cycles
  BY SweptFits DEF Money
<1>2. wallet' = Swept /\ lost' = lost + Due(wallet)
  BY DEF Commits
<1> HIDE DEF Swept
<1>3. Accounted(wallet', usage', refunded')
  BY <1>1, <1>2, AccountIs DEF Accounted, Money
<1>4. SavedIsAccountedFor'
  BY <1>3, AccountIs
<1>5. Fits(wallet')
  BY <1>1, <1>2
<1>6. Fits(wallet)'
  BY <1>5 DEF Fits, TotalBonus, BonusBy
<1>7. lost' \in Nat
  BY <1>1, <1>2 DEF Money
<1>. QED BY <1>1, <1>2, <1>4, <1>6, <1>7 DEF Money

\* The fit of a row does not depend on the state.
LEMMA FitsIs == Fits(wallet)' <=> Fits(wallet')
BY DEF Fits, TotalBonus, BonusBy

Paid(r, c) ==
  /\ usage[r] = None /\ c <= Swept.balance
  /\ Commits(Spent(Swept, c))
  /\ usage' = [usage EXCEPT ![r] = UsageRow(Swept, c)]

LEMMA PaysMoney ==
  ASSUME Money, now \in 0 .. Horizon, NEW r \in Refs, NEW c \in Nat \ {0},
         Paid(r, c), UNCHANGED refunded
  PROVE  /\ Money' /\ wallet'.cycles = wallet.cycles
         /\ UsageRow(Swept, c) \in UsageRows /\ UsageRow(Swept, c).amount = c
         /\ wallet'.balance = Swept.balance - c
<1> DEFINE w == Swept
           v == Spent(Swept, c)
           row == UsageRow(Swept, c)
<1>1. Fits(w) /\ Saved(w) = Saved(wallet) /\ Due(wallet) \in Nat
      /\ w.granted = wallet.granted /\ w.cycles = wallet.cycles
  BY SweptFits DEF Money
<1>2. c \in Nat /\ c <= w.balance /\ wallet' = v /\ lost' = lost + Due(wallet)
      /\ usage' = [usage EXCEPT ![r] = row] /\ usage[r] = None
  BY DEF Paid, Commits
<1>3. row = [amount |-> c, saved |-> Saved(w) - Saved(v),
             addon |-> AtLeast0(wallet.addon - v.addon)]
  BY DEF UsageRow
<1> HIDE DEF w, row
<1>4. Fits(v) /\ v.balance = w.balance - c /\ Saved(w) - Saved(v) \in Nat
      /\ v.granted = w.granted /\ v.cycles = w.cycles
  BY <1>1, <1>2, SpentFits DEF w
<1> HIDE DEF v
<1>5. row \in UsageRows /\ row # None /\ row.amount = c /\ row.saved = Saved(w) - Saved(v)
  <2>1. AtLeast0(wallet.addon - v.addon) \in Nat
    BY <1>4 DEF AtLeast0, Fits, WalletRows, Money
  <2>. QED BY <1>3, <1>4, <2>1, WalletAssumption DEF UsageRows
<1>6. /\ usage \in [Refs -> UsageRows \cup {None}] /\ usage' \in [Refs -> UsageRows \cup {None}]
      /\ refunded \in SUBSET Refs /\ r \notin refunded
      /\ \A q \in refunded : usage[q] # None /\ usage'[q] # None
  BY <1>2, <1>5 DEF Money, Refs
<1>7. IsFiniteSet(Refs)
  BY WalletAssumption
<1>8. SumFunctionOnSet(SavedBy(usage'), Refs) = SumFunctionOnSet(SavedBy(usage), Refs) + row.saved
  <2>1. \A q \in Refs : SavedBy(usage)[q] \in Nat /\ SavedBy(usage')[q] \in Nat
    BY <1>6, SumsTyped
  <2>2. \A q \in Refs \ {r} : SavedBy(usage')[q] = SavedBy(usage)[q]
    BY <1>2, <1>6 DEF SavedBy
  <2>3. SavedBy(usage)[r] = 0 /\ SavedBy(usage')[r] = row.saved
    BY <1>2, <1>5, <1>6 DEF SavedBy
  <2>4. /\ SumFunctionOnSet(SavedBy(usage), Refs) \in Nat
        /\ SumFunctionOnSet(SavedBy(usage'), Refs) \in Nat
        /\ SumFunctionOnSet(SavedBy(usage'), Refs) + SavedBy(usage)[r]
             = SumFunctionOnSet(SavedBy(usage), Refs) + SavedBy(usage')[r]
    BY <1>7, <2>1, <2>2, SumChanges
  <2>. QED BY <2>3, <2>4
<1>9. SumFunctionOnSet(GivenBack(usage', refunded), Refs) = SumFunctionOnSet(GivenBack(usage, refunded), Refs)
  <2>1. \A q \in Refs : GivenBack(usage, refunded)[q] \in Nat
                        /\ GivenBack(usage', refunded)[q] = GivenBack(usage, refunded)[q]
    <3>1. \A q \in Refs : GivenBack(usage, refunded)[q] \in Nat
      BY <1>6, SumsTyped
    <3>2. \A q \in Refs : q \in refunded => usage'[q] = usage[q]
      BY <1>2, <1>6
    <3>3. \A q \in Refs : GivenBack(usage', refunded)[q] = GivenBack(usage, refunded)[q]
      BY <3>2 DEF GivenBack
    <3>. QED BY <3>1, <3>3
  <2>. QED BY <1>7, <2>1, SumOfEqual
<1>10. SavedIsAccountedFor'
  <2>1. Saved(w) \in Nat /\ Saved(v) \in Nat
    BY <1>1, <1>4, SavedIsNat
  <2>2. /\ SumFunctionOnSet(SavedBy(usage), Refs) \in Nat
        /\ SumFunctionOnSet(GivenBack(usage, refunded), Refs) \in Nat
    BY <1>6, SumsTyped
  <2>3. Saved(w) + SumFunctionOnSet(SavedBy(usage), Refs)
          = w.granted + SumFunctionOnSet(GivenBack(usage, refunded), Refs)
    BY <1>1, AccountIs DEF Accounted, Money
  <2>4. Saved(v) + SumFunctionOnSet(SavedBy(usage'), Refs)
          = v.granted + SumFunctionOnSet(GivenBack(usage', refunded), Refs)
    BY <1>4, <1>5, <1>8, <1>9, <2>1, <2>2, <2>3
  <2>. QED BY <1>2, <2>4, AccountIs DEF Accounted
<1>11. lost' \in Nat
  BY <1>1, <1>2 DEF Money
<1>12. Money'
  BY <1>2, <1>4, <1>6, <1>10, <1>11, FitsIs DEF Money
<1>. QED BY <1>1, <1>2, <1>4, <1>5, <1>12 DEF w, row

\* What leaves the wallet and its rows alone.
LEMMA KeepsMoney ==
  ASSUME Money, UNCHANGED <<wallet, usage, refunded, lost>>
  PROVE  Money' /\ wallet'.cycles = wallet.cycles
<1>1. SavedIsAccountedFor'
  BY AccountIs DEF Money
<1>. QED BY <1>1, FitsIs DEF Money

\* What adds to the wallet, and leaves the account of what is saved as it is.
LEMMA AddsMoney ==
  ASSUME Money, UNCHANGED <<usage, refunded>>, Fits(wallet'), lost' \in Nat,
         Saved(wallet') - Saved(wallet) = wallet'.granted - wallet.granted
  PROVE  Money'
<1>1. Accounted(wallet, usage, refunded) /\ Fits(wallet) /\ wallet.granted \in Int
  BY AccountIs DEF Money, Fits, WalletRows
<1>2. wallet'.granted \in Int /\ wallet.granted \in Int
  BY <1>1, WalletAssumption DEF Fits, WalletRows
<1>3. Saved(wallet) \in Nat /\ Saved(wallet') \in Nat
  BY <1>1, SavedIsNat
<1>4. /\ SumFunctionOnSet(SavedBy(usage), Refs) \in Nat
      /\ SumFunctionOnSet(GivenBack(usage, refunded), Refs) \in Nat
  BY SumsTyped DEF Money, Refs
<1>5. Accounted(wallet', usage', refunded')
  BY <1>1, <1>2, <1>3, <1>4 DEF Accounted
<1>. QED BY <1>5, AccountIs, FitsIs DEF Money

-----------------------------------------------------------------------------
(* The actions.                                                            *)

\* What OneGrantPerCycle says of a step.
Grants == wallet'.cycles # wallet.cycles => wallet'.periodEnd > wallet.periodEnd

\* The constants, typed.
LEMMA ConstantsTyped ==
  /\ IsFiniteSet(Refs) /\ Costs \subseteq Nat /\ Price \in Nat \ {0}
  /\ Horizon \in Nat \ {0} /\ Lease \in Nat \ {0} /\ Period \in Nat \ {0}
  /\ DropDay \in Nat /\ Opening \in Nat /\ Grant \in Nat /\ Drop \in Nat /\ MaxGifts \in Nat
  /\ None \notin Nat /\ None \notin UsageRows
BY WalletAssumption

\* What a hold leaves is there to be taken.
LEMMA Affordable ==
  ASSUME Sound, NEW c \in Nat, NEW S \in SUBSET Refs, c + Held(S) <= Swept.balance
  PROVE  c <= Swept.balance
<1>1. Held(S) \in Nat
  BY HeldIsNat DEF Sound
<1>2. Swept.balance \in Nat
  BY SweptFits DEF Sound, Money, Clock, Fits, WalletRows
<1>. QED BY <1>1, <1>2

LEMMA OneHoldSound ==
  ASSUME Work, NEW r \in Refs, NEW k \in HoldRows, k.status = "settled" => k.credits = 0,
         hold' = [hold EXCEPT ![r] = k]
  PROVE  /\ hold' \in [Refs -> HoldRows]
         /\ \A q \in Refs : hold'[q].status = "settled" => hold'[q].credits = 0
BY DEF Work

LEMMA ReserveSound ==
  ASSUME Sound, NEW r \in Steps, NEW c \in Costs, Reserve(r, c)
  PROVE  Sound' /\ Grants
<1>1. Money' /\ Grants
  BY SweepsMoney DEF Sound, Reserve, Clock, Grants
<1>2. Work'
  <2> DEFINE k == [status |-> "active", credits |-> c, expires |-> now + Lease]
  <2>1. k \in HoldRows /\ k.status # "settled"
    BY ConstantsTyped DEF HoldRows, Sound, Clock
  <2>2. hold' = [hold EXCEPT ![r] = k] /\ r \in Refs
    BY DEF Reserve, Refs
  <2> HIDE DEF k
  <2>. QED BY <2>1, <2>2, OneHoldSound DEF Sound, Work, Reserve
<1>3. Clock'
  BY DEF Sound, Clock, Reserve
<1>. QED BY <1>1, <1>2, <1>3 DEF Sound

LEMMA RenewSound ==
  ASSUME Sound, NEW r \in Steps, Renew(r)
  PROVE  Sound' /\ Grants
<1>1. Money' /\ Grants
  BY SweepsMoney DEF Sound, Renew, Clock, Grants
<1>2. Work'
  <2>1. CASE hold' = hold
    BY <2>1 DEF Sound, Work, Renew
  <2>2. CASE hold' = [hold EXCEPT ![r].expires = now + Lease]
    <3> DEFINE k == [hold[r] EXCEPT !.expires = now + Lease]
    <3>1. now + Lease \in Nat /\ hold[r] \in HoldRows /\ r \in Refs
      BY ConstantsTyped DEF Sound, Clock, Work, Refs
    <3>2. k \in HoldRows /\ k.status = hold[r].status /\ k.credits = hold[r].credits
      BY <3>1 DEF HoldRows
    <3>3. hold' = [hold EXCEPT ![r] = k]
      BY <2>2
    <3>4. k.status = "settled" => k.credits = 0
      BY <3>1, <3>2 DEF Sound, Work
    <3> HIDE DEF k
    <3>. QED BY <3>1, <3>2, <3>3, <3>4, OneHoldSound DEF Sound, Work, Renew
  <2>. QED BY <2>1, <2>2 DEF Renew
<1>3. Clock'
  BY DEF Sound, Clock, Renew
<1>. QED BY <1>1, <1>2, <1>3 DEF Sound

LEMMA EndedHold ==
  /\ Ended("released") \in HoldRows /\ Ended("released").credits = 0
  /\ Ended("settled") \in HoldRows /\ Ended("settled").credits = 0
  /\ Ended("released").status = "released" /\ Ended("settled").status = "settled"
BY DEF Ended, HoldRows

LEMMA ReleaseSound ==
  ASSUME Sound, NEW r \in Steps, Release(r)
  PROVE  Sound' /\ Grants
<1>1. Money' /\ Grants
  BY KeepsMoney DEF Sound, Release, Grants
<1>2. Work'
  <2>1. hold' = [hold EXCEPT ![r] = Ended("released")] /\ r \in Refs
    BY DEF Release, Refs
  <2>. QED BY <2>1, EndedHold, OneHoldSound DEF Sound, Work, Release
<1>3. Clock'
  BY DEF Sound, Clock, Release
<1>. QED BY <1>1, <1>2, <1>3 DEF Sound

LEMMA SettleSound ==
  ASSUME Sound, NEW r \in Steps, NEW c \in Costs, Settle(r, c)
  PROVE  Sound' /\ Grants
<1>1. Money' /\ Grants
  <2>1. CASE Commits(Swept) /\ UNCHANGED usage
    BY <2>1, SweepsMoney DEF Sound, Settle, Clock, Grants
  <2>2. CASE /\ usage[r] = None /\ c > 0
             /\ c + HeldForOthers(r) <= Swept.balance
             /\ Commits(Spent(Swept, c))
             /\ usage' = [usage EXCEPT ![r] = UsageRow(Swept, c)]
    <3>1. c \in Nat \ {0} /\ r \in Refs
      BY <2>2, ConstantsTyped DEF Refs
    <3>2. c <= Swept.balance
      BY <2>2, <3>1, Affordable DEF HeldForOthers
    <3>. QED BY <2>2, <3>1, <3>2, PaysMoney DEF Sound, Settle, Clock, Grants, Paid
  <2>. QED BY <2>1, <2>2 DEF Settle
<1>2. Work'
  <2>1. hold' = [hold EXCEPT ![r] = Ended("settled")] /\ r \in Refs
    BY DEF Settle, Refs
  <2>. QED BY <2>1, EndedHold, OneHoldSound DEF Sound, Work, Settle
<1>3. Clock'
  BY DEF Sound, Clock, Settle
<1>. QED BY <1>1, <1>2, <1>3 DEF Sound

\* A deduction, whether it charges or finds the charge.
LEMMA ChargesMoney ==
  ASSUME Sound, NEW r \in Refs, NEW c \in Nat, Charges(r, c), UNCHANGED refunded
  PROVE  Money' /\ Grants
<1>1. CASE Commits(Swept) /\ UNCHANGED usage
  BY <1>1, SweepsMoney DEF Sound, Clock, Grants
<1>2. CASE /\ usage[r] = None
           /\ c + Held(Refs) <= Swept.balance
           /\ Commits(Spent(Swept, c))
           /\ usage' = [usage EXCEPT ![r] = UsageRow(Swept, c)]
  <2>1. c \in Nat \ {0}
    BY DEF Charges
  <2>2. c <= Swept.balance
    BY <1>2, Affordable
  <2>. QED BY <1>2, <2>1, <2>2, PaysMoney DEF Sound, Clock, Grants, Paid
<1>. QED BY <1>1, <1>2 DEF Charges

LEMMA DeductStepSound ==
  ASSUME Sound, NEW r \in Steps, NEW c \in Costs, DeductStep(r, c)
  PROVE  Sound' /\ Grants
<1>1. Money' /\ Grants
  BY ChargesMoney, ConstantsTyped DEF DeductStep, Refs
<1>2. Work' /\ Clock'
  BY DEF Sound, Work, Clock, DeductStep
<1>. QED BY <1>1, <1>2 DEF Sound

LEMMA DrawSound ==
  ASSUME Sound, NEW r \in Draws, Draw(r)
  PROVE  Sound' /\ Grants
<1>1. Money' /\ Grants
  BY ChargesMoney, ConstantsTyped DEF Draw, Refs
<1>2. Work' /\ Clock'
  BY DEF Sound, Work, Clock, Draw
<1>. QED BY <1>1, <1>2 DEF Sound

LEMMA AvailableIsNat == Sound => Available \in Nat
<1> SUFFICES ASSUME Sound PROVE Available \in Nat
  OBVIOUS
<1>1. Held(Refs) \in Nat
  BY HeldIsNat DEF Sound
<1>2. Swept.balance \in Nat
  BY SweptFits DEF Sound, Money, Clock, Fits, WalletRows
<1>. QED BY <1>1, <1>2 DEF Available, AtLeast0

LEMMA AsksSound ==
  ASSUME Work, NEW r \in Replies, NEW pc \in {"idle", "clamp", "done"}, NEW a \in Nat,
         NEW n \in 0 .. MaxClamps - 1, Asks(r, pc, a, n), UNCHANGED hold
  PROVE  Work'
BY DEF Work, Asks

LEMMA ChargeReplySound ==
  ASSUME Sound, NEW r \in Replies, NEW c \in Costs, ChargeReply(r, c)
  PROVE  Sound' /\ Grants
<1>0. r \in Refs /\ c \in Nat /\ 0 \in 0 .. MaxClamps - 1 /\ 0 \in Nat
  BY ConstantsTyped DEF Refs, MaxClamps
<1>1. CASE Charges(r, c) /\ Asks(r, "done", 0, 0)
  <2>1. Money' /\ Grants
    BY <1>0, <1>1, ChargesMoney DEF ChargeReply
  <2>2. Work'
    BY <1>0, <1>1, AsksSound DEF Sound, ChargeReply
  <2>. QED BY <2>1, <2>2 DEF Sound, Clock, ChargeReply
<1>2. CASE /\ UNCHANGED <<wallet, usage, lost>>
           /\ Asks(r, "clamp", Available, 0) \/ Asks(r, "done", 0, 0)
  <2>1. Money' /\ Grants
    BY <1>2, KeepsMoney DEF Sound, ChargeReply, Grants
  <2>2. Work'
    BY <1>0, <1>2, AsksSound, AvailableIsNat DEF Sound, ChargeReply
  <2>. QED BY <2>1, <2>2 DEF Sound, Clock, ChargeReply
<1>. QED BY <1>1, <1>2 DEF ChargeReply

LEMMA ClampSound ==
  ASSUME Sound, NEW r \in Replies, Clamp(r)
  PROVE  Sound' /\ Grants
<1>0. r \in Refs /\ call[r].ask \in Nat /\ 0 \in 0 .. MaxClamps - 1 /\ 0 \in Nat
      /\ call[r].attempt \in 0 .. MaxClamps - 1
  BY DEF Refs, MaxClamps, Sound, Work
<1>1. CASE Charges(r, call[r].ask) /\ Asks(r, "done", 0, 0)
  <2>1. Money' /\ Grants
    BY <1>0, <1>1, ChargesMoney DEF Clamp
  <2>2. Work'
    BY <1>0, <1>1, AsksSound DEF Sound, Clamp
  <2>. QED BY <2>1, <2>2 DEF Sound, Clock, Clamp
<1>2. CASE /\ UNCHANGED <<wallet, usage, lost>>
           /\ \/ Asks(r, "clamp", Available, call[r].attempt + 1) /\ call[r].attempt + 1 < MaxClamps
              \/ Asks(r, "done", 0, 0)
  <2>1. Money' /\ Grants
    BY <1>2, KeepsMoney DEF Sound, Clamp, Grants
  <2>2. call[r].attempt + 1 < MaxClamps => call[r].attempt + 1 \in 0 .. MaxClamps - 1
    BY <1>0 DEF MaxClamps
  <2>3. Work'
    BY <1>0, <1>2, <2>2, AsksSound, AvailableIsNat DEF Sound, Clamp
  <2>. QED BY <2>1, <2>3 DEF Sound, Clock, Clamp
<1>. QED BY <1>1, <1>2 DEF Clamp

\* A row whose total, and what outlives the month, grew by so much.
LEMMA GrownFits ==
  ASSUME NEW w, Fits(w), NEW a \in Nat, NEW b \in Nat, b <= a, NEW v \in WalletRows,
         v.balance = w.balance + a, v.addon = w.addon + b, v.recorded = w.recorded + a,
         v.bonus = w.bonus
  PROVE  Fits(v) /\ Saved(v) = Saved(w) + b
<1>1. w \in WalletRows /\ w.bonus \in [Instants -> Nat]
  BY DEF Fits, WalletRows
<1>2. TotalBonus(v) = TotalBonus(w)
  BY <1>1, BonusSame, WalletAssumption DEF TotalBonus
<1>3. TotalBonus(w) \in Nat
  BY SavedIsNat
<1>. QED BY <1>1, <1>2, <1>3 DEF Fits, WalletRows, Saved

LEMMA RefundDrawSound ==
  ASSUME Sound, NEW r \in Draws, RefundDraw(r)
  PROVE  Sound' /\ Grants
<1> DEFINE a == usage[r].amount
           b == Least(usage[r].amount, usage[r].addon)
<1>1. r \in Refs /\ usage[r] \in UsageRows /\ usage[r] # None /\ r \notin refunded
      /\ usage \in [Refs -> UsageRows \cup {None}]
      /\ refunded \in SUBSET Refs /\ \A q \in refunded : usage[q] # None
  BY DEF Refs, Sound, Money, RefundDraw
<1>2. a \in Nat /\ b \in Nat /\ b <= a
  BY <1>1 DEF UsageRows, Least
<1>3. wallet' = [wallet EXCEPT !.balance = wallet.balance + a, !.addon = wallet.addon + b,
                               !.recorded = wallet.recorded + a]
  BY DEF RefundDraw, Sound, Money, Fits, WalletRows
<1> HIDE DEF a, b
<1>4. Fits(wallet) /\ wallet \in WalletRows
  BY DEF Sound, Money, Fits
<1>5. /\ wallet' \in WalletRows
      /\ wallet'.balance = wallet.balance + a /\ wallet'.addon = wallet.addon + b
      /\ wallet'.recorded = wallet.recorded + a /\ wallet'.bonus = wallet.bonus
      /\ wallet'.granted = wallet.granted /\ wallet'.cycles = wallet.cycles
  <2>1. wallet.balance + a \in Nat /\ wallet.addon + b \in Nat /\ wallet.recorded + a \in Int
    BY <1>2, <1>4 DEF WalletRows
  <2>. QED BY <1>3, <1>4, <2>1 DEF WalletRows
<1>6. Fits(wallet') /\ Saved(wallet') = Saved(wallet) + b
  BY <1>2, <1>4, <1>5, GrownFits
<1>7. refunded' = refunded \cup {r} /\ UNCHANGED <<usage, lost>>
  BY DEF RefundDraw
<1>8. SumFunctionOnSet(GivenBack(usage, refunded'), Refs)
        = SumFunctionOnSet(GivenBack(usage, refunded), Refs) + b
  <2>1. \A q \in Refs : GivenBack(usage, refunded)[q] \in Nat
    BY <1>1, SumsTyped
  <2>2. \A q \in Refs : GivenBack(usage, refunded')[q] \in Nat
    <3>1. refunded' \in SUBSET Refs /\ \A q \in refunded' : usage[q] # None
      BY <1>1, <1>7
    <3>. QED BY <1>1, <3>1, SumsTyped
  <2>3. \A q \in Refs \ {r} : GivenBack(usage, refunded')[q] = GivenBack(usage, refunded)[q]
    BY <1>7 DEF GivenBack
  <2>4. GivenBack(usage, refunded)[r] = 0 /\ GivenBack(usage, refunded')[r] = b
    BY <1>1, <1>7 DEF GivenBack, b
  <2>5. /\ SumFunctionOnSet(GivenBack(usage, refunded), Refs) \in Nat
        /\ SumFunctionOnSet(GivenBack(usage, refunded'), Refs) \in Nat
        /\ SumFunctionOnSet(GivenBack(usage, refunded'), Refs) + GivenBack(usage, refunded)[r]
             = SumFunctionOnSet(GivenBack(usage, refunded), Refs) + GivenBack(usage, refunded')[r]
    BY <1>1, <2>1, <2>2, <2>3, ConstantsTyped, SumChanges
  <2>. QED BY <2>4, <2>5
<1>9. SavedIsAccountedFor'
  <2>1. Accounted(wallet, usage, refunded)
    BY AccountIs DEF Sound, Money
  <2>2. /\ SumFunctionOnSet(SavedBy(usage), Refs) \in Nat
        /\ SumFunctionOnSet(GivenBack(usage, refunded), Refs) \in Nat
    BY <1>1, SumsTyped
  <2>3. Saved(wallet) \in Nat /\ wallet.granted \in Int
    BY <1>4, SavedIsNat, ConstantsTyped DEF WalletRows
  <2>4. Accounted(wallet', usage', refunded')
    BY <1>2, <1>5, <1>6, <1>7, <1>8, <2>1, <2>2, <2>3 DEF Accounted
  <2>. QED BY <2>4, AccountIs
<1>10. Money'
  BY <1>1, <1>6, <1>7, <1>9, FitsIs DEF Sound, Money
<1>11. Work' /\ Clock' /\ Grants
  BY <1>5 DEF Sound, Work, Clock, RefundDraw, Grants
<1>. QED BY <1>10, <1>11 DEF Sound

LEMMA GrantSavedSound ==
  ASSUME Sound, GrantSaved
  PROVE  Sound' /\ Grants
<1>1. Fits(wallet) /\ wallet \in WalletRows
  BY DEF Sound, Money, Fits
<1>2. wallet.rewards + wallet.granted < MaxGifts /\ wallet.rewards \in Nat /\ wallet.granted \in Nat
  BY <1>1, ConstantsTyped DEF GrantSaved, Gifts, WalletRows
<1>3. wallet.granted + 1 \in 0 .. MaxGifts
  BY <1>2, ConstantsTyped
<1>4. /\ wallet' \in WalletRows
      /\ wallet'.balance = wallet.balance + 1 /\ wallet'.addon = wallet.addon + 1
      /\ wallet'.recorded = wallet.recorded + 1 /\ wallet'.bonus = wallet.bonus
      /\ wallet'.granted = wallet.granted + 1 /\ wallet'.cycles = wallet.cycles
  <2>1. wallet' = [wallet EXCEPT !.balance = wallet.balance + 1, !.addon = wallet.addon + 1,
                     !.recorded = wallet.recorded + 1, !.granted = wallet.granted + 1]
    BY <1>1 DEF GrantSaved, WalletRows
  <2>2. wallet.balance + 1 \in Nat /\ wallet.addon + 1 \in Nat /\ wallet.recorded + 1 \in Int
    BY <1>1 DEF WalletRows
  <2>. QED BY <1>1, <1>3, <2>1, <2>2 DEF WalletRows
<1>5. Fits(wallet') /\ Saved(wallet') = Saved(wallet) + 1
  BY <1>1, <1>4, GrownFits
<1>6. Saved(wallet') - Saved(wallet) = wallet'.granted - wallet.granted
  BY <1>1, <1>2, <1>4, <1>5, SavedIsNat
<1>7. Money'
  BY <1>5, <1>6, AddsMoney DEF Sound, GrantSaved, Money
<1>8. Work' /\ Clock' /\ Grants
  BY <1>4 DEF Sound, Work, Clock, GrantSaved, Grants
<1>. QED BY <1>7, <1>8 DEF Sound

LEMMA RewardSound ==
  ASSUME Sound, NEW e \in Instants, Reward(e)
  PROVE  Sound' /\ Grants
<1>1. Fits(wallet) /\ wallet \in WalletRows /\ wallet.bonus \in [Instants -> Nat]
  BY DEF Sound, Money, Fits, WalletRows
<1>2. wallet.rewards + wallet.granted < MaxGifts /\ wallet.rewards \in Nat /\ wallet.granted \in Nat
  BY <1>1, ConstantsTyped DEF Reward, Gifts, WalletRows
<1>3. wallet.rewards + 1 \in 0 .. MaxGifts
  BY <1>2, ConstantsTyped
<1>4. wallet' = [wallet EXCEPT !.balance = wallet.balance + 1, !.addon = wallet.addon + 1,
                   !.bonus = [wallet.bonus EXCEPT ![e] = @ + 1],
                   !.recorded = wallet.recorded + 1, !.rewards = wallet.rewards + 1]
  BY <1>1 DEF Reward, WalletRows
<1>5. [wallet.bonus EXCEPT ![e] = @ + 1] \in [Instants -> Nat]
  BY <1>1
<1>6. /\ wallet' \in WalletRows
      /\ wallet'.balance = wallet.balance + 1 /\ wallet'.addon = wallet.addon + 1
      /\ wallet'.recorded = wallet.recorded + 1
      /\ wallet'.bonus = [wallet.bonus EXCEPT ![e] = @ + 1]
      /\ wallet'.granted = wallet.granted /\ wallet'.cycles = wallet.cycles
  <2>1. wallet.balance + 1 \in Nat /\ wallet.addon + 1 \in Nat /\ wallet.recorded + 1 \in Int
    BY <1>1 DEF WalletRows
  <2> DEFINE b == [wallet.bonus EXCEPT ![e] = @ + 1]
  <2>2. b \in [Instants -> Nat]
    BY <1>5
  <2> HIDE DEF b
  <2>3. wallet' = [wallet EXCEPT !.balance = wallet.balance + 1, !.addon = wallet.addon + 1,
                     !.bonus = b, !.recorded = wallet.recorded + 1,
                     !.rewards = wallet.rewards + 1]
    BY <1>4 DEF b
  <2>4. /\ wallet' \in WalletRows
        /\ wallet'.balance = wallet.balance + 1 /\ wallet'.addon = wallet.addon + 1
        /\ wallet'.recorded = wallet.recorded + 1 /\ wallet'.bonus = b
        /\ wallet'.granted = wallet.granted /\ wallet'.cycles = wallet.cycles
    BY <1>1, <1>3, <2>1, <2>2, <2>3 DEF WalletRows
  <2>. QED BY <2>4 DEF b
<1>7. TotalBonus(wallet') = TotalBonus(wallet) + 1
  <2>1. Horizon \in 0 .. Horizon /\ e <= Horizon
    BY ConstantsTyped DEF Instants
  <2>. QED BY <1>1, <1>6, <2>1, BonusAdded DEF TotalBonus
<1>8. Fits(wallet')
  BY <1>1, <1>6, <1>7, SavedIsNat DEF Fits, WalletRows
<1>9. Saved(wallet') - Saved(wallet) = wallet'.granted - wallet.granted
  BY <1>1, <1>2, <1>6, <1>7, SavedIsNat DEF Saved, WalletRows
<1>10. Money'
  BY <1>8, <1>9, AddsMoney DEF Sound, Reward, Money
<1>11. Work' /\ Clock' /\ Grants
  BY <1>6 DEF Sound, Work, Clock, Reward, Grants
<1>. QED BY <1>10, <1>11 DEF Sound

LEMMA ReleaseDropSound ==
  ASSUME Sound, ReleaseDrop
  PROVE  Sound' /\ Grants
<1>1. Fits(wallet) /\ wallet \in WalletRows
  BY DEF Sound, Money, Fits
<1>2. /\ wallet' \in WalletRows
      /\ wallet'.balance = wallet.balance + Drop /\ wallet'.addon = wallet.addon + 0
      /\ wallet'.recorded = wallet.recorded + Drop /\ wallet'.bonus = wallet.bonus
      /\ wallet'.granted = wallet.granted /\ wallet'.cycles = wallet.cycles
  <2>1. wallet' = [wallet EXCEPT !.balance = wallet.balance + Drop,
                                 !.recorded = wallet.recorded + Drop, !.drops = 2]
    BY <1>1 DEF ReleaseDrop, WalletRows
  <2>2. wallet.balance + Drop \in Nat /\ wallet.recorded + Drop \in Int /\ 2 \in 1 .. 2
        /\ wallet.addon + 0 = wallet.addon
    BY <1>1, ConstantsTyped DEF WalletRows
  <2>3. /\ wallet' \in WalletRows
        /\ wallet'.balance = wallet.balance + Drop /\ wallet'.addon = wallet.addon
        /\ wallet'.recorded = wallet.recorded + Drop /\ wallet'.bonus = wallet.bonus
        /\ wallet'.granted = wallet.granted /\ wallet'.cycles = wallet.cycles
    BY <1>1, <2>1, <2>2 DEF WalletRows
  <2>. QED BY <2>2, <2>3
<1>3. Fits(wallet') /\ Saved(wallet') = Saved(wallet) + 0
  <2>1. Drop \in Nat /\ 0 \in Nat /\ 0 <= Drop
    BY ConstantsTyped
  <2>. QED BY <1>1, <1>2, <2>1, GrownFits
<1>4. Saved(wallet') - Saved(wallet) = wallet'.granted - wallet.granted
  BY <1>1, <1>2, <1>3, SavedIsNat, ConstantsTyped DEF WalletRows
<1>5. Money'
  BY <1>3, <1>4, AddsMoney DEF Sound, ReleaseDrop, Money
<1>6. Work' /\ Clock' /\ Grants
  BY <1>2 DEF Sound, Work, Clock, ReleaseDrop, Grants
<1>. QED BY <1>5, <1>6 DEF Sound

LEMMA SweepSound ==
  ASSUME Sound, Sweep
  PROVE  Sound' /\ Grants
<1>1. Money' /\ Grants
  BY SweepsMoney DEF Sound, Sweep, Clock, Grants
<1>. QED BY <1>1 DEF Sound, Work, Clock, Sweep

LEMMA FindCycleOverSound ==
  ASSUME Sound, NEW v \in Visitors, FindCycleOver(v)
  PROVE  Sound' /\ Grants
<1>1. Money' /\ Grants
  BY KeepsMoney DEF Sound, FindCycleOver, Grants
<1>2. wallet.periodEnd \in Nat
  BY DEF Sound, Money, Fits, WalletRows
<1>. QED BY <1>1, <1>2 DEF Sound, Work, Clock, FindCycleOver

\* The next boundary is after now, and so after the one that passed.
LEMMA NextBoundary ==
  ASSUME NEW e \in Nat, NEW n \in Nat, e <= n, NEW p \in Nat \ {0}
  PROVE  e + (1 + (n - e) \div p) * p \in Nat /\ e + (1 + (n - e) \div p) * p > e
<1> DEFINE q == (n - e) \div p
<1>1. q \in Nat
  BY Z3
<1> HIDE DEF q
<1>2. (1 + q) * p \in Nat /\ (1 + q) * p > 0
  BY <1>1
<1>. QED BY <1>2 DEF q

LEMMA RenewCycleSound ==
  ASSUME Sound, NEW v \in Visitors, RenewCycle(v)
  PROVE  Sound' /\ Grants
<1>1. Fits(wallet) /\ wallet \in WalletRows /\ wallet.balance \in Nat /\ wallet.addon \in Nat
      /\ wallet.addon <= wallet.balance /\ wallet.recorded = wallet.balance
  BY DEF Sound, Money, Fits, WalletRows
<1>2. Work' /\ Clock'
  BY DEF Sound, Work, Clock, RenewCycle
<1>3. CASE UNCHANGED <<wallet, lost>>
  <2>1. Money' /\ Grants
    BY <1>3, KeepsMoney DEF Sound, RenewCycle, Grants
  <2>. QED BY <1>2, <2>1 DEF Sound
<1>4. CASE StillOver(v) /\ ~ UNCHANGED <<wallet, lost>>
  <2> DEFINE d == Discarded(wallet)
             n == seen[v] + (1 + (now - seen[v]) \div Period) * Period
  <2>1. d = wallet.balance - wallet.addon /\ d \in Nat
    BY <1>1 DEF Discarded, AtLeast0
  <2>2. seen[v] \in Nat /\ seen[v] <= now /\ now \in Nat /\ seen[v] = wallet.periodEnd
    BY <1>4 DEF Sound, Clock, RenewCycle, StillOver
  <2>3. n \in Nat /\ n > wallet.periodEnd
    BY <2>2, ConstantsTyped, NextBoundary
  <2>4. wallet' = [wallet EXCEPT !.balance = Grant + wallet.addon,
                     !.recorded = wallet.recorded - d + Grant,
                     !.periodEnd = n, !.drops = 1, !.cycles = wallet.cycles + 1]
        /\ lost' = lost + d
    BY <1>1, <1>4 DEF RenewCycle, WalletRows
  <2> HIDE DEF d, n
  <2>5. Grant \in Nat /\ 0 \in Nat /\ lost \in Nat
    BY ConstantsTyped DEF Sound, Money
  <2>6. /\ Grant + wallet.addon \in Nat /\ wallet.recorded - d + Grant \in Int
        /\ wallet.recorded - d + Grant = Grant + wallet.addon
        /\ n \in Nat \ {0} /\ 1 \in 1 .. 2 /\ wallet.cycles + 1 \in Nat
    BY <1>1, <2>1, <2>2, <2>3, <2>5 DEF WalletRows
  <2>7. /\ wallet' \in WalletRows
        /\ wallet'.balance = Grant + wallet.addon /\ wallet'.recorded = Grant + wallet.addon
        /\ wallet'.addon = wallet.addon /\ wallet'.bonus = wallet.bonus
        /\ wallet'.granted = wallet.granted /\ wallet'.periodEnd = n
    BY <1>1, <2>4, <2>6 DEF WalletRows
  <2>8. TotalBonus(wallet') = TotalBonus(wallet)
    <3>1. wallet.bonus \in [Instants -> Nat] /\ Horizon \in 0 .. Horizon
      BY <1>1, ConstantsTyped DEF WalletRows
    <3>. QED BY <2>7, <3>1, BonusSame DEF TotalBonus
  <2>9. Fits(wallet')
    BY <1>1, <2>5, <2>7, <2>8 DEF Fits
  <2>10. Saved(wallet') - Saved(wallet) = wallet'.granted - wallet.granted
    <3>1. wallet.granted \in Int /\ Saved(wallet') = Saved(wallet)
      BY <1>1, <2>7, <2>8, ConstantsTyped DEF WalletRows, Saved
    <3>. QED BY <1>1, <2>7, <3>1, SavedIsNat
  <2>11. lost' \in Nat
    BY <2>1, <2>4, <2>5
  <2>12. Money'
    BY <2>9, <2>10, <2>11, AddsMoney DEF Sound, RenewCycle
  <2>13. Grants
    BY <2>3, <2>7 DEF Grants
  <2>. QED BY <1>2, <2>12, <2>13 DEF Sound
<1>. QED BY <1>3, <1>4 DEF RenewCycle

LEMMA TickSound ==
  ASSUME Sound, Tick
  PROVE  Sound' /\ Grants
<1>1. Money' /\ Grants
  BY KeepsMoney DEF Sound, Tick, Grants
<1>2. Clock'
  BY ConstantsTyped DEF Sound, Clock, Tick
<1>. QED BY <1>1, <1>2 DEF Sound, Work, Tick

LEMMA InitSound == Init => Sound
<1> SUFFICES ASSUME Init PROVE Sound
  OBVIOUS
<1>1. wallet \in WalletRows /\ wallet.bonus = [e \in Instants |-> 0]
      /\ wallet.balance = Opening /\ wallet.addon = 0 /\ wallet.recorded = Opening
      /\ wallet.granted = 0
  BY ConstantsTyped DEF Init, WalletRows
<1>2. TotalBonus(wallet) = 0
  <2> DEFINE T == {n \in 0 .. Horizon : BonusBy(wallet)[n] = 0}
  <2>1. wallet.bonus \in [Instants -> Nat] /\ Horizon \in Nat
    BY <1>1, ConstantsTyped
  <2>2. 0 \in T
    BY <2>1, BonusUnfolds
  <2>3. ASSUME NEW n \in Instants, n - 1 \in T PROVE n \in T
    <3>1. BonusBy(wallet)[n] = BonusBy(wallet)[n - 1] + wallet.bonus[n] /\ wallet.bonus[n] = 0
      BY <1>1, <2>1, BonusUnfolds
    <3>2. n \in 0 .. Horizon
      BY <2>1 DEF Instants
    <3>. QED BY <2>3, <3>1, <3>2
  <2>4. T \subseteq 0 .. Horizon
    OBVIOUS
  <2> HIDE DEF T
  <2>5. T = 0 .. Horizon
    BY <2>2, <2>3, <2>4, DatesByInduction
  <2>. QED BY <2>1, <2>5 DEF T, TotalBonus
<1>3. Fits(wallet) /\ Saved(wallet) = 0
  BY <1>1, <1>2, ConstantsTyped DEF Fits, Saved
<1>4. usage \in [Refs -> UsageRows \cup {None}] /\ \A r \in Refs : usage[r] = None
  BY DEF Init
<1>5. Accounted(wallet, usage, refunded)
  <2> DEFINE zero == [r \in Refs |-> 0]
  <2>1. SavedBy(usage) = zero
    BY <1>4 DEF SavedBy
  <2>2. GivenBack(usage, refunded) = zero
    BY DEF GivenBack, Init
  <2>3. SumFunctionOnSet(zero, Refs) \in Nat
    <3>1. \A r \in Refs : zero[r] \in Nat
      OBVIOUS
    <3> HIDE DEF zero
    <3>. QED BY <3>1, ConstantsTyped, SumIsNat
  <2> HIDE DEF zero
  <2>. QED BY <1>1, <1>3, <2>1, <2>2, <2>3 DEF Accounted
<1>6. Money
  BY <1>3, <1>4, <1>5, AccountIs DEF Money, Init
<1>7. Work
  BY DEF Init, Work, HoldRows, MaxClamps
<1>8. Clock
  BY ConstantsTyped DEF Init, Clock
<1>. QED BY <1>6, <1>7, <1>8 DEF Sound

LEMMA NextSound == Sound /\ [Next]_vars => Sound' /\ Grants
<1> SUFFICES ASSUME Sound, [Next]_vars PROVE Sound' /\ Grants
  OBVIOUS
<1>1. CASE UNCHANGED vars
  <2>1. Money' /\ Grants
    BY <1>1, KeepsMoney DEF vars, Sound, Grants
  <2>. QED BY <1>1, <2>1 DEF vars, Sound, Work, Clock
<1>2. ASSUME NEW r \in Steps, NEW c \in Costs, Reserve(r, c) \/ Settle(r, c) \/ DeductStep(r, c)
      PROVE  Sound' /\ Grants
  BY <1>2, ReserveSound, SettleSound, DeductStepSound
<1>3. ASSUME NEW r \in Steps, Renew(r) \/ Release(r) PROVE Sound' /\ Grants
  BY <1>3, RenewSound, ReleaseSound
<1>4. ASSUME NEW r \in Replies, Clamp(r) PROVE Sound' /\ Grants
  BY <1>4, ClampSound
<1>5. ASSUME NEW r \in Replies, NEW c \in Costs, ChargeReply(r, c) PROVE Sound' /\ Grants
  BY <1>5, ChargeReplySound
<1>6. ASSUME NEW r \in Draws, Draw(r) \/ RefundDraw(r) PROVE Sound' /\ Grants
  BY <1>6, DrawSound, RefundDrawSound
<1>7. ASSUME NEW e \in Instants, Reward(e) PROVE Sound' /\ Grants
  BY <1>7, RewardSound
<1>8. CASE GrantSaved \/ Sweep \/ ReleaseDrop \/ Tick
  BY <1>8, GrantSavedSound, SweepSound, ReleaseDropSound, TickSound
<1>9. ASSUME NEW v \in Visitors, FindCycleOver(v) \/ RenewCycle(v) PROVE Sound' /\ Grants
  BY <1>9, FindCycleOverSound, RenewCycleSound
<1>. QED BY <1>1, <1>2, <1>3, <1>4, <1>5, <1>6, <1>7, <1>8, <1>9, Zenon DEF Next

\* The wallet stays sound.
LEMMA StaysSound == Spec => []Sound
BY InitSound, NextSound, PTL DEF Spec

\* The three kinds of credits fit into each other whatever is spent, swept,
\* renewed or given back: the allocation of a spending takes as much out of
\* each kind as the row says.
THEOREM WalletBucketsFit == Spec => []BucketsFit
<1>1. Sound => BucketsFit
  BY DEF Sound, Money, Fits, BucketsFit
<1>. QED BY <1>1, StaysSound, PTL

\* The rows of the ledger add up to the balance.
THEOREM WalletLedgerAddsUp == Spec => []LedgerAddsUp
<1>1. Sound => LedgerAddsUp
  BY DEF Sound, Money, Fits, LedgerAddsUp
<1>. QED BY <1>1, StaysSound, PTL

\* What was granted for good is in the wallet, or its spending is on record.
THEOREM WalletSavedIsAccountedFor == Spec => []SavedIsAccountedFor
<1>1. Sound => SavedIsAccountedFor
  BY DEF Sound, Money
<1>. QED BY <1>1, StaysSound, PTL

\* The types of the wallet.
THEOREM WalletTyped == Spec => []TypeOK
<1>1. Sound => TypeOK
  BY DEF Sound, Money, Work, Clock, Fits, WalletRows, HoldRows, TypeOK
<1>. QED BY <1>1, StaysSound, PTL

\* A cycle is granted once, however many visitors found it over.
THEOREM WalletOneGrantPerCycle == Spec => OneGrantPerCycle
<1>1. Sound /\ [Next]_vars =>
        [wallet'.cycles # wallet.cycles => wallet'.periodEnd > wallet.periodEnd]_vars
  BY NextSound DEF Grants
<1>. QED BY <1>1, StaysSound, PTL DEF Spec, OneGrantPerCycle

-----------------------------------------------------------------------------
(* The wallet implements the ledger.                                       *)

\* The ledger sums as the wallet does.
LEMMA SameSum ==
  ASSUME NEW f, NEW S
  PROVE  Promise!SumFunctionOnSet(f, S) = SumFunctionOnSet(f, S)
BY Zenon DEF SumFunctionOnSet, FoldFunctionOnSet, MapThenFoldSet,
             Promise!SumFunctionOnSet, Promise!FoldFunctionOnSet, Promise!MapThenFoldSet

\* What the wallet holds is what the ledger holds.
LEMMA HeldAgrees ==
  ASSUME Sound, NEW S \in SUBSET Refs
  PROVE  Promise!Held(S) = Held(S)
<1>1. [r \in Refs |-> MappedHold[r].credits] = [r \in Refs |-> hold[r].credits]
  BY DEF MappedHold, AsHeld
<1>2. {r \in S : MappedHold[r].status = "active"} = {r \in S : Active(r)}
  <2>1. \A r \in Refs : hold[r].expires \in Int /\ now \in Int
    BY ConstantsTyped DEF Sound, Work, HoldRows, Clock
  <2>2. \A r \in Refs : MappedHold[r].status = "active" <=> Active(r)
    BY <2>1 DEF MappedHold, AsHeld, Active
  <2>. QED BY <2>2
<1>3. Promise!Held(S) =
        SumFunctionOnSet([r \in Refs |-> MappedHold[r].credits],
                         {r \in S : MappedHold[r].status = "active"})
  BY SameSum DEF Promise!Held
<1>. QED BY <1>1, <1>2, <1>3 DEF Held

\* What is held of a reference that a step sets.
LEMMA MappedHoldSet ==
  ASSUME Sound, NEW r \in Refs, NEW k, hold' = [hold EXCEPT ![r] = k], UNCHANGED now
  PROVE  MappedHold' = [MappedHold EXCEPT ![r] = AsHeld(k)]
BY DEF MappedHold, AsHeld, Sound, Work
LEMMA MappedHoldKept ==
  ASSUME UNCHANGED <<hold, now>>
  PROVE  MappedHold' = MappedHold
BY DEF MappedHold, AsHeld

\* A sweep takes what fell due and counts it as lost.
LEMMA Lost ==
  ASSUME Sound
  PROVE  /\ Due(wallet) \in Nat /\ wallet.balance \in Nat /\ Swept.balance \in Nat
         /\ Due(wallet) <= wallet.balance
         /\ Swept.balance = Promise!Left(Due(wallet))
BY SweptFits DEF Sound, Money, Clock, Fits, WalletRows, Promise!Left

LEMMA LosesDue ==
  ASSUME Sound, lost' = lost + Due(wallet)
  PROVE  Promise!Loses(Due(wallet))
BY Lost DEF Promise!Loses

LEMMA LosesNothing ==
  ASSUME Sound, UNCHANGED lost
  PROVE  Promise!Loses(0)
<1>1. lost \in Nat
  BY DEF Sound, Money
<1>. QED BY <1>1, Lost DEF Promise!Loses

\* A transaction that only sweeps.
LEMMA SweepsKeep ==
  ASSUME Sound, Commits(Swept), UNCHANGED <<usage, refunded>>, MappedHold' = MappedHold
  PROVE  Promise!Next
<1>1. Promise!Loses(Due(wallet))
  BY LosesDue DEF Commits
<1>2. Promise!Fund(0, Due(wallet))
  <2>1. wallet'.balance = Promise!Left(Due(wallet)) + 0
    BY Lost DEF Commits
  <2>2. MappedCharge' = MappedCharge
    BY DEF MappedCharge
  <2>. QED BY <2>1, <2>2 DEF Promise!Fund
<1>. QED BY <1>1, <1>2, Lost DEF Promise!Next

\* A deduction, whether it charges or finds the charge.
LEMMA ChargesKeep ==
  ASSUME Sound, NEW r \in Refs, NEW c \in Nat, Charges(r, c), UNCHANGED <<hold, now, refunded>>
  PROVE  Promise!Next
<1>0. MappedHold' = MappedHold
  BY MappedHoldKept
<1>1. CASE Commits(Swept) /\ UNCHANGED usage
  BY <1>0, <1>1, SweepsKeep
<1>2. CASE /\ usage[r] = None
           /\ c + Held(Refs) <= Swept.balance
           /\ Commits(Spent(Swept, c))
           /\ usage' = [usage EXCEPT ![r] = UsageRow(Swept, c)]
  <2>1. c \in Nat \ {0}
    BY DEF Charges
  <2>2. Paid(r, c)
    BY <1>2, Affordable DEF Paid
  <2>3. UsageRow(Swept, c) \in UsageRows /\ UsageRow(Swept, c).amount = c
        /\ wallet'.balance = Swept.balance - c
    BY <2>1, <2>2, PaysMoney DEF Sound, Clock
  <2>4. MappedCharge[r] = None /\ MappedCharge' = [MappedCharge EXCEPT ![r] = c]
    BY <1>2, <2>3, ConstantsTyped DEF MappedCharge, Sound, Money
  <2>5. Promise!Deduct(r, c, Due(wallet))
    <3>1. c + Promise!Held(Refs) <= Promise!Left(Due(wallet))
      BY <1>2, Lost, HeldAgrees
    <3>2. wallet'.balance = Promise!Left(Due(wallet)) - c
      BY <2>3, Lost
    <3>. QED BY <1>0, <2>1, <2>4, <3>1, <3>2 DEF Promise!Deduct
  <2>6. Promise!Loses(Due(wallet))
    BY <1>2, LosesDue DEF Commits
  <2>. QED BY <2>5, <2>6, Lost DEF Promise!Next
<1>. QED BY <1>1, <1>2 DEF Charges

LEMMA ReserveKeeps ==
  ASSUME Sound, NEW r \in Steps, NEW c \in Costs, Reserve(r, c)
  PROVE  Promise!Next
<1> DEFINE k == [status |-> "active", credits |-> c, expires |-> now + Lease]
<1>1. r \in Refs /\ c \in Nat
  BY ConstantsTyped DEF Refs
<1>2. AsHeld(k) = [status |-> "active", credits |-> c]
  <2>1. ~ (now + Lease <= now)
    BY ConstantsTyped DEF Sound, Clock
  <2>. QED BY <2>1 DEF AsHeld
<1>3. MappedHold' = [MappedHold EXCEPT ![r] = [status |-> "active", credits |-> c]]
  <2>1. hold' = [hold EXCEPT ![r] = k] /\ UNCHANGED now
    BY DEF Reserve
  <2> HIDE DEF k
  <2>2. MappedHold' = [MappedHold EXCEPT ![r] = AsHeld(k)]
    BY <1>1, <2>1, MappedHoldSet
  <2>. QED BY <1>2, <2>2
<1>4. Promise!Loses(Due(wallet)) /\ wallet'.balance = Promise!Left(Due(wallet))
  BY LosesDue, Lost DEF Reserve, Commits
<1>5. MappedHold[r].status # "settled"
  BY <1>1 DEF MappedHold, AsHeld, Reserve
<1>6. c = 0 \/ c + Promise!HeldForOthers(r) <= Promise!Left(Due(wallet))
  <2>1. Promise!HeldForOthers(r) = HeldForOthers(r)
    BY HeldAgrees DEF Promise!HeldForOthers, HeldForOthers
  <2>. QED BY <2>1, Lost DEF Reserve
<1>7. MappedCharge' = MappedCharge
  BY DEF MappedCharge, Reserve
<1>8. Promise!Reserve(r, c, Due(wallet))
  BY <1>3, <1>4, <1>5, <1>6, <1>7 DEF Promise!Reserve, Reserve
<1>. QED BY <1>1, <1>4, <1>8, Lost DEF Promise!Next

LEMMA RenewKeeps ==
  ASSUME Sound, NEW r \in Steps, Renew(r)
  PROVE  Promise!Next
<1>1. MappedHold' = MappedHold
  <2>1. CASE hold' = hold
    BY <2>1, MappedHoldKept DEF Renew
  <2>2. CASE Active(r) /\ hold' = [hold EXCEPT ![r].expires = now + Lease]
    <3>1. ~ (now + Lease <= now) /\ r \in Refs /\ hold \in [Refs -> HoldRows] /\ now' = now
          /\ now \in Int
      BY ConstantsTyped DEF Sound, Clock, Refs, Work, Renew
    <3>2. hold[r].status = "active" /\ ~ (hold[r].expires <= now)
      BY <2>2, <3>1 DEF Active, HoldRows
    <3>3. \A q \in Refs : AsHeld(hold'[q]) = AsHeld(hold[q])
      BY <2>2, <3>1, <3>2 DEF AsHeld, HoldRows
    <3>4. \A q \in Refs : AsHeld(hold[q])' = AsHeld(hold'[q])
      BY <3>1 DEF AsHeld
    <3>. QED BY <3>3, <3>4 DEF MappedHold
  <2>. QED BY <2>1, <2>2 DEF Renew
<1>. QED BY <1>1, SweepsKeep DEF Renew

LEMMA MappedEnded ==
  AsHeld(Ended("released")) = Promise!Ended("released")
  /\ AsHeld(Ended("settled")) = Promise!Ended("settled")
BY DEF AsHeld, Ended, Promise!Ended

LEMMA ReleaseKeeps ==
  ASSUME Sound, NEW r \in Steps, Release(r)
  PROVE  Promise!Next
<1>1. r \in Refs
  BY DEF Refs
<1>2. MappedHold' = [MappedHold EXCEPT ![r] = Promise!Ended("released")]
  BY <1>1, MappedHoldSet, MappedEnded DEF Release
<1>3. MappedHold[r].status \in {"active", "lapsed"}
  BY <1>1 DEF MappedHold, AsHeld, Release
<1>4. MappedCharge' = MappedCharge
  BY DEF MappedCharge, Release
<1>5. Promise!Release(r) /\ Promise!Loses(0)
  BY <1>2, <1>3, <1>4, LosesNothing DEF Promise!Release, Release
<1>. QED BY <1>1, <1>5 DEF Promise!Next

LEMMA SettleKeeps ==
  ASSUME Sound, NEW r \in Steps, NEW c \in Costs, Settle(r, c)
  PROVE  Promise!Next
<1>1. r \in Refs /\ c \in Nat
  BY ConstantsTyped DEF Refs
<1>2. MappedHold' = [MappedHold EXCEPT ![r] = Promise!Ended("settled")]
  <2>1. hold' = [hold EXCEPT ![r] = Ended("settled")] /\ UNCHANGED now
    BY DEF Settle
  <2>2. MappedHold' = [MappedHold EXCEPT ![r] = AsHeld(Ended("settled"))]
    BY <1>1, <2>1, MappedHoldSet
  <2>. QED BY <2>2, MappedEnded
<1>3. /\ MappedHold[r].status # "none" /\ (MappedHold[r].status = "settled" <=> hold[r].status = "settled")
      /\ MappedHold[r].credits = hold[r].credits
  BY <1>1 DEF MappedHold, AsHeld, Settle
<1>4. CASE hold[r].status = "settled"
  <2>1. MappedHold[r] = Promise!Ended("settled")
    BY <1>1, <1>4 DEF MappedHold, AsHeld, Promise!Ended, Sound, Work
  <2>2. MappedHold' = MappedHold
    BY <1>1, <1>2, <2>1 DEF MappedHold
  <2>. QED BY <1>4, <2>2, SweepsKeep DEF Settle
<1>5. CASE /\ usage[r] # None \/ c = 0
           /\ Commits(Swept) /\ UNCHANGED usage
  <2>1. Promise!Loses(Due(wallet)) /\ wallet'.balance = Promise!Left(Due(wallet))
    BY <1>5, LosesDue, Lost DEF Commits
  <2>2. MappedCharge' = MappedCharge /\ (MappedCharge[r] # None \/ c = 0)
    <3>1. usage[r] # None => usage[r].amount # None
      BY <1>1, ConstantsTyped DEF Sound, Money, UsageRows
    <3>. QED BY <1>1, <1>5, <3>1 DEF MappedCharge
  <2>3. CASE hold[r].status # "settled"
    <3>1. Promise!Settle(r, c, Due(wallet))
      BY <1>2, <1>3, <2>1, <2>2, <2>3 DEF Promise!Settle, Settle
    <3>. QED BY <1>1, <2>1, <3>1, Lost DEF Promise!Next
  <2>. QED BY <1>4, <2>3
<1>6. CASE /\ hold[r].status # "settled" /\ usage[r] = None /\ c > 0
           /\ c + HeldForOthers(r) <= Swept.balance
           /\ Commits(Spent(Swept, c))
           /\ usage' = [usage EXCEPT ![r] = UsageRow(Swept, c)]
  <2>1. c \in Nat \ {0}
    BY <1>1, <1>6
  <2>2. Paid(r, c)
    BY <1>1, <1>6, Affordable DEF Paid, HeldForOthers
  <2>3. UsageRow(Swept, c) \in UsageRows /\ UsageRow(Swept, c).amount = c
        /\ wallet'.balance = Swept.balance - c
    BY <1>1, <2>1, <2>2, PaysMoney DEF Sound, Clock, Settle
  <2>4. MappedCharge[r] = None /\ MappedCharge' = [MappedCharge EXCEPT ![r] = c]
    BY <1>1, <1>6, <2>3, ConstantsTyped DEF MappedCharge, Sound, Money
  <2>5. c + Promise!HeldForOthers(r) <= Promise!Left(Due(wallet))
    <3>1. Promise!HeldForOthers(r) = HeldForOthers(r)
      BY HeldAgrees DEF Promise!HeldForOthers, HeldForOthers
    <3>. QED BY <1>6, <3>1, Lost
  <2>6. wallet'.balance = Promise!Left(Due(wallet)) - c /\ Promise!Loses(Due(wallet))
    BY <1>6, <2>3, Lost, LosesDue DEF Commits
  <2>7. Promise!Settle(r, c, Due(wallet))
    BY <1>2, <1>3, <1>6, <2>4, <2>5, <2>6 DEF Promise!Settle, Settle
  <2>. QED BY <1>1, <2>6, <2>7, Lost DEF Promise!Next
<1>. QED BY <1>4, <1>5, <1>6 DEF Settle

\* What the ledger does not see.
LEMMA Unseen ==
  ASSUME UNCHANGED <<wallet, usage, refunded, lost>>, MappedHold' = MappedHold
  PROVE  UNCHANGED Promise!vars
BY DEF Promise!vars, MappedCharge

LEMMA ReplyKeeps ==
  ASSUME Sound, NEW r \in Replies,
         (\E c \in Costs : ChargeReply(r, c)) \/ Clamp(r)
  PROVE  [Promise!Next]_(Promise!vars)
<1>1. r \in Refs /\ Costs \subseteq Nat /\ call[r].ask \in Nat
  BY ConstantsTyped DEF Refs, Sound, Work
<1>2. UNCHANGED <<hold, now, refunded>>
  BY DEF ChargeReply, Clamp
<1>3. CASE \E c \in Nat : Charges(r, c)
  BY <1>1, <1>2, <1>3, ChargesKeep
<1>4. CASE UNCHANGED <<wallet, usage, lost>>
  BY <1>2, <1>4, MappedHoldKept, Unseen
<1>. QED BY <1>1, <1>3, <1>4 DEF ChargeReply, Clamp

LEMMA RefundDrawKeeps ==
  ASSUME Sound, NEW r \in Draws, RefundDraw(r)
  PROVE  Promise!Next
<1>1. r \in Refs /\ usage[r] \in UsageRows /\ r \notin refunded /\ usage[r] # None
  BY DEF Refs, Sound, Money, RefundDraw
<1>2. MappedCharge[r] = usage[r].amount /\ MappedCharge[r] # None /\ MappedCharge' = MappedCharge
  BY <1>1, ConstantsTyped DEF MappedCharge, UsageRows, RefundDraw
<1>3. wallet'.balance = wallet.balance + MappedCharge[r]
  BY <1>2 DEF RefundDraw, Sound, Money, Fits, WalletRows
<1>4. MappedHold' = MappedHold /\ Promise!Loses(0)
  BY MappedHoldKept, LosesNothing DEF RefundDraw
<1>5. Promise!Refund(r)
  BY <1>1, <1>2, <1>3, <1>4 DEF Promise!Refund, RefundDraw
<1>. QED BY <1>1, <1>4, <1>5 DEF Promise!Next

\* What adds c credits, less x that are lost.
LEMMA FundKeeps ==
  ASSUME Sound, NEW c \in Nat, NEW x \in Nat, x <= wallet.balance, lost' = lost + x,
         wallet'.balance = wallet.balance - x + c, UNCHANGED <<hold, now, usage, refunded>>
  PROVE  Promise!Next
<1>1. Promise!Loses(x)
  BY DEF Promise!Loses
<1>2. MappedHold' = MappedHold /\ MappedCharge' = MappedCharge
  BY MappedHoldKept DEF MappedCharge
<1>3. Promise!Fund(c, x)
  BY <1>2 DEF Promise!Fund, Promise!Left
<1>. QED BY <1>1, <1>3 DEF Promise!Next

LEMMA GiftKeeps ==
  ASSUME Sound, (\E e \in Instants : Reward(e)) \/ GrantSaved \/ ReleaseDrop
  PROVE  Promise!Next
<1>1. wallet.balance \in Nat /\ wallet \in WalletRows /\ lost \in Nat
  BY DEF Sound, Money, Fits, WalletRows
<1>2. lost' = lost + 0 /\ UNCHANGED <<hold, now, usage, refunded>> /\ 0 <= wallet.balance
  <2>1. UNCHANGED <<lost, hold, now, usage, refunded>>
    BY DEF Reward, GrantSaved, ReleaseDrop
  <2>. QED BY <1>1, <2>1
<1>3. CASE wallet'.balance = wallet.balance + 1
  <2>1. wallet'.balance = wallet.balance - 0 + 1 /\ 0 \in Nat /\ 1 \in Nat
    BY <1>1, <1>3
  <2>. QED BY <1>2, <2>1, FundKeeps
<1>4. CASE wallet'.balance = wallet.balance + Drop
  <2>1. wallet'.balance = wallet.balance - 0 + Drop /\ 0 \in Nat /\ Drop \in Nat
    BY <1>1, <1>4, ConstantsTyped
  <2>. QED BY <1>2, <2>1, FundKeeps
<1>. QED BY <1>1, <1>3, <1>4 DEF Reward, GrantSaved, ReleaseDrop, WalletRows

LEMMA RenewCycleKeeps ==
  ASSUME Sound, NEW v \in Visitors, RenewCycle(v)
  PROVE  [Promise!Next]_(Promise!vars)
<1>1. CASE UNCHANGED <<wallet, lost>>
  BY <1>1, MappedHoldKept, Unseen DEF RenewCycle
<1>2. CASE wallet'.balance = Grant + wallet.addon /\ lost' = lost + Discarded(wallet)
  <2>1. wallet.balance \in Nat /\ wallet.addon \in Nat /\ wallet.addon <= wallet.balance
    BY DEF Sound, Money, Fits, WalletRows
  <2> DEFINE x == Discarded(wallet)
  <2>2. x = wallet.balance - wallet.addon /\ x \in Nat /\ x <= wallet.balance
    BY <2>1 DEF Discarded, AtLeast0
  <2>3. wallet'.balance = wallet.balance - x + Grant /\ Grant \in Nat
    BY <1>2, <2>1, <2>2, ConstantsTyped
  <2>4. lost' = lost + x /\ UNCHANGED <<hold, now, usage, refunded>>
    BY <1>2 DEF RenewCycle
  <2> HIDE DEF x
  <2>. QED BY <2>2, <2>3, <2>4, FundKeeps
<1>. QED BY <1>1, <1>2 DEF RenewCycle, Sound, Money, Fits, WalletRows

\* With the clock the holds of this instant lapse.
LEMMA TickKeeps ==
  ASSUME Sound, Tick
  PROVE  Promise!Next
<1> DEFINE S == {r \in Refs : hold[r].status = "active" /\ hold[r].expires = now + 1}
<1>1. now \in Nat /\ now' = now + 1 /\ hold' = hold /\ hold \in [Refs -> HoldRows]
  BY ConstantsTyped DEF Sound, Clock, Work, Tick
<1>2. \A r \in S : MappedHold[r].status = "active"
  BY <1>1 DEF MappedHold, AsHeld, HoldRows
<1>3. \A r \in Refs :
        MappedHold'[r] = IF r \in S THEN [MappedHold[r] EXCEPT !.status = "lapsed"]
                                    ELSE MappedHold[r]
  <2>1. ASSUME NEW r \in Refs
        PROVE  MappedHold'[r] = IF r \in S THEN [MappedHold[r] EXCEPT !.status = "lapsed"]
                                           ELSE MappedHold[r]
    <3>1. /\ hold[r].expires \in Nat
          /\ MappedHold[r] = [status |-> IF hold[r].status = "active" /\ hold[r].expires <= now
                                         THEN "lapsed" ELSE hold[r].status,
                              credits |-> hold[r].credits]
          /\ MappedHold'[r] = [status |-> IF hold[r].status = "active" /\ hold[r].expires <= now + 1
                                          THEN "lapsed" ELSE hold[r].status,
                               credits |-> hold[r].credits]
      BY <1>1 DEF MappedHold, AsHeld, HoldRows
    <3>2. CASE r \in S
      BY <1>1, <3>1, <3>2
    <3>3. CASE r \notin S
      <4>1. hold[r].status = "active" =>
              (hold[r].expires <= now + 1 <=> hold[r].expires <= now)
        BY <1>1, <3>1, <3>3
      <4>. QED BY <3>1, <3>3, <4>1
    <3>. QED BY <3>2, <3>3
  <2>. QED BY <2>1
<1>4. S \in SUBSET Refs
  OBVIOUS
<1>5. UNCHANGED <<wallet, refunded>> /\ MappedCharge' = MappedCharge /\ Promise!Loses(0)
  BY LosesNothing DEF Tick, MappedCharge
<1> HIDE DEF S
<1>6. MappedHold' = [r \in Refs |-> IF r \in S THEN [MappedHold[r] EXCEPT !.status = "lapsed"]
                                               ELSE MappedHold[r]]
  BY <1>3 DEF MappedHold
<1>7. Promise!Lapse(S)
  BY <1>2, <1>5, <1>6 DEF Promise!Lapse
<1>. QED BY <1>4, <1>5, <1>7 DEF Promise!Next

LEMMA StepKeeps == Sound /\ [Next]_vars => [Promise!Next]_(Promise!vars)
<1> SUFFICES ASSUME Sound, [Next]_vars PROVE [Promise!Next]_(Promise!vars)
  OBVIOUS
<1>1. CASE UNCHANGED vars
  BY <1>1, MappedHoldKept, Unseen DEF vars
<1>2. ASSUME NEW r \in Steps, NEW c \in Costs, Reserve(r, c) \/ Settle(r, c) \/ DeductStep(r, c)
      PROVE  Promise!Next
  <2>1. r \in Refs /\ c \in Nat
    BY ConstantsTyped DEF Refs
  <2>2. CASE DeductStep(r, c)
    BY <2>1, <2>2, ChargesKeep DEF DeductStep
  <2>. QED BY <1>2, <2>2, ReserveKeeps, SettleKeeps
<1>3. ASSUME NEW r \in Steps, Renew(r) \/ Release(r) PROVE Promise!Next
  BY <1>3, RenewKeeps, ReleaseKeeps
<1>4. ASSUME NEW r \in Replies, Clamp(r) \/ \E c \in Costs : ChargeReply(r, c)
      PROVE  [Promise!Next]_(Promise!vars)
  BY <1>4, ReplyKeeps
<1>5. ASSUME NEW r \in Draws, Draw(r) \/ RefundDraw(r) PROVE Promise!Next
  <2>1. r \in Refs /\ Price \in Nat
    BY ConstantsTyped DEF Refs
  <2>2. CASE Draw(r)
    BY <2>1, <2>2, ChargesKeep DEF Draw
  <2>. QED BY <1>5, <2>2, RefundDrawKeeps
<1>6. CASE (\E e \in Instants : Reward(e)) \/ GrantSaved \/ ReleaseDrop
  BY <1>6, GiftKeeps
<1>7. CASE Sweep
  BY <1>7, SweepsKeep, MappedHoldKept DEF Sweep
<1>8. CASE Tick
  BY <1>8, TickKeeps
<1>9. ASSUME NEW v \in Visitors, FindCycleOver(v) PROVE UNCHANGED Promise!vars
  BY <1>9, MappedHoldKept, Unseen DEF FindCycleOver
<1>10. ASSUME NEW v \in Visitors, RenewCycle(v) PROVE [Promise!Next]_(Promise!vars)
  BY <1>10, RenewCycleKeeps
<1>. QED BY <1>1, <1>2, <1>3, <1>4, <1>5, <1>6, <1>7, <1>8, <1>9, <1>10, Zenon DEF Next

LEMMA InitKeeps == Init => Promise!Init
<1> SUFFICES ASSUME Init PROVE Promise!Init
  OBVIOUS
<1>1. wallet.balance = Opening /\ Opening \in Nat /\ refunded = {} /\ lost = 0
  BY ConstantsTyped DEF Init
<1>2. MappedHold = [r \in Refs |-> Promise!NoHold]
  BY DEF Init, MappedHold, AsHeld, Promise!NoHold, Promise!Ended
<1>3. MappedCharge = [r \in Refs |-> None]
  BY DEF Init, MappedCharge
<1>. QED BY <1>1, <1>2, <1>3 DEF Promise!Init

\* The wallet implements the ledger, over all amounts.
THEOREM WalletImplementsPromise == Spec => Promise!Spec
BY InitKeeps, StepKeeps, StaysSound, PTL DEF Spec, Promise!Spec

\* The two instances of the ledger differ in their amounts only.
LEMMA SameHeld == \A S : Ledger!Held(S) = Promise!Held(S)
BY Zenon DEF Ledger!Held, Promise!Held, MappedHold,
             Ledger!SumFunctionOnSet, Ledger!FoldFunctionOnSet, Ledger!MapThenFoldSet,
             Promise!SumFunctionOnSet, Promise!FoldFunctionOnSet, Promise!MapThenFoldSet

LEMMA SameActions ==
  ASSUME Credits = Nat
  PROVE  [Promise!Next]_(Promise!vars) => [Ledger!Next]_(Ledger!vars)
<1>1. Promise!vars = Ledger!vars /\ Promise!vars' = Ledger!vars'
  BY DEF Promise!vars, Ledger!vars, MappedHold, MappedCharge
<1>2. \A x \in Nat : Promise!Loses(x) <=> Ledger!Loses(x)
  BY DEF Promise!Loses, Ledger!Loses
<1>3. \A r \in Refs : (Promise!Release(r) <=> Ledger!Release(r)) /\ (Promise!Refund(r) <=> Ledger!Refund(r))
  BY DEF Promise!Release, Ledger!Release, Promise!Refund, Ledger!Refund, Promise!Ended, Ledger!Ended,
         MappedHold, MappedCharge
<1>4. \A S \in SUBSET Refs : Promise!Lapse(S) <=> Ledger!Lapse(S)
  BY DEF Promise!Lapse, Ledger!Lapse, MappedHold, MappedCharge
<1>5. \A c, x \in Nat : Promise!Fund(c, x) <=> Ledger!Fund(c, x)
  BY DEF Promise!Fund, Ledger!Fund, Promise!Left, Ledger!Left, MappedHold, MappedCharge
<1>6. \A r \in Refs, c, x \in Nat : Promise!Reserve(r, c, x) <=> Ledger!Reserve(r, c, x)
  BY SameHeld DEF Promise!Reserve, Ledger!Reserve, Promise!Left, Ledger!Left,
         Promise!HeldForOthers, Ledger!HeldForOthers, MappedHold, MappedCharge
<1>7. \A r \in Refs, c, x \in Nat : Promise!Settle(r, c, x) <=> Ledger!Settle(r, c, x)
  BY SameHeld DEF Promise!Settle, Ledger!Settle, Promise!Left, Ledger!Left,
         Promise!HeldForOthers, Ledger!HeldForOthers, Promise!Ended, Ledger!Ended,
         MappedHold, MappedCharge
<1>8. \A r \in Refs, c, x \in Nat : Promise!Deduct(r, c, x) <=> Ledger!Deduct(r, c, x)
  BY SameHeld DEF Promise!Deduct, Ledger!Deduct, Promise!Left, Ledger!Left, MappedHold, MappedCharge
<1>9. Promise!Next => Ledger!Next
  BY <1>2, <1>3, <1>4, <1>5, <1>6, <1>7, <1>8 DEF Promise!Next, Ledger!Next
<1>. QED BY <1>1, <1>9

\* The promise that the runs check, when its amounts are unbounded.
THEOREM WalletKeepsItsPromise ==
  ASSUME Credits = Nat
  PROVE  Spec => KeepsItsPromise
<1>1. Promise!Init => Ledger!Init
  BY DEF Promise!Init, Ledger!Init, MappedHold, MappedCharge, Promise!NoHold, Ledger!NoHold,
         Promise!Ended, Ledger!Ended
<1>2. [Promise!Next]_(Promise!vars) => [Ledger!Next]_(Ledger!vars)
  BY SameActions
<1>. QED BY <1>1, <1>2, WalletImplementsPromise, PTL DEF KeepsItsPromise, Ledger!Spec, Promise!Spec

\* The holds in force never exceed the balance, except by what was lost.
THEOREM WalletHoldsCovered == Spec => []HoldsCovered
<1>1. Nat \subseteq Nat /\ None \notin Nat /\ Promise!IsFiniteSet(Refs)
  BY ConstantsTyped, Zenon DEF IsFiniteSet, Promise!IsFiniteSet
<1>2. Promise!Spec => []Promise!TypeOK /\ []Promise!HoldsCovered
  BY <1>1, Promise!LedgerCovered
<1>3. Sound /\ Promise!HoldsCovered => HoldsCovered
  BY HeldAgrees DEF Promise!HoldsCovered, HoldsCovered
<1>. QED BY <1>2, <1>3, StaysSound, WalletImplementsPromise, PTL
=============================================================================
