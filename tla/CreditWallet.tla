---------------------------- MODULE CreditWallet ----------------------------
(***************************************************************************)
(* One wallet: its three kinds of credits, the holds that Studio places on *)
(* it, and everything that spends from it or adds to it.  Every action is  *)
(* a transaction under the lock of the wallet row, except that a reply is  *)
(* charged in as many attempts as it takes and that a renewal looks at the *)
(* wallet before it takes the lock.                                        *)
(*                                                                         *)
(* balance is the total.  addon is the part of it that outlives the month, *)
(* and bonus the part of addon that expires, by its date; what is left of  *)
(* addon is saved for good.  Amounts are in the unit of a hold, tenths of  *)
(* a credit, so nothing is rounded.                                        *)
(***************************************************************************)
EXTENDS Integers, FiniteSets, Functions

CONSTANTS
  Steps,         \* usage references of Studio steps, which can hold credits
  Replies,       \* usage references of chat replies
  Draws,         \* references of illustrations
  Costs,         \* what a step or a reply may cost
  Price,         \* of one illustration
  Horizon,       \* the last instant of the behaviour
  Lease,         \* how long a hold lasts
  Period,        \* length of a cycle
  DropDay,       \* when in the cycle the second part of the plan is paid
  Opening,       \* monthly credits at the start
  Grant,         \* first and
  Drop,          \* second part of a cycle's plan
  MaxGifts,      \* bound on rewards and grants, one credit each
  Credits,       \* the amounts that the promise ranges over
  Visitors,      \* requests that find a cycle over
  None           \* no usage row, nothing seen

Refs == Steps \cup Replies \cup Draws
Instants == 1 .. Horizon
UsageRows == [amount : Nat \ {0}, saved : Nat, addon : Nat]

ASSUME WalletAssumption ==
  /\ IsFiniteSet(Refs)
  /\ Costs \subseteq Credits /\ Credits \subseteq Nat /\ Price \in Nat \ {0}
  /\ {Horizon, Lease, Period} \subseteq Nat \ {0}
  /\ {DropDay, Opening, Grant, Drop, MaxGifts} \subseteq Nat
  /\ None \notin Nat \cup UsageRows

VARIABLES
  now,       \* the clock
  wallet,    \* the row of creditWallets, its bonus lots and its ledger
  hold,      \* studioCreditReservations by reference
  usage,     \* usage rows of the ledger, with what they were paid from
  call,      \* deductCreditsUpToBalance of each reply
  refunded,  \* illustrations with a refund row
  seen,      \* the end of the cycle that each visitor found over
  lost       \* credits that expired or were reset

vars == <<now, wallet, hold, usage, call, refunded, seen, lost>>

\* The bonus that expires by each instant.
BonusBy(w) == LET sum[n \in 0 .. Horizon] == IF n = 0 THEN 0 ELSE sum[n - 1] + w.bonus[n]
              IN sum
TotalBonus(w) == BonusBy(w)[Horizon]
Monthly(w) == w.balance - w.addon
Saved(w) == w.addon - TotalBonus(w)

Least(a, b) == IF a < b THEN a ELSE b
AtLeast0(a) == IF a < 0 THEN 0 ELSE a

Init ==
  /\ now = 0
  /\ wallet = [balance |-> Opening, addon |-> 0, bonus |-> [e \in Instants |-> 0],
               periodEnd |-> Period, drops |-> 1, recorded |-> Opening,
               rewards |-> 0, granted |-> 0, cycles |-> 1]
  /\ hold = [r \in Refs |-> [status |-> "none", credits |-> 0, expires |-> 0]]
  /\ usage = [r \in Refs |-> None]
  /\ call = [r \in Replies |-> [pc |-> "idle", ask |-> 0, attempt |-> 0]]
  /\ refunded = {}
  /\ seen = [v \in Visitors |-> None]
  /\ lost = 0

-----------------------------------------------------------------------------
(* Promotions, holds and the order in which credits are spent.             *)

Due(w) == BonusBy(w)[now]
\* A wallet that disagrees with its lots refuses every transaction.
Consistent(w) == Due(w) <= w.addon /\ Due(w) <= w.balance
SweptButAddon ==
  [wallet EXCEPT !.balance = @ - Due(wallet), !.recorded = @ - Due(wallet),
                 !.bonus = [e \in Instants |-> IF e <= now THEN 0 ELSE @[e]]]
Swept ==
  [wallet EXCEPT !.balance = @ - Due(wallet), !.addon = @ - Due(wallet),
                 !.bonus = [e \in Instants |-> IF e <= now THEN 0 ELSE @[e]],
                 !.recorded = @ - Due(wallet)]
\* A transaction that commits after expireWalletBonus.
Commits(w) ==
  /\ Consistent(wallet)
  /\ wallet' = w
  /\ lost' = lost + Due(wallet)

Active(r) == hold[r].status = "active" /\ hold[r].expires > now
Held(S) ==
  SumFunctionOnSet([r \in Refs |-> hold[r].credits], {r \in S : Active(r)})
HeldForNobody(r) == 0
HeldForOthers(r) == Held(Refs \ {r})

\* allocateWalletSpend: what expires first is spent first, the month before
\* a promotion of the same date, and what is saved last.
EarlierBonus(w, e) == BonusBy(w)[Least(e - 1, Horizon)]
FromMonthly(w, c) ==
  Least(AtLeast0(c - EarlierBonus(w, w.periodEnd)), AtLeast0(Monthly(w)))
BonusAfterMonth(w, c, e) == Least(AtLeast0(c - AtLeast0(Monthly(w))), w.bonus[e])
FromBonus(w, c, e) ==
  LET earlier == EarlierBonus(w, e)
                   + (IF w.periodEnd <= e THEN AtLeast0(Monthly(w)) ELSE 0)
  IN Least(AtLeast0(c - earlier), w.bonus[e])

Spent(w, c) ==
  [w EXCEPT !.balance = @ - c,
            !.addon = AtLeast0(@ - (c - FromMonthly(w, c))),
            !.bonus = [e \in Instants |-> @[e] - FromBonus(w, c, e)],
            !.recorded = @ - c]
UsageRow(w, c) == [amount |-> c, saved |-> Saved(w) - Saved(Spent(w, c)),
                   addon |-> AtLeast0(wallet.addon - Spent(w, c).addon)]

-----------------------------------------------------------------------------
(* The steps of Studio.                                                    *)

\* reserveStudioCredits: refused only what exceeds the wallet less the holds
\* of others.
Reserve(r, c) ==
  /\ hold[r].status # "settled"
  /\ c = 0 \/ c + HeldForOthers(r) <= Swept.balance
  /\ Commits(Swept)
  /\ hold' = [hold EXCEPT ![r] = [status |-> "active", credits |-> c,
                                  expires |-> now + Lease]]
  /\ UNCHANGED <<now, usage, call, refunded, seen>>

\* renewStudioCreditReservation commits whether it renews or not.
Renew(r) ==
  /\ hold[r].status # "none"
  /\ Commits(Swept)
  /\ hold' = IF Active(r) /\ Swept.balance >= Held(Refs)
             THEN [hold EXCEPT ![r].expires = now + Lease] ELSE hold
  /\ UNCHANGED <<now, usage, call, refunded, seen>>

\* Nobody reads what a hold that has ended held.
Ended(s) == [status |-> s, credits |-> 0, expires |-> 0]

Release(r) ==
  /\ hold[r].status = "active"
  /\ hold' = [hold EXCEPT ![r] = Ended("released")]
  /\ UNCHANGED <<now, wallet, usage, call, refunded, seen, lost>>

\* settleStudioCreditReservation: one that was settled before, or whose
\* reference already has a usage row, charges nothing.
Settle(r, c) ==
  /\ hold[r].status # "none"
  /\ hold' = [hold EXCEPT ![r] = Ended("settled")]
  /\ \/ /\ hold[r].status = "settled" \/ usage[r] # None \/ c = 0
        /\ Commits(Swept) /\ UNCHANGED usage
     \/ /\ hold[r].status # "settled" /\ usage[r] = None /\ c > 0
        /\ c + HeldForOthers(r) <= Swept.balance
        /\ Commits(Spent(Swept, c))
        /\ usage' = [usage EXCEPT ![r] = UsageRow(Swept, c)]
  /\ UNCHANGED <<now, call, refunded, seen>>

Overdrafts(r, c) ==
  /\ c > 0 /\ usage[r] = None
  /\ Commits(Spent(Swept, c))
  /\ usage' = [usage EXCEPT ![r] = UsageRow(Swept, c)]
ChargesAgain(r, c) ==
  /\ c > 0 /\ c + Held(Refs) <= Swept.balance
  /\ Commits(Spent(Swept, c))
  /\ usage' = [usage EXCEPT ![r] = UsageRow(Swept, c)]

\* deductCredits for c credits, under a reference that may be charged already.
Charges(r, c) ==
  /\ c > 0
  /\ \/ usage[r] # None /\ Commits(Swept) /\ UNCHANGED usage
     \/ /\ usage[r] = None
        /\ c + Held(Refs) <= Swept.balance
        /\ Commits(Spent(Swept, c))
        /\ usage' = [usage EXCEPT ![r] = UsageRow(Swept, c)]
Refused(r, c) ==
  c > 0 /\ usage[r] = None /\ c + Held(Refs) > Swept.balance
Available == AtLeast0(Swept.balance - Held(Refs))

\* A resumed step, whose hold was not taken again.
DeductStep(r, c) ==
  Charges(r, c) /\ UNCHANGED <<now, hold, call, refunded, seen>>

-----------------------------------------------------------------------------
(* A reply is charged after it was generated: in full or, when the wallet  *)
(* does not reach, by what its last refusal said was left.                 *)

MaxClamps == 3
Asks(r, pc, ask, attempt) ==
  call' = [call EXCEPT ![r] = [pc |-> pc, ask |-> ask, attempt |-> attempt]]

ChargeReply(r, c) ==
  /\ call[r].pc = "idle"
  /\ \/ Charges(r, c) /\ Asks(r, "done", 0, 0)
     \/ /\ Refused(r, c) /\ Consistent(wallet)
        /\ IF Available > 0 THEN Asks(r, "clamp", Available, 0)
                            ELSE Asks(r, "done", 0, 0)
        /\ UNCHANGED <<wallet, usage, lost>>
  /\ UNCHANGED <<now, hold, refunded, seen>>

Clamp(r) ==
  /\ call[r].pc = "clamp"
  /\ \/ Charges(r, call[r].ask) /\ Asks(r, "done", 0, 0)
     \/ /\ Refused(r, call[r].ask) /\ Consistent(wallet)
        /\ IF Available > 0 /\ call[r].attempt + 1 < MaxClamps
           THEN Asks(r, "clamp", Available, call[r].attempt + 1)
           ELSE Asks(r, "done", 0, 0)
        /\ UNCHANGED <<wallet, usage, lost>>
  /\ UNCHANGED <<now, hold, refunded, seen>>

-----------------------------------------------------------------------------
(* Illustrations are paid for before they are drawn, and given back once.  *)

Draw(r) ==
  Charges(r, Price) /\ UNCHANGED <<now, hold, call, refunded, seen>>

RefundDraw(r) ==
  /\ usage[r] # None /\ r \notin refunded
  /\ refunded' = refunded \cup {r}
  /\ wallet' = [wallet EXCEPT
       !.balance = @ + usage[r].amount,
       !.addon = @ + Least(usage[r].amount, usage[r].addon),
       !.recorded = @ + usage[r].amount]
  /\ UNCHANGED <<now, hold, usage, call, seen, lost>>

-----------------------------------------------------------------------------
(* What adds to the wallet, and the passing of time.                       *)

Gifts == wallet.rewards + wallet.granted

Reward(e) ==
  /\ Gifts < MaxGifts /\ e > now
  /\ wallet' = [wallet EXCEPT !.balance = @ + 1, !.addon = @ + 1,
                              !.bonus[e] = @ + 1, !.recorded = @ + 1,
                              !.rewards = @ + 1]
  /\ UNCHANGED <<now, hold, usage, call, refunded, seen, lost>>

GrantSaved ==
  /\ Gifts < MaxGifts
  /\ wallet' = [wallet EXCEPT !.balance = @ + 1, !.addon = @ + 1,
                              !.recorded = @ + 1, !.granted = @ + 1]
  /\ UNCHANGED <<now, hold, usage, call, refunded, seen, lost>>

\* expireDueBonusBatch, and getAvailableCredits.
Sweep ==
  /\ Due(wallet) > 0
  /\ Commits(Swept)
  /\ UNCHANGED <<now, hold, usage, call, refunded, seen>>

\* releaseDueDrops, while the cycle runs.
ReleaseDrop ==
  /\ now < wallet.periodEnd
  /\ now >= wallet.periodEnd - Period + DropDay
  /\ wallet.drops = 1
  /\ wallet' = [wallet EXCEPT !.balance = @ + Drop, !.recorded = @ + Drop,
                              !.drops = 2]
  /\ UNCHANGED <<now, hold, usage, call, refunded, seen, lost>>

\* refreshMonthlyCredits reads the wallet, and then renews the cycle that it
\* read if the locked row still is in it.
FindCycleOver(v) ==
  /\ seen[v] = None /\ now >= wallet.periodEnd
  /\ seen' = [seen EXCEPT ![v] = wallet.periodEnd]
  /\ UNCHANGED <<now, wallet, hold, usage, call, refunded, lost>>

AnyCycle(v) == TRUE
StillOver(v) == seen[v] = wallet.periodEnd
WholeBalance(w) == w.balance
Discarded(w) == AtLeast0(w.balance - AtLeast0(w.addon))
RenewCycle(v) ==
  /\ seen[v] # None
  /\ seen' = [seen EXCEPT ![v] = None]
  /\ IF StillOver(v)
     THEN /\ wallet' = [wallet EXCEPT
               !.balance = Grant + wallet.addon,
               !.recorded = @ - Discarded(wallet) + Grant,
               !.periodEnd = seen[v] + (1 + (now - seen[v]) \div Period) * Period,
               !.drops = 1, !.cycles = @ + 1]
          /\ lost' = lost + Discarded(wallet)
     ELSE UNCHANGED <<wallet, lost>>
  /\ UNCHANGED <<now, hold, usage, call, refunded>>

Tick ==
  /\ now < Horizon
  /\ now' = now + 1
  /\ UNCHANGED <<wallet, hold, usage, call, refunded, seen, lost>>

Next ==
  \/ \E r \in Steps : \/ \E c \in Costs : Reserve(r, c) \/ Settle(r, c) \/ DeductStep(r, c)
                      \/ Renew(r) \/ Release(r)
  \/ \E r \in Replies : Clamp(r) \/ \E c \in Costs : ChargeReply(r, c)
  \/ \E r \in Draws : Draw(r) \/ RefundDraw(r)
  \/ \E e \in Instants : Reward(e)
  \/ GrantSaved \/ Sweep \/ ReleaseDrop \/ Tick
  \/ \E v \in Visitors : FindCycleOver(v) \/ RenewCycle(v)

Spec == Init /\ [][Next]_vars

-----------------------------------------------------------------------------
TypeOK ==
  /\ now \in 0 .. Horizon
  /\ wallet \in [balance : Nat, addon : Nat, bonus : [Instants -> Nat],
                 periodEnd : Nat, drops : 1 .. 2, recorded : Int,
                 rewards : 0 .. MaxGifts, granted : 0 .. MaxGifts, cycles : Nat]
  /\ hold \in [Refs -> [status : {"none", "active", "released", "settled"},
                        credits : Nat, expires : Nat]]
  /\ \A r \in Refs :
       usage[r] # None => usage[r] \in UsageRows
  /\ call \in [Replies -> [pc : {"idle", "clamp", "done"}, ask : Nat,
                           attempt : 0 .. MaxClamps - 1]]
  /\ refunded \subseteq Draws
  /\ \A v \in Visitors : seen[v] # None => seen[v] \in Nat
  /\ lost \in Nat

\* The three kinds of credits fit into each other.  A wallet of which this
\* fails refuses every later transaction with BONUS_BALANCE_MISMATCH.
BucketsFit == TotalBonus(wallet) <= wallet.addon /\ wallet.addon <= wallet.balance

\* Every movement of the balance is a row of the ledger, also when a cycle
\* is renewed or a promotion expires.
LedgerAddsUp == wallet.recorded = wallet.balance

\* What was granted for good is neither lost to a date nor to a renewal: it is in the
\* wallet, or a usage row says it was spent, or an illustration that was not
\* drawn put it back together with what else its charge took out of addon.
PutBack(r) == Least(usage[r].amount, usage[r].addon)
SavedIsAccountedFor ==
  Saved(wallet) + SumFunctionOnSet([r \in Refs |-> IF usage[r] = None THEN 0 ELSE usage[r].saved], Refs)
    = wallet.granted + SumFunctionOnSet([r \in Refs |-> IF r \in refunded THEN PutBack(r) ELSE 0], Refs)

\* The holds that are in force never exceed the balance, except by credits
\* that expired or were reset under them.
HoldsCovered == Held(Refs) <= wallet.balance + lost

\* A renewal grants a cycle's credits once, however many requests found the
\* cycle over at the same time.
OneGrantPerCycle ==
  [][wallet'.cycles # wallet.cycles => wallet'.periodEnd > wallet.periodEnd]_vars

-----------------------------------------------------------------------------
(* The promise of the wallet.                                              *)

AsHeld(h) ==
  [status |-> IF h.status = "active" /\ h.expires <= now THEN "lapsed" ELSE h.status,
   credits |-> h.credits]

Ledger == INSTANCE CreditLedger WITH
  balance <- wallet.balance,
  hold <- [r \in Refs |-> AsHeld(hold[r])],
  charge <- [r \in Refs |-> IF usage[r] = None THEN None ELSE usage[r].amount]

\* Each reference is charged at most once and never out of what is held for
\* others, a settled hold stays settled, and a lapsed one comes back only by
\* reserving anew.
KeepsItsPromise == Ledger!Spec
=============================================================================
