---------------------------- MODULE CreditLedger ----------------------------
(***************************************************************************)
(* What a wallet promises to those who spend from it, without saying how.  *)
(* A piece of work is known by its reference.  Credits can be held for it  *)
(* before it runs, and it is charged at most once, never out of what is    *)
(* held for other work.  Credits that are lost - a promotion that fell     *)
(* due, the rest of a month at its renewal - are not protected by a hold:  *)
(* lost counts them, since they are the only way a hold can outgrow the    *)
(* balance.                                                                *)
(*                                                                         *)
(* CreditWallet implements this, and StudioRun works against it.  The      *)
(* theorems about it are in CreditLedgerProofs; they take the assumptions  *)
(* on the constants as hypotheses, so that both can use them.              *)
(***************************************************************************)
EXTENDS Integers, Functions

CONSTANTS
  Refs,     \* references of the work that is charged
  Credits,  \* the amounts of the instance
  None      \* not charged

VARIABLES
  balance,   \* credits in the wallet
  hold,      \* what is held for each reference
  charge,    \* what each reference was charged
  refunded,  \* the references whose charge was given back
  lost       \* credits lost so far

vars == <<balance, hold, charge, refunded, lost>>

Statuses == {"none", "active", "lapsed", "released", "settled"}
Ended(s) == [status |-> s, credits |-> 0]
NoHold == Ended("none")

TypeOK ==
  /\ balance \in Nat /\ lost \in Nat
  /\ hold \in [Refs -> [status : Statuses, credits : Nat]]
  /\ charge \in [Refs -> Nat \cup {None}]
  /\ refunded \subseteq Refs

Init ==
  /\ balance \in Credits
  /\ hold = [r \in Refs |-> NoHold]
  /\ charge = [r \in Refs |-> None]
  /\ refunded = {}
  /\ lost = 0

\* What is held for the references of S.
Held(S) ==
  SumFunctionOnSet([r \in Refs |-> hold[r].credits],
                   {r \in S : hold[r].status = "active"})
HeldForOthers(r) == Held(Refs \ {r})

\* The balance less the x credits that this step finds lost.
Left(x) == balance - x
Loses(x) == x <= balance /\ lost' = lost + x

Reserve(r, c, x) ==
  /\ hold' = [hold EXCEPT ![r] = [status |-> "active", credits |-> c]]
  /\ hold[r].status # "settled"
  /\ c = 0 \/ c + HeldForOthers(r) <= Left(x)
  /\ balance' = Left(x)
  /\ UNCHANGED <<charge, refunded>>

Release(r) ==
  /\ hold[r].status \in {"active", "lapsed"}
  /\ hold' = [hold EXCEPT ![r] = Ended("released")]
  /\ UNCHANGED <<balance, charge, refunded>>

Lapse(S) ==
  /\ \A r \in S : hold[r].status = "active"
  /\ hold' = [r \in Refs |-> IF r \in S THEN [hold[r] EXCEPT !.status = "lapsed"]
                                        ELSE hold[r]]
  /\ UNCHANGED <<balance, charge, refunded>>

\* A hold is settled once, whatever has become of it since, and by no more
\* than what is free of the holds of others.
Settle(r, c, x) ==
  /\ hold' = [hold EXCEPT ![r] = Ended("settled")]
  /\ hold[r].status \notin {"none", "settled"}
  /\ \/ /\ charge[r] = None /\ c > 0
        /\ c + HeldForOthers(r) <= Left(x)
        /\ charge' = [charge EXCEPT ![r] = c]
        /\ balance' = Left(x) - c
     \/ /\ charge[r] # None \/ c = 0
        /\ balance' = Left(x) /\ UNCHANGED charge
  /\ UNCHANGED refunded

\* Work without a hold of its own.
Deduct(r, c, x) ==
  /\ charge[r] = None /\ c > 0
  /\ charge' = [charge EXCEPT ![r] = c]
  /\ c + Held(Refs) <= Left(x)
  /\ balance' = Left(x) - c
  /\ UNCHANGED <<hold, refunded>>

Refund(r) ==
  /\ charge[r] # None /\ r \notin refunded
  /\ refunded' = refunded \cup {r}
  /\ balance' = balance + charge[r]
  /\ UNCHANGED <<hold, charge>>

\* Grants, purchases, renewals, and promotions that fall due.
Fund(c, x) ==
  /\ balance' = Left(x) + c
  /\ UNCHANGED <<hold, charge, refunded>>

Next ==
  \/ /\ Loses(0)
     /\ \/ \E r \in Refs : Release(r) \/ Refund(r)
        \/ \E S \in SUBSET Refs : Lapse(S)
  \/ \E x \in Credits :
       /\ Loses(x)
       /\ \E c \in Credits :
            \/ Fund(c, x)
            \/ \E r \in Refs : Reserve(r, c, x) \/ Settle(r, c, x) \/ Deduct(r, c, x)

Spec == Init /\ [][Next]_vars

-----------------------------------------------------------------------------
\* What is held never exceeds what is there, but for what was lost.
HoldsCovered == Held(Refs) <= balance + lost

\* A charge is never taken again, changed or forgotten, and a settled hold
\* stays settled.
ChargesAreFinal ==
  [][\A r \in Refs :
       /\ charge[r] # None => charge'[r] = charge[r]
       /\ hold[r].status = "settled" => hold'[r].status = "settled"]_vars
=============================================================================
