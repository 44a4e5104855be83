---------------------------- MODULE WalletPromise ----------------------------
(***************************************************************************)
(* What the wallet promises its owner, without lots, receipts, ledger or   *)
(* statuses: money that an order reserves is taken from the balance once   *)
(* and never exceeds it, and it is either spent or returned in full; of    *)
(* spent money, refunds return at most what was taken.                     *)
(***************************************************************************)
EXTENDS Integers

CONSTANTS Orders

VARIABLES balance, stage, taken, returned

vars == <<balance, stage, taken, returned>>

Init ==
  /\ balance \in Nat
  /\ stage = [o \in Orders |-> "open"]
  /\ taken = [o \in Orders |-> 0]
  /\ returned = [o \in Orders |-> 0]

Deposit ==
  /\ balance' \in Nat /\ balance' > balance
  /\ UNCHANGED <<stage, taken, returned>>

Reserve(o) ==
  /\ stage[o] = "open"
  /\ \E n \in 0..balance :
       /\ balance' = balance - n
       /\ taken' = [taken EXCEPT ![o] = n]
  /\ stage' = [stage EXCEPT ![o] = "reserved"]
  /\ UNCHANGED returned

Spend(o) ==
  /\ stage[o] = "reserved"
  /\ stage' = [stage EXCEPT ![o] = "spent"]
  /\ UNCHANGED <<balance, taken, returned>>

GiveBack(o) ==
  /\ stage[o] = "reserved"
  /\ stage' = [stage EXCEPT ![o] = "returned"]
  /\ returned' = [returned EXCEPT ![o] = taken[o]]
  /\ balance' = balance + taken[o]
  /\ UNCHANGED taken

Refund(o) ==
  /\ stage[o] = "spent"
  /\ \E n \in 0..(taken[o] - returned[o]) :
       /\ balance' = balance + n
       /\ returned' = [returned EXCEPT ![o] = @ + n]
  /\ UNCHANGED <<stage, taken>>

Next ==
  \/ Deposit
  \/ \E o \in Orders : Reserve(o) \/ Spend(o) \/ GiveBack(o) \/ Refund(o)

Spec == Init /\ [][Next]_vars
=============================================================================
