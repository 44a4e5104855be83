------------------------------ MODULE MCWallet ------------------------------
(* Instance of Wallet for TLC: one order smaller than the lots, one larger. *)
EXTENDS Wallet, TLC

CONSTANTS small, large

MCOrders == {small, large}
MCPayable == (small :> 2) @@ (large :> 3)
MCRecharges == 1..2
MCCredited == (1 :> 1) @@ (2 :> 2)

-----------------------------------------------------------------------------
\* The wallet's columns, its ledger, its lots and its receipts tell one story: the balance is
\* what the ledger says, what is frozen is held by an order, lots cover what is available and
\* are neither created nor lost by a return, and a hold can be consumed or released.
LedgersAgree ==
  /\ TypeOK /\ FrozenIsHeld /\ LedgerBalances /\ LotsWithinAvailable /\ LotsConserved
  /\ ReturnRestoresLots /\ ReceiptsAddUp /\ HeldCanLeave
=============================================================================
