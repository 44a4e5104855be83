------------------------------- MODULE Wallet -------------------------------
(***************************************************************************)
(* One user's wallet (wallets/services.py, wallets/lots.py): the balances, *)
(* the payment allocation of each business order, the recharge lots the    *)
(* balance came from, the refund receipts and the ledger.                  *)
(*                                                                         *)
(* Every operation takes the lock of the allocation and of the user's      *)
(* wallet and commits or raises as a whole, so an operation is one action  *)
(* and a raised ValidationError is no step.  Business code calls them in   *)
(* any order and repeats them: payment notifications, queries, expiry      *)
(* tasks and refund tasks race each other.                                 *)
(***************************************************************************)
EXTENDS Integers, FiniteSets, Functions, FiniteSetsExt

CONSTANTS
  Orders,        \* business orders that may be paid from the wallet
  Payable,       \* [Orders -> Nat], the amount of each order
  Recharges,     \* recharge orders, numbered in the order (discount rate, id)
                 \* in which lots are consumed
  Credited,      \* [Recharges -> Nat], the face value of each
  References,    \* refund_reference_no
  LegacyBalance  \* untracked balance from before lots existed

ASSUME WalletAssumption ==
  /\ Payable \in [Orders -> Nat]
  /\ Recharges \subseteq Nat
  /\ Credited \in [Recharges -> Nat \ {0}]
  /\ LegacyBalance \in Nat

VARIABLES
  available, frozen,  \* user_wallet
  alloc,              \* wallet_payment_allocation, by order
  lot,                \* wallet_balance_lot.available_amount, by recharge
  credited,           \* the recharge orders already credited
  debit,              \* wallet_lot_debit.amount, by order and recharge
  restored,           \* wallet_lot_debit.restored_amount
  receipt,            \* wallet_refund_receipt, by reference
  ledger              \* wallet_ledger_entry

vars == <<available, frozen, alloc, lot, credited, debit, restored, receipt, ledger>>

lots == <<lot, debit, restored>>

Refunded == {"consumed", "partially_refunded", "refunded"}

AllocStatuses == {"none", "held", "released"} \cup Refunded

Allocations ==
  [status: AllocStatuses, wallet: Nat, external: Nat,
   walletRefunded: Nat, externalRefunded: Nat, walletReleased: BOOLEAN]

NoAllocation ==
  [status |-> "none", wallet |-> 0, external |-> 0,
   walletRefunded |-> 0, externalRefunded |-> 0, walletReleased |-> FALSE]

Receipts == [order: Orders, wallet: Nat, external: Nat]

NoReceipt == [order |-> "none", wallet |-> 0, external |-> 0]

Entries == [kind: {"recharge", "hold", "consume", "release", "refund"},
            ref: Orders \cup Recharges \cup References, order: Orders \cup Recharges,
            available: Int, frozen: Int]

TypeOK ==
  /\ available \in Nat /\ frozen \in Nat
  /\ alloc \in [Orders -> Allocations]
  /\ lot \in [Recharges -> Nat]
  /\ credited \subseteq Recharges
  /\ debit \in [Orders -> [Recharges -> Nat]]
  /\ restored \in [Orders -> [Recharges -> Nat]]
  /\ receipt \in [References -> Receipts \cup {NoReceipt}]
  /\ ledger \subseteq Entries

Init ==
  /\ available = LegacyBalance /\ frozen = 0
  /\ alloc = [o \in Orders |-> NoAllocation]
  /\ lot = [r \in Recharges |-> 0]
  /\ credited = {}
  /\ debit = [o \in Orders |-> [r \in Recharges |-> 0]]
  /\ restored = [o \in Orders |-> [r \in Recharges |-> 0]]
  /\ receipt = [f \in References |-> NoReceipt]
  /\ ledger = {}

Least(a, b) == IF a <= b THEN a ELSE b

\* _append_ledger: idempotency_key, here (kind, ref), is unique in the table.
Append(kind, ref, order, av, fr) ==
  /\ ~\E e \in ledger : e.kind = kind /\ e.ref = ref
  /\ ledger' = ledger \cup {[kind |-> kind, ref |-> ref, order |-> order,
                             available |-> av, frozen |-> fr]}

-----------------------------------------------------------------------------
(* Lots.  Both loops walk the lots in order and stop when the amount is    *)
(* used up, so a lot takes what the lots before it have left over.         *)

Spread(amount, room) ==
  [r \in Recharges |->
     LET before == SumFunctionOnSet(room, {q \in Recharges : q < r})
     IN  IF before >= amount THEN 0 ELSE Least(amount - before, room[r])]

\* hold_lots; what the lots cannot cover comes from the legacy balance.
HoldLots(o, amount) ==
  /\ SumFunction(lot) <= available
  /\ LET taken == Spread(amount, lot)
     IN  /\ lot' = [r \in Recharges |-> lot[r] - taken[r]]
         /\ debit' = [debit EXCEPT ![o] = taken]
  /\ UNCHANGED restored

\* Mutant of RestoreLots: a return is not noted on the debit.
RestoreLots_NotNoted(o, amount) ==
  LET given == Spread(amount, [r \in Recharges |-> debit[o][r] - restored[o][r]])
  IN  /\ lot' = [r \in Recharges |-> lot[r] + given[r]]
      /\ UNCHANGED <<debit, restored>>

\* restore_lots, in the order of the debits, each capped by what it still owes
RestoreLots(o, amount) ==
  LET room  == [r \in Recharges |-> debit[o][r] - restored[o][r]]
      given == Spread(amount, room)
  IN  /\ \A r \in Recharges : lot[r] + given[r] <= Credited[r]
      /\ lot' = [r \in Recharges |-> lot[r] + given[r]]
      /\ restored' = [restored EXCEPT ![o] =
                        [r \in Recharges |-> restored[o][r] + given[r]]]
      /\ UNCHANGED debit

-----------------------------------------------------------------------------
(* Operations *)

\* _credit_recharge_order, the branch that credits a pending order
CreditRecharge(r) ==
  /\ r \notin credited
  /\ credited' = credited \cup {r}
  /\ lot' = [lot EXCEPT ![r] = Credited[r]]
  /\ available' = available + Credited[r]
  /\ Append("recharge", r, r, Credited[r], 0)
  /\ UNCHANGED <<frozen, alloc, debit, restored, receipt>>

\* prepare_wallet_payment for an order without an allocation.  An existing
\* allocation is returned, or refused when released: neither changes state.
PrepareWalletPayment(o, externalOnly) ==
  LET amount == IF externalOnly THEN 0 ELSE Least(available, Payable[o])
  IN  /\ alloc[o].status = "none"
      /\ alloc' = [alloc EXCEPT ![o] =
           [NoAllocation EXCEPT !.status = "held", !.wallet = amount,
                                !.external = Payable[o] - amount]]
      /\ IF amount = 0
         THEN UNCHANGED <<available, frozen, ledger, lots>>
         ELSE /\ HoldLots(o, amount)
              /\ available' = available - amount
              /\ frozen' = frozen + amount
              /\ Append("hold", o, o, -amount, amount)
      /\ UNCHANGED <<credited, receipt>>

\* Mutant of ConsumeWalletPayment: the status of the allocation is not looked at.
ConsumeWalletPayment_AnyStatus(o) ==
  /\ alloc[o].status # "none" /\ frozen >= alloc[o].wallet
  /\ alloc' = [alloc EXCEPT ![o].status = "consumed"]
  /\ frozen' = frozen - alloc[o].wallet
  /\ Append("consume", o, o, 0, -alloc[o].wallet)
  /\ UNCHANGED <<available, lots, credited, receipt>>

\* consume_wallet_payment; the other paid statuses return early
ConsumeWalletPayment(o) ==
  LET amount == alloc[o].wallet
  IN  /\ alloc[o].status = "held" /\ ~alloc[o].walletReleased
      /\ alloc' = [alloc EXCEPT ![o].status = "consumed"]
      /\ IF amount = 0
         THEN UNCHANGED <<frozen, ledger>>
         ELSE /\ frozen >= amount
              /\ frozen' = frozen - amount
              /\ Append("consume", o, o, 0, -amount)
      /\ UNCHANGED <<available, lots, credited, receipt>>

\* Mutant of ReleaseWalletPayment: released money leaves the frozen balance and arrives nowhere.
ReleaseWalletPayment_Loses(o) ==
  /\ alloc[o].status = "held" /\ frozen >= alloc[o].wallet
  /\ alloc' = [alloc EXCEPT ![o].status = "released", ![o].walletReleased = TRUE]
  /\ frozen' = frozen - alloc[o].wallet
  /\ UNCHANGED <<available, ledger, lots, credited, receipt>>

\* release_wallet_payment; any status but held returns early
ReleaseWalletPayment(o) ==
  LET amount == alloc[o].wallet
  IN  /\ alloc[o].status = "held"
      /\ alloc' = [alloc EXCEPT ![o].status = "released", ![o].walletReleased = TRUE]
      /\ IF amount = 0
         THEN UNCHANGED <<available, frozen, ledger, lots>>
         ELSE /\ frozen >= amount
              /\ frozen' = frozen - amount
              /\ available' = available + amount
              /\ RestoreLots(o, amount)
              /\ Append("release", o, o, amount, -amount)
      /\ UNCHANGED <<credited, receipt>>

\* The status a completed refund leaves behind.
StatusAfterRefund(a) ==
  IF /\ a.externalRefunded >= a.external
     /\ a.walletReleased \/ a.walletRefunded >= a.wallet
  THEN "refunded" ELSE "partially_refunded"

FreshReference(f) == receipt[f] = NoReceipt

\* complete_wallet_refund.  A reference that has a receipt returns early, or
\* is refused when order or amounts differ.
CompleteWalletRefund(o, f, wallet, external) ==
  LET a == [alloc[o] EXCEPT !.walletRefunded = @ + wallet,
                            !.externalRefunded = @ + external]
  IN  /\ alloc[o].status \notin {"none", "held"}
      /\ FreshReference(f)
      /\ a.walletRefunded <= a.wallet /\ a.externalRefunded <= a.external
      /\ alloc[o].walletReleased => wallet = 0
      /\ IF wallet = 0
         THEN UNCHANGED <<available, ledger, lots>>
         ELSE /\ RestoreLots(o, wallet)
              /\ available' = available + wallet
              /\ Append("refund", f, o, wallet, 0)
      /\ receipt' = [receipt EXCEPT ![f] = [order |-> o, wallet |-> wallet, external |-> external]]
      /\ alloc' = [alloc EXCEPT ![o] = [a EXCEPT !.status = StatusAfterRefund(a)]]
      /\ UNCHANGED <<frozen, credited>>

Refund(o) ==
  \E f \in References, w \in 0..Payable[o], x \in 0..Payable[o] :
    CompleteWalletRefund(o, f, w, x)

Next ==
  \/ \E r \in Recharges : CreditRecharge(r)
  \/ \E o \in Orders :
       \/ \E externalOnly \in BOOLEAN : PrepareWalletPayment(o, externalOnly)
       \/ ConsumeWalletPayment(o)
       \/ ReleaseWalletPayment(o)
       \/ Refund(o)

Spec == Init /\ [][Next]_vars

-----------------------------------------------------------------------------
(* Properties *)

HeldAmount(o) == IF alloc[o].status = "held" THEN alloc[o].wallet ELSE 0

\* frozen_balance is what the held allocations hold, so that the check "frozen
\* balance too small, manual review" of consume and release never fires.
FrozenIsHeld == frozen = MapThenSumSet(HeldAmount, Orders)

\* The balances are the sum of the ledger, whatever raced.
LedgerBalances ==
  /\ available = LegacyBalance + MapThenSumSet(LAMBDA e : e.available, ledger)
  /\ frozen = MapThenSumSet(LAMBDA e : e.frozen, ledger)

\* Lots never promise more than the wallet has: hold_lots never refuses a
\* payment with "lot balances are inconsistent".
LotsWithinAvailable == SumFunction(lot) <= available

\* Every cent of a lot is in the lot or owed to it by an unreturned debit, and
\* a lot is never filled beyond its face value, so restore_lots never refuses
\* a release or a refund.
LotsConserved ==
  \A r \in Recharges :
    (IF r \in credited THEN Credited[r] ELSE 0) =
      lot[r] + MapThenSumSet(LAMBDA o : debit[o][r] - restored[o][r], Orders)

\* When all of an order's wallet money is back, all of its lots are, too:
\* the discounts bought with a recharge survive a cancelled order.
ReturnRestoresLots ==
  \A o \in Orders :
    (alloc[o].walletReleased \/ alloc[o].walletRefunded = alloc[o].wallet)
      => restored[o] = debit[o]

Recorded(kind, o) == \E e \in ledger : e.kind = kind /\ e.order = o

\* An order's wallet money leaves the frozen balance once, by consumption or by
\* release, and comes back at most once: a release excludes a wallet refund, and
\* refunds never exceed what was consumed.
ReturnedOnce ==
  \A o \in Orders :
    /\ ~(Recorded("consume", o) /\ Recorded("release", o))
    /\ Recorded("refund", o) => Recorded("consume", o)
    /\ alloc[o].walletRefunded <= alloc[o].wallet
    /\ alloc[o].walletReleased => alloc[o].walletRefunded = 0

\* Why ReturnedOnce holds: the status and the flags of an allocation say which
\* ledger entries its order can have.
MoneyInv ==
  \A o \in Orders :
    /\ alloc[o].walletRefunded <= alloc[o].wallet
    /\ alloc[o].status \in {"none", "held"} =>
         ~alloc[o].walletReleased /\ alloc[o].walletRefunded = 0
    /\ alloc[o].status = "none" => alloc[o].wallet = 0
    /\ alloc[o].status = "released" => alloc[o].walletReleased
    /\ alloc[o].walletReleased => alloc[o].walletRefunded = 0
    /\ Recorded("release", o) => alloc[o].walletReleased
    /\ Recorded("consume", o) =>
         alloc[o].status \in Refunded /\ ~alloc[o].walletReleased
    /\ Recorded("refund", o) => Recorded("consume", o)
    /\ (alloc[o].status \in Refunded /\ ~alloc[o].walletReleased /\ alloc[o].wallet > 0)
         => Recorded("consume", o)

\* The refunded amounts of an allocation are the sum of its receipts: a retried
\* refund reference is never applied twice.
ReceiptsAddUp ==
  \A o \in Orders :
    LET mine == {f \in References : receipt[f].order = o}
    IN  /\ alloc[o].walletRefunded = MapThenSumSet(LAMBDA f : receipt[f].wallet, mine)
        /\ alloc[o].externalRefunded = MapThenSumSet(LAMBDA f : receipt[f].external, mine)

\* A held allocation can always be consumed and released: no check of the
\* frozen balance, of the lots or of an idempotency key stands in the way.
HeldCanLeave ==
  \A o \in Orders : alloc[o].status = "held" =>
    ENABLED ConsumeWalletPayment(o) /\ ENABLED ReleaseWalletPayment(o)

-----------------------------------------------------------------------------
(* The wallet keeps the promise of WalletPromise. *)

Stage(a) ==
  CASE a.status = "none"   -> "open"
    [] a.status = "held"   -> "reserved"
    [] a.walletReleased    -> "returned"
    [] OTHER               -> "spent"

Promise == INSTANCE WalletPromise WITH
  balance  <- available,
  stage    <- [o \in Orders |-> Stage(alloc[o])],
  taken    <- [o \in Orders |-> alloc[o].wallet],
  returned <- [o \in Orders |->
                 IF alloc[o].walletReleased THEN alloc[o].wallet ELSE alloc[o].walletRefunded]

\* Holds, consumptions, releases and refunds, in any order and repeated, move
\* the available balance only as WalletPromise allows.
KeepsPromise == Promise!Spec
=============================================================================
