---------------------------- MODULE WalletProofs ----------------------------
(***************************************************************************)
(* For any orders, recharges, references and amounts: an order's wallet    *)
(* money comes back at most once, and Wallet implements WalletPromise.     *)
(* What the lots and the sums over them do is checked by TLC only.         *)
(***************************************************************************)
EXTENDS Wallet, TLAPS

BalanceOK == available \in Nat /\ alloc \in [Orders -> Allocations]

\* What Append adds to the ledger.
LEMMA AppendRecords ==
  ASSUME NEW kind, NEW ref, NEW order, NEW av, NEW fr, Append(kind, ref, order, av, fr)
  PROVE  \A k, o : Recorded(k, o)' <=> Recorded(k, o) \/ (k = kind /\ o = order)
<1> DEFINE new == [kind |-> kind, ref |-> ref, order |-> order,
                   available |-> av, frozen |-> fr]
<1>1. ledger' = ledger \cup {new}
  BY DEF Append
<1>2. new.kind = kind /\ new.order = order
  OBVIOUS
<1> HIDE DEF new
<1>3. ASSUME NEW k, NEW o
      PROVE  Recorded(k, o)' <=> Recorded(k, o) \/ (k = kind /\ o = order)
  BY <1>1, <1>2, Zenon DEF Recorded
<1>4. QED
  BY <1>3

LEMMA LeastIsNat ==
  ASSUME NEW a \in Nat, NEW b \in Nat
  PROVE  Least(a, b) \in Nat /\ Least(a, b) <= a /\ Least(a, b) <= b
BY DEF Least

-----------------------------------------------------------------------------
(* One lemma per operation: what it does to the balance, to the allocation *)
(* of its order and to the ledger.                                         *)

Kept == UNCHANGED <<alloc, ledger>>

LEMMA CreditEffect ==
  ASSUME BalanceOK, NEW r \in Recharges, CreditRecharge(r)
  PROVE  /\ alloc' = alloc
         /\ available' \in Nat /\ available' > available
         /\ \A k, o : k # "recharge" => (Recorded(k, o)' <=> Recorded(k, o))
<1>1. Credited[r] \in Nat \ {0}
  BY WalletAssumption
<1>2. alloc' = alloc /\ available' = available + Credited[r]
      /\ Append("recharge", r, r, Credited[r], 0)
  BY DEF CreditRecharge
<1>3. QED
  BY <1>1, <1>2, AppendRecords DEF BalanceOK

LEMMA PrepareEffect ==
  ASSUME BalanceOK, NEW o \in Orders, NEW x \in BOOLEAN, PrepareWalletPayment(o, x)
  PROVE  \E n \in 0..available, ext \in Nat :
           /\ alloc[o].status = "none"
           /\ alloc' = [alloc EXCEPT ![o] = [NoAllocation EXCEPT
                          !.status = "held", !.wallet = n, !.external = ext]]
           /\ available' = available - n
           /\ \A k, q : k # "hold" => (Recorded(k, q)' <=> Recorded(k, q))
<1> DEFINE n == IF x THEN 0 ELSE Least(available, Payable[o])
<1>1. Payable[o] \in Nat /\ available \in Nat
  BY WalletAssumption DEF BalanceOK
<1>2. n \in 0..available /\ Payable[o] - n \in Nat
  <2>1. CASE x
    BY <1>1, <2>1
  <2>2. CASE ~x
    <3> DEFINE m == Least(available, Payable[o])
    <3>1. m \in Nat /\ m <= available /\ m <= Payable[o]
      BY <1>1, LeastIsNat
    <3>2. n = m
      BY <2>2
    <3> HIDE DEF m, n
    <3>3. QED
      BY <1>1, <3>1, <3>2
  <2>3. QED
    BY <2>1, <2>2
<1>3. /\ alloc[o].status = "none"
      /\ alloc' = [alloc EXCEPT ![o] = [NoAllocation EXCEPT
                     !.status = "held", !.wallet = n, !.external = Payable[o] - n]]
  BY DEF PrepareWalletPayment
<1>4. CASE n = 0
  <2>1. available' = available /\ ledger' = ledger
    BY <1>4 DEF PrepareWalletPayment
  <2>2. available' = available - n /\ \A k, q : Recorded(k, q)' <=> Recorded(k, q)
    BY <1>1, <1>4, <2>1 DEF Recorded
  <2> HIDE DEF n
  <2>3. QED
    BY <1>2, <1>3, <2>2
<1>5. CASE n # 0
  <2>1. available' = available - n /\ Append("hold", o, o, -n, n)
    BY <1>5 DEF PrepareWalletPayment
  <2>2. \A k, q : k # "hold" => (Recorded(k, q)' <=> Recorded(k, q))
    BY <2>1, AppendRecords
  <2> HIDE DEF n
  <2>3. QED
    BY <1>2, <1>3, <2>1, <2>2
<1>6. QED
  BY <1>4, <1>5

LEMMA ConsumeEffect ==
  ASSUME BalanceOK, NEW o \in Orders, ConsumeWalletPayment(o)
  PROVE  /\ alloc[o].status = "held" /\ ~alloc[o].walletReleased
         /\ alloc' = [alloc EXCEPT ![o].status = "consumed"]
         /\ available' = available
         /\ \A k, q : k # "consume" \/ q # o => (Recorded(k, q)' <=> Recorded(k, q))
         /\ alloc[o].wallet # 0 => Recorded("consume", o)'
<1>1. /\ alloc[o].status = "held" /\ ~alloc[o].walletReleased
      /\ alloc' = [alloc EXCEPT ![o].status = "consumed"]
      /\ available' = available
  BY DEF ConsumeWalletPayment
<1>2. CASE alloc[o].wallet = 0
  <2>1. ledger' = ledger
    BY <1>2 DEF ConsumeWalletPayment
  <2>2. QED
    BY <1>1, <1>2, <2>1 DEF Recorded
<1>3. CASE alloc[o].wallet # 0
  <2>1. Append("consume", o, o, 0, -alloc[o].wallet)
    BY <1>3 DEF ConsumeWalletPayment
  <2>2. QED
    BY <1>1, <2>1, AppendRecords
<1>4. QED
  BY <1>2, <1>3

LEMMA ReleaseEffect ==
  ASSUME BalanceOK, NEW o \in Orders, ReleaseWalletPayment(o)
  PROVE  /\ alloc[o].status = "held"
         /\ alloc' = [alloc EXCEPT ![o].status = "released", ![o].walletReleased = TRUE]
         /\ available' = available + alloc[o].wallet
         /\ \A k, q : k # "release" \/ q # o => (Recorded(k, q)' <=> Recorded(k, q))
<1>1. /\ alloc[o].status = "held"
      /\ alloc' = [alloc EXCEPT ![o].status = "released", ![o].walletReleased = TRUE]
  BY DEF ReleaseWalletPayment
<1>2. CASE alloc[o].wallet = 0
  <2>1. ledger' = ledger /\ available' = available
    BY <1>2 DEF ReleaseWalletPayment
  <2>2. QED
    BY <1>1, <1>2, <2>1 DEF Recorded, BalanceOK
<1>3. CASE alloc[o].wallet # 0
  <2>1. available' = available + alloc[o].wallet
        /\ Append("release", o, o, alloc[o].wallet, -alloc[o].wallet)
    BY <1>3 DEF ReleaseWalletPayment
  <2>2. QED
    BY <1>1, <2>1, AppendRecords
<1>4. QED
  BY <1>2, <1>3

LEMMA RefundEffect ==
  ASSUME BalanceOK, NEW o \in Orders, Refund(o)
  PROVE  \E w \in Nat, x \in Nat, s \in {"partially_refunded", "refunded"} :
           /\ alloc[o].status \notin {"none", "held"}
           /\ alloc[o].walletRefunded + w <= alloc[o].wallet
           /\ alloc[o].walletReleased => w = 0
           /\ alloc' = [alloc EXCEPT ![o] = [alloc[o] EXCEPT
                !.walletRefunded = alloc[o].walletRefunded + w,
                !.externalRefunded = alloc[o].externalRefunded + x,
                !.status = s]]
           /\ available' = available + w
           /\ \A k, q : (k # "refund" \/ q # o \/ w = 0) => (Recorded(k, q)' <=> Recorded(k, q))
<1>1. PICK f \in References, w \in 0..Payable[o], x \in 0..Payable[o] :
        CompleteWalletRefund(o, f, w, x)
  BY DEF Refund
<1>2. w \in Nat /\ x \in Nat
  BY WalletAssumption
<1> DEFINE a == [alloc[o] EXCEPT !.walletRefunded = @ + w, !.externalRefunded = @ + x]
           s == StatusAfterRefund(a)
<1>3. alloc[o] \in Allocations
  BY DEF BalanceOK
<1>4. a.walletRefunded = alloc[o].walletRefunded + w /\ a.wallet = alloc[o].wallet
  BY <1>3 DEF Allocations
<1>5. /\ alloc[o].status \notin {"none", "held"}
      /\ a.walletRefunded <= a.wallet
      /\ alloc[o].walletReleased => w = 0
      /\ alloc' = [alloc EXCEPT ![o] = [a EXCEPT !.status = s]]
  BY <1>1 DEF CompleteWalletRefund
<1>6. s \in {"partially_refunded", "refunded"}
  BY DEF StatusAfterRefund
<1>7. [a EXCEPT !.status = s] = [alloc[o] EXCEPT
                !.walletRefunded = alloc[o].walletRefunded + w,
                !.externalRefunded = alloc[o].externalRefunded + x,
                !.status = s]
  BY <1>3 DEF Allocations
<1>8. /\ available' = available + w
      /\ \A k, q : (k # "refund" \/ q # o \/ w = 0) => (Recorded(k, q)' <=> Recorded(k, q))
  <2>1. CASE w = 0
    <3>1. available' = available /\ ledger' = ledger
      BY <1>1, <2>1 DEF CompleteWalletRefund
    <3>2. QED
      BY <2>1, <3>1 DEF Recorded, BalanceOK
  <2>2. CASE w # 0
    <3>1. available' = available + w /\ Append("refund", f, o, w, 0)
      BY <1>1, <2>2 DEF CompleteWalletRefund
    <3>2. QED
      BY <2>2, <3>1, AppendRecords
  <2>3. QED
    BY <2>1, <2>2
<1> HIDE DEF a, s
<1>9. QED
  BY <1>2, <1>4, <1>5, <1>6, <1>7, <1>8

-----------------------------------------------------------------------------
(* The inductive invariant. *)

Inv == BalanceOK /\ MoneyInv

LEMMA BalanceStep ==
  ASSUME Inv, [Next]_vars
  PROVE  BalanceOK'
<1> USE DEF Inv
<1>1. ASSUME NEW r \in Recharges, CreditRecharge(r)
      PROVE  BalanceOK'
  BY <1>1, CreditEffect DEF BalanceOK
<1>2. ASSUME NEW o \in Orders, NEW x \in BOOLEAN, PrepareWalletPayment(o, x)
      PROVE  BalanceOK'
  <2>1. PICK n \in 0..available, ext \in Nat :
          /\ alloc' = [alloc EXCEPT ![o] = [NoAllocation EXCEPT
                         !.status = "held", !.wallet = n, !.external = ext]]
          /\ available' = available - n
    BY <1>2, PrepareEffect
  <2>2. n \in Nat /\ available - n \in Nat
    BY DEF BalanceOK
  <2>3. [NoAllocation EXCEPT !.status = "held", !.wallet = n, !.external = ext] \in Allocations
    BY <2>2 DEF NoAllocation, Allocations, AllocStatuses
  <2>4. QED
    BY <2>1, <2>2, <2>3 DEF BalanceOK
<1>3. ASSUME NEW o \in Orders, ConsumeWalletPayment(o)
      PROVE  BalanceOK'
  BY <1>3, ConsumeEffect DEF BalanceOK, Allocations, AllocStatuses, Refunded
<1>4. ASSUME NEW o \in Orders, ReleaseWalletPayment(o)
      PROVE  BalanceOK'
  <2>1. /\ alloc' = [alloc EXCEPT ![o] = [alloc[o] EXCEPT !.status = "released",
                                                         !.walletReleased = TRUE]]
        /\ available' = available + alloc[o].wallet
    BY <1>4, ReleaseEffect DEF BalanceOK
  <2>2. alloc[o] \in Allocations
    BY DEF BalanceOK
  <2>3. [alloc[o] EXCEPT !.status = "released", !.walletReleased = TRUE] \in Allocations
    BY <2>2 DEF Allocations, AllocStatuses
  <2>4. alloc[o].wallet \in Nat
    BY <2>2 DEF Allocations
  <2>5. available + alloc[o].wallet \in Nat
    BY <2>4 DEF BalanceOK
  <2>6. QED
    BY <2>1, <2>3, <2>5 DEF BalanceOK
<1>5. ASSUME NEW o \in Orders, Refund(o)
      PROVE  BalanceOK'
  <2>1. PICK w \in Nat, x \in Nat, s \in {"partially_refunded", "refunded"} :
          /\ alloc' = [alloc EXCEPT ![o] = [alloc[o] EXCEPT
               !.walletRefunded = alloc[o].walletRefunded + w,
               !.externalRefunded = alloc[o].externalRefunded + x,
               !.status = s]]
          /\ available' = available + w
    BY <1>5, RefundEffect
  <2>2. alloc[o] \in Allocations
    BY DEF BalanceOK
  <2>3. [alloc[o] EXCEPT !.walletRefunded = alloc[o].walletRefunded + w,
               !.externalRefunded = alloc[o].externalRefunded + x, !.status = s] \in Allocations
    <3>1. alloc[o].walletRefunded + w \in Nat /\ alloc[o].externalRefunded + x \in Nat
      BY <2>2 DEF Allocations
    <3> DEFINE m == alloc[o].walletRefunded + w
               e == alloc[o].externalRefunded + x
    <3>2. m \in Nat /\ e \in Nat
      BY <3>1
    <3> HIDE DEF m, e
    <3>3. [alloc[o] EXCEPT !.walletRefunded = m, !.externalRefunded = e, !.status = s]
            \in Allocations
      BY <2>2, <3>2 DEF Allocations, AllocStatuses, Refunded
    <3>4. QED
      BY <3>3 DEF m, e
  <2>4. QED
    BY <2>1, <2>3 DEF BalanceOK
<1>6. CASE UNCHANGED vars
  BY <1>6 DEF vars, BalanceOK
<1>7. QED
  BY <1>1, <1>2, <1>3, <1>4, <1>5, <1>6 DEF Next

\* The part of MoneyInv about one order.
OrderInv(a, consumed, released, refunded) ==
  /\ a.walletRefunded <= a.wallet
  /\ a.status \in {"none", "held"} => ~a.walletReleased /\ a.walletRefunded = 0
  /\ a.status = "none" => a.wallet = 0
  /\ a.status = "released" => a.walletReleased
  /\ a.walletReleased => a.walletRefunded = 0
  /\ released => a.walletReleased
  /\ consumed => a.status \in Refunded /\ ~a.walletReleased
  /\ refunded => consumed
  /\ (a.status \in Refunded /\ ~a.walletReleased /\ a.wallet > 0) => consumed

OrderOK(o) ==
  OrderInv(alloc[o], Recorded("consume", o), Recorded("release", o), Recorded("refund", o))

LEMMA MoneyByOrder == MoneyInv <=> \A o \in Orders : OrderOK(o)
BY DEF MoneyInv, OrderOK, OrderInv

LEMMA MoneyByOrderNext == MoneyInv' <=> \A o \in Orders : OrderOK(o)'
BY DEF MoneyInv, OrderOK, OrderInv

\* An order whose allocation and ledger entries stay the same stays fine.
LEMMA OrderUntouched ==
  ASSUME NEW o \in Orders, OrderOK(o), alloc'[o] = alloc[o],
         \A k \in {"consume", "release", "refund"} : Recorded(k, o)' <=> Recorded(k, o)
  PROVE  OrderOK(o)'
BY DEF OrderOK, OrderInv

LEMMA MoneyStep ==
  ASSUME Inv, [Next]_vars
  PROVE  MoneyInv'
<1>1. \A o \in Orders : OrderOK(o)
  BY MoneyByOrder DEF Inv
<1>2. BalanceOK
  BY DEF Inv
<1>3. SUFFICES \A o \in Orders : OrderOK(o)'
  BY MoneyByOrderNext
<1>4. ASSUME NEW r \in Recharges, CreditRecharge(r)
      PROVE  \A q \in Orders : OrderOK(q)'
  BY <1>1, <1>2, <1>4, CreditEffect, OrderUntouched
<1>5. ASSUME NEW o \in Orders, NEW x \in BOOLEAN, PrepareWalletPayment(o, x)
      PROVE  \A q \in Orders : OrderOK(q)'
  <2>1. PICK n \in 0..available, ext \in Nat :
          /\ alloc[o].status = "none"
          /\ alloc' = [alloc EXCEPT ![o] = [NoAllocation EXCEPT
                         !.status = "held", !.wallet = n, !.external = ext]]
          /\ \A k, q : k # "hold" => (Recorded(k, q)' <=> Recorded(k, q))
    BY <1>2, <1>5, PrepareEffect
  <2>2. \A q \in Orders : q # o => alloc'[q] = alloc[q]
    BY <1>2, <2>1 DEF BalanceOK
  <2>3. ~Recorded("consume", o) /\ ~Recorded("release", o) /\ ~Recorded("refund", o)
    BY <1>1, <2>1 DEF OrderOK, OrderInv, Refunded
  <2>4. n \in Nat
    BY <1>2 DEF BalanceOK
  <2>5. /\ alloc'[o].status = "held" /\ alloc'[o].wallet = n
        /\ alloc'[o].walletRefunded = 0 /\ alloc'[o].walletReleased = FALSE
    BY <1>2, <2>1 DEF BalanceOK, NoAllocation
  <2>6. OrderOK(o)'
    <3>1. ~Recorded("consume", o)' /\ ~Recorded("release", o)' /\ ~Recorded("refund", o)'
      BY <2>1, <2>3
    <3>2. QED
      BY <3>1, <2>4, <2>5 DEF OrderOK, OrderInv, Refunded
  <2>7. QED
    BY <1>1, <2>1, <2>2, <2>6, OrderUntouched
<1>6. ASSUME NEW o \in Orders, ConsumeWalletPayment(o)
      PROVE  \A q \in Orders : OrderOK(q)'
  <2>1. /\ alloc[o].status = "held" /\ ~alloc[o].walletReleased
        /\ alloc' = [alloc EXCEPT ![o].status = "consumed"]
        /\ \A k, q : k # "consume" \/ q # o => (Recorded(k, q)' <=> Recorded(k, q))
        /\ alloc[o].wallet # 0 => Recorded("consume", o)'
    BY <1>2, <1>6, ConsumeEffect
  <2>2. \A q \in Orders : q # o => alloc'[q] = alloc[q]
    BY <1>2, <2>1 DEF BalanceOK
  <2>3. ~Recorded("release", o) /\ ~Recorded("refund", o)
    BY <1>1, <2>1 DEF OrderOK, OrderInv, Refunded
  <2>4. alloc[o] \in Allocations
    BY <1>2 DEF BalanceOK
  <2>5. /\ alloc'[o].status = "consumed" /\ alloc'[o].wallet = alloc[o].wallet
        /\ alloc'[o].walletReleased = alloc[o].walletReleased
        /\ alloc'[o].walletRefunded = alloc[o].walletRefunded
    BY <1>2, <2>1, <2>4 DEF BalanceOK, Allocations
  <2>6. alloc[o].walletRefunded = 0 /\ alloc[o].wallet \in Nat
    BY <1>1, <2>1, <2>4 DEF OrderOK, OrderInv, Allocations
  <2>7. ~Recorded("release", o)' /\ ~Recorded("refund", o)'
    BY <2>1, <2>3
  <2>8. OrderOK(o)'
    BY <2>1, <2>5, <2>6, <2>7 DEF OrderOK, OrderInv, Refunded
  <2>9. QED
    BY <1>1, <2>1, <2>2, <2>8, OrderUntouched
<1>7. ASSUME NEW o \in Orders, ReleaseWalletPayment(o)
      PROVE  \A q \in Orders : OrderOK(q)'
  <2>1. /\ alloc[o].status = "held"
        /\ alloc' = [alloc EXCEPT ![o].status = "released", ![o].walletReleased = TRUE]
        /\ \A k, q : k # "release" \/ q # o => (Recorded(k, q)' <=> Recorded(k, q))
    BY <1>2, <1>7, ReleaseEffect
  <2>2. \A q \in Orders : q # o => alloc'[q] = alloc[q]
    BY <1>2, <2>1 DEF BalanceOK
  <2>3. ~Recorded("consume", o)' /\ ~Recorded("refund", o)'
    BY <1>1, <2>1 DEF OrderOK, OrderInv, Refunded
  <2>4. alloc[o] \in Allocations
    BY <1>2 DEF BalanceOK
  <2>5. /\ alloc'[o].status = "released" /\ alloc'[o].wallet = alloc[o].wallet
        /\ alloc'[o].walletReleased = TRUE
        /\ alloc'[o].walletRefunded = alloc[o].walletRefunded
    BY <1>2, <2>1, <2>4 DEF BalanceOK, Allocations
  <2>6. alloc[o].walletRefunded = 0 /\ alloc[o].wallet \in Nat
    BY <1>1, <2>1, <2>4 DEF OrderOK, OrderInv, Allocations
  <2>7. OrderOK(o)'
    BY <2>3, <2>5, <2>6 DEF OrderOK, OrderInv, Refunded
  <2>8. QED
    BY <1>1, <2>1, <2>2, <2>7, OrderUntouched
<1>8. ASSUME NEW o \in Orders, Refund(o)
      PROVE  \A q \in Orders : OrderOK(q)'
  <2>1. PICK w \in Nat, x \in Nat, s \in {"partially_refunded", "refunded"} :
          /\ alloc[o].status \notin {"none", "held"}
          /\ alloc[o].walletRefunded + w <= alloc[o].wallet
          /\ alloc[o].walletReleased => w = 0
          /\ alloc' = [alloc EXCEPT ![o] = [alloc[o] EXCEPT
               !.walletRefunded = alloc[o].walletRefunded + w,
               !.externalRefunded = alloc[o].externalRefunded + x,
               !.status = s]]
          /\ \A k, q : (k # "refund" \/ q # o \/ w = 0) => (Recorded(k, q)' <=> Recorded(k, q))
    BY <1>2, <1>8, RefundEffect
  <2>2. \A q \in Orders : q # o => alloc'[q] = alloc[q]
    BY <1>2, <2>1 DEF BalanceOK
  <2>3. alloc[o] \in Allocations
    BY <1>2 DEF BalanceOK
  <2>4. /\ alloc'[o].status = s /\ alloc'[o].wallet = alloc[o].wallet
        /\ alloc'[o].walletReleased = alloc[o].walletReleased
        /\ alloc'[o].walletRefunded = alloc[o].walletRefunded + w
    BY <1>2, <2>1, <2>3 DEF BalanceOK, Allocations
  <2>5. alloc[o].walletRefunded \in Nat /\ alloc[o].wallet \in Nat
    BY <2>3 DEF Allocations
  <2>6. alloc[o].status \in Refunded \/ alloc[o].walletReleased
    BY <1>1, <2>1, <2>3 DEF OrderOK, OrderInv, Allocations, AllocStatuses
  <2>7. w > 0 => Recorded("consume", o)
    BY <1>1, <2>1, <2>5, <2>6 DEF OrderOK, OrderInv
  <2>8. (Recorded("consume", o)' <=> Recorded("consume", o))
        /\ (Recorded("release", o)' <=> Recorded("release", o))
        /\ (w = 0 => (Recorded("refund", o)' <=> Recorded("refund", o)))
    BY <2>1
  <2>9. OrderOK(o)'
    BY <1>1, <2>1, <2>4, <2>5, <2>6, <2>7, <2>8 DEF OrderOK, OrderInv, Refunded
  <2>10. QED
    BY <1>1, <2>1, <2>2, <2>9, OrderUntouched
<1>9. CASE UNCHANGED vars
  BY <1>1, <1>9, OrderUntouched DEF vars, Recorded
<1>10. QED
  BY <1>4, <1>5, <1>6, <1>7, <1>8, <1>9 DEF Next

LEMMA InvHolds == Spec => []Inv
<1>1. Init => Inv
  BY WalletAssumption DEF Init, Inv, BalanceOK, MoneyInv, Recorded, NoAllocation,
     Allocations, AllocStatuses, Refunded
<1>2. Inv /\ [Next]_vars => Inv'
  BY BalanceStep, MoneyStep DEF Inv
<1>3. QED
  BY <1>1, <1>2, PTL DEF Spec

\* An order's wallet money is consumed or released, never both, and refunded
\* only after it was consumed and never beyond the amount.
THEOREM MoneyReturnedOnce == Spec => []ReturnedOnce
<1>1. Inv => ReturnedOnce
  BY DEF Inv, MoneyInv, ReturnedOnce
<1>2. QED
  BY <1>1, InvHolds, PTL

-----------------------------------------------------------------------------
(* Refinement. *)

pStage == [o \in Orders |-> Stage(alloc[o])]

pTaken == [o \in Orders |-> alloc[o].wallet]

Returned(a) == IF a.walletReleased THEN a.wallet ELSE a.walletRefunded

pReturned == [o \in Orders |-> Returned(alloc[o])]

\* A step that changes the allocation of one order changes the mapped state
\* of that order only.
LEMMA MappedOrder ==
  ASSUME NEW o \in Orders, NEW b, alloc \in [Orders -> Allocations],
         alloc' = [alloc EXCEPT ![o] = b]
  PROVE  /\ pStage' = [pStage EXCEPT ![o] = Stage(b)]
         /\ pTaken' = [pTaken EXCEPT ![o] = b.wallet]
         /\ pReturned' = [pReturned EXCEPT ![o] = Returned(b)]
BY DEF pStage, pTaken, pReturned

\* Nothing changes for an order whose mapped state is the same as before.
LEMMA Same ==
  ASSUME NEW o \in Orders
  PROVE  /\ [pStage EXCEPT ![o] = pStage[o]] = pStage
         /\ [pTaken EXCEPT ![o] = pTaken[o]] = pTaken
         /\ [pReturned EXCEPT ![o] = pReturned[o]] = pReturned
         /\ pStage[o] = Stage(alloc[o])
         /\ pTaken[o] = alloc[o].wallet
         /\ pReturned[o] = Returned(alloc[o])
BY DEF pStage, pTaken, pReturned

LEMMA RefinementStep ==
  ASSUME Inv, [Next]_vars
  PROVE  [Promise!Next]_(Promise!vars)
<1> USE DEF Inv
<1>a. alloc \in [Orders -> Allocations] /\ available \in Nat
  BY DEF BalanceOK
<1>b. \A o \in Orders : alloc[o] \in Allocations
  BY <1>a
<1>1. ASSUME NEW r \in Recharges, CreditRecharge(r)
      PROVE  Promise!Next
  <2>1. alloc' = alloc /\ available' \in Nat /\ available' > available
    BY <1>1, CreditEffect
  <2>2. Promise!Deposit
    BY <2>1 DEF Promise!Deposit
  <2>3. QED
    BY <2>2 DEF Promise!Next
<1>2. ASSUME NEW o \in Orders, NEW x \in BOOLEAN, PrepareWalletPayment(o, x)
      PROVE  Promise!Next
  <2>1. PICK n \in 0..available, ext \in Nat :
          /\ alloc[o].status = "none"
          /\ alloc' = [alloc EXCEPT ![o] = [NoAllocation EXCEPT
                         !.status = "held", !.wallet = n, !.external = ext]]
          /\ available' = available - n
    BY <1>2, PrepareEffect
  <2> DEFINE b == [NoAllocation EXCEPT !.status = "held", !.wallet = n, !.external = ext]
  <2>2. b.status = "held" /\ b.wallet = n /\ b.walletReleased = FALSE /\ b.walletRefunded = 0
    BY DEF NoAllocation
  <2>3. Stage(b) = "reserved" /\ Returned(b) = 0
    BY <2>2 DEF Stage, Returned
  <2>4. Stage(alloc[o]) = "open" /\ Returned(alloc[o]) = 0
    BY <2>1 DEF Stage, Returned, MoneyInv
  <2>5. alloc' = [alloc EXCEPT ![o] = b]
    BY <2>1
  <2> HIDE DEF b
  <2>m. /\ pStage' = [pStage EXCEPT ![o] = Stage(b)]
        /\ pTaken' = [pTaken EXCEPT ![o] = b.wallet]
        /\ pReturned' = [pReturned EXCEPT ![o] = Returned(b)]
    BY <1>a, <2>5, MappedOrder
  <2>s. /\ [pStage EXCEPT ![o] = pStage[o]] = pStage
        /\ [pTaken EXCEPT ![o] = pTaken[o]] = pTaken
        /\ [pReturned EXCEPT ![o] = pReturned[o]] = pReturned
        /\ pStage[o] = Stage(alloc[o])
        /\ pTaken[o] = alloc[o].wallet
        /\ pReturned[o] = Returned(alloc[o])
    BY Same
  <2>6. /\ pStage' = [pStage EXCEPT ![o] = "reserved"]
        /\ pTaken' = [pTaken EXCEPT ![o] = n]
        /\ pReturned' = pReturned
        /\ pStage[o] = "open"
    BY <2>2, <2>3, <2>4, <2>m, <2>s
  <2>7. Promise!Reserve(o)
    BY <2>1, <2>6 DEF Promise!Reserve, pStage, pTaken, pReturned, Returned
  <2>8. QED
    BY <2>7 DEF Promise!Next
<1>3. ASSUME NEW o \in Orders, ConsumeWalletPayment(o)
      PROVE  Promise!Next
  <2> DEFINE b == [alloc[o] EXCEPT !.status = "consumed"]
  <2>1. /\ alloc[o].status = "held" /\ ~alloc[o].walletReleased
        /\ alloc' = [alloc EXCEPT ![o] = b] /\ available' = available
    BY <1>a, <1>3, ConsumeEffect
  <2>2. /\ b.status = "consumed" /\ b.wallet = alloc[o].wallet
        /\ b.walletReleased = alloc[o].walletReleased
        /\ b.walletRefunded = alloc[o].walletRefunded
    BY <1>b DEF Allocations
  <2>3. Stage(b) = "spent" /\ Stage(alloc[o]) = "reserved" /\ Returned(b) = Returned(alloc[o])
    BY <2>1, <2>2 DEF Stage, Returned
  <2> HIDE DEF b
  <2>m. /\ pStage' = [pStage EXCEPT ![o] = Stage(b)]
        /\ pTaken' = [pTaken EXCEPT ![o] = b.wallet]
        /\ pReturned' = [pReturned EXCEPT ![o] = Returned(b)]
    BY <1>a, <2>1, MappedOrder
  <2>s. /\ [pStage EXCEPT ![o] = pStage[o]] = pStage
        /\ [pTaken EXCEPT ![o] = pTaken[o]] = pTaken
        /\ [pReturned EXCEPT ![o] = pReturned[o]] = pReturned
        /\ pStage[o] = Stage(alloc[o])
        /\ pTaken[o] = alloc[o].wallet
        /\ pReturned[o] = Returned(alloc[o])
    BY Same
  <2>4. /\ pStage' = [pStage EXCEPT ![o] = "spent"] /\ pStage[o] = "reserved"
        /\ pTaken' = pTaken /\ pReturned' = pReturned
    BY <2>2, <2>3, <2>m, <2>s
  <2>5. Promise!Spend(o)
    BY <2>1, <2>4 DEF Promise!Spend, pStage, pTaken, pReturned, Returned
  <2>6. QED
    BY <2>5 DEF Promise!Next
<1>4. ASSUME NEW o \in Orders, ReleaseWalletPayment(o)
      PROVE  Promise!Next
  <2> DEFINE b == [alloc[o] EXCEPT !.status = "released", !.walletReleased = TRUE]
  <2>1. /\ alloc[o].status = "held"
        /\ alloc' = [alloc EXCEPT ![o] = b] /\ available' = available + alloc[o].wallet
    BY <1>a, <1>4, ReleaseEffect
  <2>2. /\ b.status = "released" /\ b.wallet = alloc[o].wallet /\ b.walletReleased = TRUE
    BY <1>b DEF Allocations
  <2>3. Stage(b) = "returned" /\ Returned(b) = alloc[o].wallet
    <3> HIDE DEF b
    <3>1. QED
      BY <2>2 DEF Stage, Returned
  <2>8. alloc[o].status = "held" /\ ~alloc[o].walletReleased
    BY <2>1 DEF MoneyInv
  <2> HIDE DEF b
  <2>9. Stage(alloc[o]) = "reserved"
    BY <2>8 DEF Stage
  <2>m. /\ pStage' = [pStage EXCEPT ![o] = Stage(b)]
        /\ pTaken' = [pTaken EXCEPT ![o] = b.wallet]
        /\ pReturned' = [pReturned EXCEPT ![o] = Returned(b)]
    BY <1>a, <2>1, MappedOrder
  <2>s. /\ [pStage EXCEPT ![o] = pStage[o]] = pStage
        /\ [pTaken EXCEPT ![o] = pTaken[o]] = pTaken
        /\ [pReturned EXCEPT ![o] = pReturned[o]] = pReturned
        /\ pStage[o] = Stage(alloc[o])
        /\ pTaken[o] = alloc[o].wallet
        /\ pReturned[o] = Returned(alloc[o])
    BY Same
  <2>4. /\ pStage' = [pStage EXCEPT ![o] = "returned"] /\ pStage[o] = "reserved"
        /\ pReturned' = [pReturned EXCEPT ![o] = pTaken[o]]
        /\ pTaken' = pTaken /\ pTaken[o] = alloc[o].wallet
    BY <2>2, <2>3, <2>9, <2>m, <2>s
  <2>5. Promise!GiveBack(o)
    BY <2>1, <2>4 DEF Promise!GiveBack, pStage, pTaken, pReturned, Returned
  <2>6. QED
    BY <2>5 DEF Promise!Next
<1>5. ASSUME NEW o \in Orders, Refund(o)
      PROVE  [Promise!Next]_(Promise!vars)
  <2>1. PICK w \in Nat, x \in Nat, s \in {"partially_refunded", "refunded"} :
          /\ alloc[o].status \notin {"none", "held"}
          /\ alloc[o].walletRefunded + w <= alloc[o].wallet
          /\ alloc[o].walletReleased => w = 0
          /\ alloc' = [alloc EXCEPT ![o] = [alloc[o] EXCEPT
               !.walletRefunded = alloc[o].walletRefunded + w,
               !.externalRefunded = alloc[o].externalRefunded + x,
               !.status = s]]
          /\ available' = available + w
    BY <1>5, RefundEffect
  <2> DEFINE b == [alloc[o] EXCEPT
               !.walletRefunded = alloc[o].walletRefunded + w,
               !.externalRefunded = alloc[o].externalRefunded + x,
               !.status = s]
  <2>2. /\ b.status = s /\ b.wallet = alloc[o].wallet
        /\ b.walletReleased = alloc[o].walletReleased
        /\ b.walletRefunded = alloc[o].walletRefunded + w
    BY <1>b DEF Allocations
  <2>3. alloc[o].walletRefunded \in Nat /\ alloc[o].wallet \in Nat
    BY <1>b DEF Allocations
  <2>4. alloc' = [alloc EXCEPT ![o] = b]
    BY <2>1
  <2> HIDE DEF b
  <2>5. Stage(b) = Stage(alloc[o])
    BY <2>1, <2>2 DEF Stage
  <2>m. /\ pStage' = [pStage EXCEPT ![o] = Stage(b)]
        /\ pTaken' = [pTaken EXCEPT ![o] = b.wallet]
        /\ pReturned' = [pReturned EXCEPT ![o] = Returned(b)]
    BY <1>a, <2>4, MappedOrder
  <2>s. /\ [pStage EXCEPT ![o] = pStage[o]] = pStage
        /\ [pTaken EXCEPT ![o] = pTaken[o]] = pTaken
        /\ [pReturned EXCEPT ![o] = pReturned[o]] = pReturned
        /\ pStage[o] = Stage(alloc[o])
        /\ pTaken[o] = alloc[o].wallet
        /\ pReturned[o] = Returned(alloc[o])
    BY Same
  <2>6. pStage' = pStage /\ pTaken' = pTaken
    BY <2>2, <2>5, <2>m, <2>s
  <2>7. CASE alloc[o].walletReleased
    <3>1. Returned(b) = Returned(alloc[o])
      BY <2>2, <2>7 DEF Returned
    <3>2. pReturned' = pReturned
      BY <3>1, <2>m, <2>s
    <3>3. available' = available
      BY <1>a, <2>1, <2>7
    <3>4. QED
      BY <2>6, <3>2, <3>3 DEF Promise!vars, pStage, pTaken, pReturned, Returned
  <2>8. CASE ~alloc[o].walletReleased
    <3>1. Returned(b) = alloc[o].walletRefunded + w /\ Returned(alloc[o]) = alloc[o].walletRefunded
      BY <2>2, <2>8 DEF Returned
    <3>2. pReturned[o] = alloc[o].walletRefunded /\ pTaken[o] = alloc[o].wallet
      BY <3>1, Same
    <3>3. pReturned' = [pReturned EXCEPT ![o] = pReturned[o] + w]
      BY <3>1, <3>2, <2>m
    <3>4. w \in 0..(pTaken[o] - pReturned[o])
      BY <2>1, <2>3, <3>2
    <3>5. pStage[o] = "spent"
      BY <2>1, <2>8, Same DEF Stage
    <3>6. Promise!Refund(o)
      BY <2>1, <2>6, <3>3, <3>4, <3>5 DEF Promise!Refund, pStage, pTaken, pReturned, Returned
    <3>7. QED
      BY <3>6 DEF Promise!Next
  <2>9. QED
    BY <2>7, <2>8
<1>6. CASE UNCHANGED vars
  BY <1>6 DEF vars, Promise!vars
<1>7. QED
  BY <1>1, <1>2, <1>3, <1>4, <1>5, <1>6 DEF Next

\* Wallet implements WalletPromise: prepare, consume, release and refund, in
\* any order and repeated, take an order's money once and return it at most
\* once.
THEOREM WalletKeepsPromise == Spec => KeepsPromise
<1>1. Init => Promise!Init
  BY WalletAssumption DEF Init, Promise!Init, NoAllocation, Stage
<1>2. Inv /\ [Next]_vars => [Promise!Next]_(Promise!vars)
  BY RefinementStep
<1>3. QED
  BY <1>1, <1>2, InvHolds, PTL DEF Spec, KeepsPromise, Promise!Spec
=============================================================================
