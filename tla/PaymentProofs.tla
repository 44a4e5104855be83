---------------------------- MODULE PaymentProofs ----------------------------
(***************************************************************************)
(* Proofs about ProviderPayment, for any calls under way, any amount and   *)
(* any shares of the wallet.  Calls decide on what they read before; what  *)
(* makes that safe is said in two parts.  Books: how order, payment,       *)
(* allocation, coupon, refunds and compensation task fit together.         *)
(* CallsKnow: what a call may still rely on when it writes.                *)
(***************************************************************************)
EXTENDS ProviderPayment, TLAPS

Over == {"cancelled", "refunded"}

\* The payment's status tells what was asked of the gateway and of the wallet.
PaymentFits ==
  /\ payment.status = "absent" => ~payment.sent /\ alloc.status = "none"
  /\ payment.status = "pending_payment" => payment.sent /\ alloc.status = "held"
  /\ payment.status = "closed" => alloc.status = "released"
  /\ payment.status \in Paid =>
       /\ alloc.status \in {"consumed", "released"}
       /\ alloc.external > 0 => trade.status = "S"

\* A trade is known only once the request for it was registered, and the shares are the price.
SharesFit ==
  /\ trade.status # "none" => payment.sent
  /\ payment.sent => alloc.status # "none" /\ alloc.external > 0
  /\ alloc.status # "none" => alloc.wallet + alloc.external = Payable

\* Before the payment nothing has happened, and an order that ends unpaid has its coupon back.
OrderFits ==
  /\ order.status = "pending_payment" =>
       payment.status \in {"absent", "pending_payment"} /\ coupon = "reserved"
  /\ order.status \in Over /\ payment.status \notin Paid =>
       order.status = "cancelled" /\ coupon = "available"

\* Refunds are owed only for recorded payments, and one that does not exist has no amount.
RefundsFit ==
  \A k \in Keys :
    /\ Requested(k) => payment.status \in Paid
    /\ ~Requested(k) => refund[k].wallet = 0 /\ refund[k].external = 0

\* The part of t that a wallet's part w of the price bears, rounded down.
Portion(t, w) == (t * w) \div Payable

\* The wallet has borne its share of the refunds so far, or nothing after its release.
Covered(a) ==
  /\ a.status = "consumed" =>
       ReservedTotal <= Payable /\ ReservedWallet = Portion(ReservedTotal, a.wallet)
  /\ a.status # "consumed" => ReservedWallet = 0 /\ ReservedExternal <= a.external

Books ==
  /\ PaymentFits /\ SharesFit /\ OrderFits /\ RefundsFit /\ Covered(alloc)
  /\ ServedIsPaid /\ HeldIsWatched

\* What a call relies on: a success it heard of stands, an order it may credit was waiting when
\* the call read it, and a call about a cancelled order finds it over.
Knows(c) ==
  /\ call[c].answer = "S" => trade.status = "S" /\ call[c].late = trade.late
  /\ order.status = "pending_payment" /\ call[c] # Idle => call[c].seen = "pending_payment"
  /\ call[c].stage = "create" => payment.sent /\ trade.status = "none"
  /\ call[c].kind = "compensate" \/ call[c].stage \in {"close", "closed"} =>
       order.status # "pending_payment"

CallsKnow ==
  /\ \A c \in Calls : Knows(c)
  /\ \A c, e \in Calls : call[c].stage = "create" /\ call[e].stage = "create" => c = e

Inv == TypeOK /\ Books /\ CallsKnow

-----------------------------------------------------------------------------
(* Proportions, rounded down *)

\* The quotient is the greatest whole number whose multiple fits.
LEMMA Division ==
  ASSUME NEW x \in Nat, NEW p \in Nat \ {0}
  PROVE  x \div p \in Nat /\ p * (x \div p) <= x /\ x < p * (x \div p) + p
OBVIOUS

LEMMA Cancelling ==
  ASSUME NEW p \in Nat \ {0}, NEW a \in Int, NEW b \in Int, p * a < p * b PROVE a < b
OBVIOUS

LEMMA Growing ==
  ASSUME NEW p \in Nat, NEW a \in Int, NEW b \in Int, a <= b PROVE p * a <= p * b
<1>1. PICK d \in Nat : b = a + d
  OBVIOUS
<1>2. p * b = p * a + p * d
  BY <1>1
<1>3. p * d >= 0
  OBVIOUS
<1>4. QED
  BY <1>2, <1>3

\* Rounding down the wallet's part of t of p: it grows with t, but not faster, ends at w, and
\* leaves to the gateway no more than the gateway's part.
LEMMA Rounding ==
  ASSUME NEW w \in 0..Payable, NEW t \in Nat, NEW n \in Nat, NEW u \in Nat, u = t + n, u <= Payable
  PROVE  /\ Portion(t, w) \in Nat /\ Portion(u, w) \in Nat
         /\ Portion(t, w) <= Portion(u, w) /\ Portion(u, w) <= Portion(t, w) + n
         /\ Portion(u, w) <= w /\ u - Portion(u, w) <= Payable - w
         /\ u = Payable => Portion(u, w) = w
<1>0. PICK p \in Nat \ {0} : p = Payable
  BY PaymentAssumption
<1>1. PICK x \in Nat : x = t * w
  OBVIOUS
<1>2. PICK y \in Nat : y = (t + n) * w
  OBVIOUS
<1>3. PICK q \in Nat : q = x \div p /\ p * q <= x /\ x < p * q + p
  BY <1>1, Division
<1>4. PICK r \in Nat : r = y \div p /\ p * r <= y /\ y < p * r + p
  BY <1>2, Division
<1>5. y = x + n * w
  BY <1>1, <1>2
<1>6. 0 <= n * w /\ n * w <= p * n
  <2>1. w \in Nat /\ 0 <= w /\ w <= p
    BY <1>0
  <2>2. n * 0 <= n * w /\ n * w <= n * p
    BY <2>1, Growing
  <2>3. QED
    BY <2>2
<1>7. q <= r
  <2>1. p * q < p * (r + 1)
    BY <1>3, <1>4, <1>5, <1>6
  <2>2. QED
    BY <2>1, Cancelling
<1>8. r <= q + n
  <2>1. p * (q + n + 1) = p * q + p * n + p
    OBVIOUS
  <2>2. p * r < p * (q + n + 1)
    BY <1>3, <1>4, <1>5, <1>6, <2>1
  <2>3. QED
    BY <2>2, Cancelling
<1>9. y <= p * w
  <2>1. w * (t + n) <= w * p
    BY <1>0, Growing
  <2>2. QED
    BY <1>2, <2>1
<1>10. r <= w
  <2>1. p * (w + 1) = p * w + p
    OBVIOUS
  <2>2. p * r < p * (w + 1)
    BY <1>4, <1>9, <2>1
  <2>3. QED
    BY <2>2, Cancelling
<1>11. t + n - r <= p - w
  <2>1. PICK d \in Nat : t + n + d = p
    <3>1. p - (t + n) \in Nat /\ t + n + (p - (t + n)) = p
      BY <1>0
    <3>2. QED
      BY <3>1
  <2>2. y + d * w = p * w
    <3>1. (t + n + d) * w = (t + n) * w + d * w
      OBVIOUS
    <3>2. QED
      BY <1>2, <2>1, <3>1
  <2>3. d * w <= p * d
    <3>1. d * w <= d * p
      BY <1>0, Growing
    <3>2. QED
      BY <3>1
  <2>4. p * w < p * (r + d + 1)
    <3>1. p * (r + d + 1) = p * r + p * d + p
      OBVIOUS
    <3>2. QED
      BY <1>4, <2>2, <2>3, <3>1
  <2>5. w < r + d + 1
    BY <2>4, Cancelling
  <2>6. QED
    BY <2>1, <2>5
<1>12. ASSUME t + n = p PROVE r = w
  BY <1>10, <1>11, <1>12
<1>13. Portion(t, w) = q /\ Portion(u, w) = r
  BY <1>0, <1>1, <1>2, <1>3, <1>4 DEF Portion
<1>14. QED
  BY <1>0, <1>7, <1>8, <1>10, <1>11, <1>12, <1>13

-----------------------------------------------------------------------------
(* The types by name *)

Orders == [status: OrderStatuses, paid: BOOLEAN, decision: {NoDecision} \cup 0..Payable]

Payments == [status: {"absent", "pending_payment", "closed"} \cup Paid, sent: BOOLEAN,
             preorder: {"not_started", "submitting", "ready", "failed"}]

Allocs == [status: {"none", "held", "consumed", "released"},
           wallet: 0..Payable, external: 0..Payable]

Refund == [status: {"absent", "pending", "succeeded"}, wallet: 0..Payable, external: 0..Payable]

Trades == [status: {"none", "P", "S", "F"}, late: BOOLEAN]

Notes == [Notices -> {"unsent", "received", "processed"}]

Active ==
  [kind: Kinds, stage: Stages, seen: OrderStatuses \cup {"none"},
   answer: {"none", "P", "S", "F", "error"}, late: BOOLEAN, about: Notices \cup {"none"}]

\* TypeOK, with the types by name.
LEMMA Types ==
  TypeOK <=>
    /\ order \in Orders /\ expired \in BOOLEAN /\ payment \in Payments /\ alloc \in Allocs
    /\ coupon \in {"reserved", "used", "available"} /\ refund \in [Keys -> Refund]
    /\ task \in {"absent", "pending", "done"} /\ notice \in Notes /\ trade \in Trades
    /\ call \in [Calls -> {Idle} \cup Active]
BY DEF TypeOK, Orders, Payments, Allocs, Refund, Trades, Notes, Active

LEMMA TypesNext ==
  TypeOK' <=>
    /\ order' \in Orders /\ expired' \in BOOLEAN /\ payment' \in Payments /\ alloc' \in Allocs
    /\ coupon' \in {"reserved", "used", "available"} /\ refund' \in [Keys -> Refund]
    /\ task' \in {"absent", "pending", "done"} /\ notice' \in Notes /\ trade' \in Trades
    /\ call' \in [Calls -> {Idle} \cup Active]
BY DEF TypeOK, Orders, Payments, Allocs, Refund, Trades, Notes, Active

\* A call at a stage of its own is not idle.
LEMMA Working ==
  ASSUME Inv, NEW c \in Calls, call[c].stage # "idle"
  PROVE  call[c] \in Active /\ call[c] # Idle /\ Knows(c)
<1>1. call[c] # Idle
  BY DEF Idle
<1>2. QED
  BY <1>1, Types DEF Inv, CallsKnow

-----------------------------------------------------------------------------
(* Sums over the refunds *)

\* One refund changes its amount.
LEMMA Adding ==
  ASSUME NEW f \in [Keys -> Int], NEW k \in Keys, NEW n \in Int
  PROVE  Together(f) \in Int /\ Together([f EXCEPT ![k] = n]) = Together(f) - f[k] + n
BY DEF Together, Keys

\* What the refunds reserve are amounts.
LEMMA Reserved ==
  ASSUME TypeOK
  PROVE  /\ [k \in Keys |-> refund[k].wallet] \in [Keys -> Nat]
         /\ [k \in Keys |-> refund[k].external] \in [Keys -> Nat]
         /\ ReservedWallet \in Nat /\ ReservedExternal \in Nat
         /\ ReservedTotal = ReservedWallet + ReservedExternal
<1>1. Payable \in Nat /\ refund \in [Keys -> Refund]
  BY Types, PaymentAssumption
<1>2. \A k \in Keys : refund[k].wallet \in Nat /\ refund[k].external \in Nat
  BY <1>1 DEF Refund
<1>3. \A f \in [Keys -> Nat] : Together(f) \in Nat
  BY DEF Together, Keys
<1>4. QED
  BY <1>2, <1>3 DEF ReservedWallet, ReservedExternal, ReservedTotal

\* Without refunds nothing is reserved.
LEMMA NothingReserved ==
  ASSUME RefundsFit, \A k \in Keys : ~Requested(k)
  PROVE  ReservedWallet = 0 /\ ReservedExternal = 0 /\ ReservedTotal = 0
<1>1. \A k \in Keys : refund[k].wallet = 0 /\ refund[k].external = 0
  BY DEF RefundsFit
<1>2. [k \in Keys |-> refund[k].wallet] = [k \in Keys |-> 0]
      /\ [k \in Keys |-> refund[k].external] = [k \in Keys |-> 0]
  BY <1>1
<1>3. Together([k \in Keys |-> 0]) = 0
  BY DEF Together, Keys
<1>4. QED
  BY <1>2, <1>3 DEF ReservedWallet, ReservedExternal, ReservedTotal

\* What a new refund takes from the wallet and the gateway: the wallet's rounded share of all
\* refunds so far, or nothing after its release.
LEMMA Route ==
  ASSUME Inv, NEW a \in Allocs, a.wallet + a.external = Payable,
         a.status \in {"consumed", "released"}, Covered(a),
         NEW amount \in Nat, Refundable(a, amount)
  PROVE  /\ WalletRoute(a, amount) \in Nat /\ WalletRoute(a, amount) <= amount
         /\ WalletRoute(a, amount) <= a.wallet /\ amount - WalletRoute(a, amount) <= a.external
         /\ a.status = "consumed" =>
              /\ ReservedTotal + amount <= Payable
              /\ ReservedWallet + WalletRoute(a, amount) = Portion(ReservedTotal + amount, a.wallet)
         /\ a.status = "released" =>
              WalletRoute(a, amount) = 0 /\ ReservedExternal + amount <= a.external
<1>1. TypeOK /\ Payable \in Nat \ {0}
  BY PaymentAssumption DEF Inv
<1>2. PICK rw \in Nat, re \in Nat : rw = ReservedWallet /\ re = ReservedExternal
  BY <1>1, Reserved
<1>3. PICK w \in 0..Payable, x \in 0..Payable : w = a.wallet /\ x = a.external
  BY DEF Allocs
<1>4. ReservedTotal = rw + re /\ amount <= Payable - (rw + re) /\ amount > 0
  BY <1>1, <1>2, Reserved DEF Refundable
<1>5. w + x = Payable
  BY <1>3
<1>6. CASE a.status = "released"
  <2>1. WalletRoute(a, amount) = 0
    BY <1>6 DEF WalletRoute
  <2>2. ReservedExternal + amount <= a.external
    BY <1>6 DEF Refundable
  <2>3. amount <= x
    BY <1>2, <1>3, <2>2
  <2>4. QED
    BY <1>3, <1>6, <2>1, <2>2, <2>3
<1>7. CASE a.status = "consumed"
  <2>1. PICK t \in Nat : t = rw + re
    OBVIOUS
  <2>2. t + amount <= Payable /\ t = ReservedTotal
    BY <1>1, <1>4, <2>1
  <2>3. rw = Portion(t, w)
    BY <1>2, <1>3, <1>7, <2>2 DEF Covered
  <2>4. PICK s \in Nat : s = Portion(t + amount, w) /\ rw <= s /\ s <= rw + amount
                         /\ s <= w /\ t + amount - s <= Payable - w
                         /\ (t + amount = Payable => s = w)
    <3>1. PICK u \in Nat : u = t + amount
      OBVIOUS
    <3>2. /\ Portion(u, w) \in Nat /\ rw <= Portion(u, w) /\ Portion(u, w) <= rw + amount
          /\ Portion(u, w) <= w /\ u - Portion(u, w) <= Payable - w
          /\ u = Payable => Portion(u, w) = w
      BY <2>2, <2>3, <3>1, Rounding
    <3>3. QED
      BY <3>1, <3>2
  <2>5. WalletRoute(a, amount) = Most((IF t + amount >= Payable THEN w ELSE s) - rw, 0)
    <3>1. ((t + amount) * w) \div Payable = s
      BY <2>4 DEF Portion
    <3>2. QED
      BY <1>2, <1>3, <1>7, <2>2, <3>1 DEF WalletRoute
  <2>6. (IF t + amount >= Payable THEN w ELSE s) = s
    BY <1>1, <2>2, <2>4
  <2>7. WalletRoute(a, amount) = s - rw
    BY <2>4, <2>5, <2>6 DEF Most
  <2>8. Portion(ReservedTotal + amount, a.wallet) = s
    BY <1>3, <2>2, <2>4
  <2>9. /\ s - rw \in Nat /\ s - rw <= amount /\ s - rw <= w /\ amount - (s - rw) <= x
        /\ rw + (s - rw) = s
    BY <1>1, <1>5, <2>1, <2>4
  <2>10. QED
    BY <1>2, <1>3, <1>7, <2>2, <2>7, <2>8, <2>9
<1>8. QED
  BY <1>6, <1>7

\* A refund is added: the sums stay covered.
LEMMA RefundAdded ==
  ASSUME Inv, NEW a \in Allocs, a.wallet + a.external = Payable,
         a.status \in {"consumed", "released"}, Covered(a),
         NEW k \in Keys, ~Requested(k), NEW amount \in Nat, Refundable(a, amount),
         refund' = NewRefund(a, k, amount), alloc' = a, payment'.status \in Paid
  PROVE  refund' \in [Keys -> Refund] /\ RefundsFit' /\ Covered(alloc)'
<1>1. TypeOK /\ RefundsFit /\ Payable \in Nat /\ refund \in [Keys -> Refund]
  BY PaymentAssumption, Types DEF Inv, Books
<1>2. PICK m \in Nat : /\ m = WalletRoute(a, amount) /\ m <= amount
                       /\ m <= a.wallet /\ amount - m <= a.external
                       /\ a.status = "consumed" =>
                            /\ ReservedTotal + amount <= Payable
                            /\ ReservedWallet + m = Portion(ReservedTotal + amount, a.wallet)
                       /\ a.status = "released" => m = 0 /\ ReservedExternal + amount <= a.external
  BY Route
<1>3. PICK x \in Nat : x = amount - m
  BY <1>2
<1>4. refund' = [refund EXCEPT ![k] = [status |-> "pending", wallet |-> m, external |-> x]]
  BY <1>2, <1>3 DEF NewRefund
<1>5. m \in 0..Payable /\ x \in 0..Payable
  BY <1>1, <1>2, <1>3 DEF Allocs
<1>6. refund' \in [Keys -> Refund]
  BY <1>1, <1>4, <1>5 DEF Refund
<1>7. refund[k].wallet = 0 /\ refund[k].external = 0
  BY <1>1 DEF RefundsFit
<1>8. PICK rw \in Nat, re \in Nat :
         rw = ReservedWallet /\ re = ReservedExternal /\ ReservedTotal = rw + re
  BY <1>1, Reserved
<1>9. ReservedWallet' = rw + m
  <2>1. PICK f \in [Keys -> Nat] : f = [j \in Keys |-> refund[j].wallet]
    BY <1>1, Reserved
  <2>2. [j \in Keys |-> refund'[j].wallet] = [f EXCEPT ![k] = m]
    BY <1>1, <1>4, <2>1
  <2>3. Together([f EXCEPT ![k] = m]) = Together(f) - f[k] + m /\ Together(f) = rw /\ f[k] = 0
    BY <1>7, <1>8, <2>1, Adding DEF ReservedWallet
  <2>4. QED
    BY <2>2, <2>3 DEF ReservedWallet
<1>10. ReservedExternal' = re + x
  <2>1. PICK f \in [Keys -> Nat] : f = [j \in Keys |-> refund[j].external]
    BY <1>1, Reserved
  <2>2. [j \in Keys |-> refund'[j].external] = [f EXCEPT ![k] = x]
    BY <1>1, <1>4, <2>1
  <2>3. Together([f EXCEPT ![k] = x]) = Together(f) - f[k] + x /\ Together(f) = re /\ f[k] = 0
    BY <1>7, <1>8, <2>1, Adding DEF ReservedExternal
  <2>4. QED
    BY <2>2, <2>3 DEF ReservedExternal
<1>11. ReservedTotal' = ReservedTotal + amount
  BY <1>2, <1>3, <1>8, <1>9, <1>10 DEF ReservedTotal
<1>12. RefundsFit'
  <2>1. \A j \in Keys \ {k} : refund'[j] = refund[j]
    BY <1>1, <1>4
  <2>2. refund'[k].status = "pending"
    BY <1>1, <1>4
  <2>3. QED
    BY <1>1, <2>1, <2>2 DEF RefundsFit, Requested
<1>13. Covered(alloc)'
  <2>1. CASE a.status = "consumed"
    <3>1. Portion(ReservedTotal, alloc.wallet)' = Portion(ReservedTotal + amount, a.wallet)
      BY <1>11
    <3>2. QED
      BY <1>2, <1>8, <1>9, <1>11, <2>1, <3>1 DEF Covered
  <2>2. CASE a.status = "released"
    <3>1. rw = 0
      BY <1>8, <2>2 DEF Covered
    <3>2. m = 0 /\ re + amount <= a.external
      BY <1>2, <1>8, <2>2
    <3>3. rw + m = 0 /\ re + x = re + amount
      BY <1>3, <3>1, <3>2
    <3>4. QED
      BY <1>9, <1>10, <2>2, <3>2, <3>3 DEF Covered
  <2>3. QED
    BY <2>1, <2>2
<1>14. QED
  BY <1>6, <1>12, <1>13

\* The refunds' sums depend on the refunds alone.
LEMMA SameSums ==
  ASSUME refund' = refund
  PROVE  /\ ReservedWallet' = ReservedWallet /\ ReservedExternal' = ReservedExternal
         /\ ReservedTotal' = ReservedTotal
BY DEF ReservedWallet, ReservedExternal, ReservedTotal

-----------------------------------------------------------------------------
(* Initial states *)

LEMMA InitInv == Init => Inv
<1> SUFFICES ASSUME Init PROVE Inv
  OBVIOUS
<1>1. Payable \in Nat /\ 0 \in 0..Payable
  BY PaymentAssumption
<1>2. order \in Orders /\ payment \in Payments /\ alloc \in Allocs
  BY <1>1 DEF Init, Orders, OrderStatuses, NoDecision, Payments, Allocs
<1>3. refund \in [Keys -> Refund] /\ notice \in Notes /\ trade \in Trades
  BY <1>1 DEF Init, Refund, Notes, Trades
<1>4. TypeOK
  BY <1>2, <1>3, Types DEF Init
<1>5. \A k \in Keys : ~Requested(k) /\ refund[k].wallet = 0 /\ refund[k].external = 0
  BY DEF Init, Requested
<1>6. RefundsFit
  BY <1>5 DEF RefundsFit
<1>7. Covered(alloc)
  BY <1>5, <1>6, NothingReserved DEF Init, Covered
<1>8. PaymentFits /\ SharesFit /\ OrderFits /\ ServedIsPaid /\ HeldIsWatched
  BY DEF Init, PaymentFits, SharesFit, OrderFits, ServedIsPaid, HeldIsWatched, Served, Over, Paid
<1>9. CallsKnow
  BY DEF Init, CallsKnow, Knows, Idle
<1>10. QED
  BY <1>4, <1>6, <1>7, <1>8, <1>9 DEF Inv, Books

-----------------------------------------------------------------------------
(* What the calls know stands *)

\* A step that leaves the trade alone and never makes an order wait again leaves true what the
\* calls know, if the calls it moves know what they should.
LEMMA CallsGoOn ==
  ASSUME Inv, trade' = trade, payment.sent => payment'.sent,
         order'.status = "pending_payment" => order.status = "pending_payment",
         \A e \in Calls : call'[e] = call[e] \/ (Knows(e)' /\ call'[e].stage # "create")
  PROVE  CallsKnow'
<1>1. \A e \in Calls : call'[e] = call[e] => Knows(e)'
  BY DEF Inv, CallsKnow, Knows
<1>2. \A e \in Calls : call'[e].stage = "create" => call[e].stage = "create"
  OBVIOUS
<1>3. QED
  BY <1>1, <1>2 DEF Inv, CallsKnow

LEMMA Ended ==
  ASSUME Inv, NEW c \in Calls, End(c)
  PROVE  /\ call' \in [Calls -> {Idle} \cup Active]
         /\ \A e \in Calls : call'[e] = call[e] \/ (Knows(e)' /\ call'[e].stage # "create")
<1>1. /\ call' \in [Calls -> {Idle} \cup Active] /\ call'[c] = Idle
      /\ \A e \in Calls \ {c} : call'[e] = call[e]
  BY Types DEF Inv, End
<1>2. Knows(c)'
  BY <1>1 DEF Knows, Idle
<1>3. QED
  BY <1>1, <1>2 DEF Idle

\* A call goes on; only when it closes a payment must its order be over.
LEMMA Advanced ==
  ASSUME Inv, NEW c \in Calls, call[c].stage # "idle",
         NEW g \in {"ack", "expire", "close", "closed"}, Goto(c, g),
         g \in {"close", "closed"} => order.status # "pending_payment",
         trade' = trade, order'.status = "pending_payment" => order.status = "pending_payment"
  PROVE  /\ call' \in [Calls -> {Idle} \cup Active]
         /\ \A e \in Calls : call'[e] = call[e] \/ (Knows(e)' /\ call'[e].stage # "create")
<1>1. call[c] \in Active /\ call[c] # Idle /\ Knows(c) /\ call \in [Calls -> {Idle} \cup Active]
  BY Working, Types DEF Inv
<1>2. call' = [call EXCEPT ![c] = [call[c] EXCEPT !.stage = g]]
  BY DEF Goto
<1>3. [call[c] EXCEPT !.stage = g] \in Active
  BY <1>1 DEF Active, Stages
<1>4. call' \in [Calls -> {Idle} \cup Active] /\ \A e \in Calls \ {c} : call'[e] = call[e]
  BY <1>1, <1>2, <1>3
<1>5. /\ call'[c].stage = g /\ call'[c].kind = call[c].kind /\ call'[c].seen = call[c].seen
      /\ call'[c].answer = call[c].answer /\ call'[c].late = call[c].late
  BY <1>1, <1>2 DEF Active
<1>6. Knows(c)'
  BY <1>1, <1>2, <1>5 DEF Knows
<1>7. QED
  BY <1>4, <1>5, <1>6

\* A call starts: it has read the order.
LEMMA Started ==
  ASSUME Inv, NEW c \in Calls, NEW k \in Kinds, NEW g \in {"register", "query", "expire"},
         NEW n \in Notices \cup {"none"},
         StartAbout(c, k, g, n), order' = order, k = "compensate" => order.status # "pending_payment"
  PROVE  /\ call' \in [Calls -> {Idle} \cup Active]
         /\ \A e \in Calls : call'[e] = call[e] \/ (Knows(e)' /\ call'[e].stage # "create")
<1>1. order.status \in OrderStatuses /\ call \in [Calls -> {Idle} \cup Active]
  BY Types DEF Inv, Orders
<1>2. PICK r : r = [kind |-> k, stage |-> g, seen |-> order.status,
                    answer |-> "none", late |-> FALSE, about |-> n]
  OBVIOUS
<1>3. /\ r \in Active /\ call' = [call EXCEPT ![c] = r]
      /\ r.stage = g /\ r.kind = k /\ r.seen = order.status /\ r.answer = "none"
  BY <1>1, <1>2 DEF Active, Stages, StartAbout
<1>4. call' \in [Calls -> {Idle} \cup Active] /\ \A e \in Calls \ {c} : call'[e] = call[e]
  BY <1>1, <1>3
<1>5. /\ call'[c].stage = g /\ call'[c].kind = k /\ call'[c].seen = order.status
      /\ call'[c].answer = "none"
  BY <1>1, <1>3
<1>6. Knows(c)'
  BY <1>5 DEF Knows
<1>7. QED
  BY <1>4, <1>5, <1>6

-----------------------------------------------------------------------------
(* Steps that decide nothing *)

Quiet ==
  /\ UNCHANGED <<order, alloc, coupon, refund, task, trade>>
  /\ payment' \in Payments /\ payment'.status = payment.status /\ payment'.sent = payment.sent
  /\ expired' \in BOOLEAN /\ notice' \in Notes /\ call' \in [Calls -> {Idle} \cup Active]
  /\ \A e \in Calls : call'[e] = call[e] \/ (Knows(e)' /\ call'[e].stage # "create")

LEMMA QuietStep == ASSUME Inv, Quiet PROVE Inv'
<1>1. TypeOK'
  BY Types, TypesNext DEF Inv, Quiet
<1>2. PaymentFits' /\ SharesFit' /\ OrderFits'
  BY DEF Inv, Books, Quiet, PaymentFits, SharesFit, OrderFits
<1>3. RefundsFit'
  BY DEF Inv, Books, Quiet, RefundsFit, Requested
<1>4. Covered(alloc)'
  BY SameSums DEF Inv, Books, Quiet, Covered
<1>5. ServedIsPaid' /\ HeldIsWatched'
  BY DEF Inv, Books, Quiet, ServedIsPaid, HeldIsWatched
<1>6. CallsKnow'
  BY CallsGoOn DEF Quiet
<1>7. QED
  BY <1>1, <1>2, <1>3, <1>4, <1>5, <1>6 DEF Inv, Books

\* What Quiet asks of the rows, from the types.
LEMMA RowsStay ==
  ASSUME Inv, UNCHANGED <<order, payment, alloc, coupon, refund, task, expired, trade>>,
         notice' \in Notes, call' \in [Calls -> {Idle} \cup Active],
         \A e \in Calls : call'[e] = call[e] \/ (Knows(e)' /\ call'[e].stage # "create")
  PROVE  Inv'
<1>1. payment \in Payments /\ expired \in BOOLEAN
  BY Types DEF Inv
<1>2. Quiet
  BY <1>1 DEF Quiet
<1>3. QED
  BY <1>2, QuietStep

LEMMA StartStep ==
  ASSUME Inv, NEW c \in Calls,
         BeginSession(c) \/ Confirm(c) \/ ExpiryTask(c) \/ CompensationTask(c)
  PROVE  Inv'
<1>1. UNCHANGED <<order, payment, alloc, coupon, refund, task, notice, expired, trade>>
  BY DEF BeginSession, Confirm, ExpiryTask, CompensationTask, local
<1>2. PICK k \in Kinds, g \in {"register", "query", "expire"} :
        Start(c, k, g) /\ (k = "compensate" => order.status # "pending_payment")
  BY DEF BeginSession, Confirm, ExpiryTask, CompensationTask, Kinds
<1>3. StartAbout(c, k, g, "none")
  BY <1>2 DEF Start
<1>4. notice \in Notes
  BY Types DEF Inv
<1>5. QED
  BY <1>1, <1>2, <1>3, <1>4, Started, RowsStay

LEMMA NoticeStep ==
  ASSUME Inv, NEW c \in Calls, NEW n \in Notices, ReceiveNotice(c, n) PROVE Inv'
<1>1. UNCHANGED <<order, payment, alloc, coupon, refund, task, expired, trade>>
  BY DEF ReceiveNotice
<1>2. notice' \in Notes
  BY Types DEF Inv, ReceiveNotice, Notes
<1>3. StartAbout(c, "notify", "query", n)
  BY DEF ReceiveNotice
<1>4. "notify" \in Kinds /\ "query" \in {"register", "query", "expire"}
  BY DEF Kinds
<1>5. QED
  BY <1>1, <1>2, <1>3, <1>4, Started, RowsStay

\* The steps that end a call and touch nothing but a notification.
LEMMA EndStep ==
  ASSUME Inv, NEW c \in Calls, QueryUnknown(c) \/ Acknowledge(c) \/ Abandon(c) PROVE Inv'
<1>1. UNCHANGED <<order, payment, alloc, coupon, refund, task, expired, trade>> /\ End(c)
  BY DEF QueryUnknown, Acknowledge, Abandon, local
<1>2. notice' \in Notes
  BY Types DEF Inv, QueryUnknown, Acknowledge, Abandon, local, Notes
<1>3. QED
  BY <1>1, <1>2, Ended, RowsStay

\* A call turns to a query and keeps what it knows.
LEMMA Recovers ==
  ASSUME Inv, NEW c \in Calls, call[c].stage # "idle",
         call' = [call EXCEPT ![c].kind = "recover", ![c].stage = "query"],
         trade' = trade, order' = order
  PROVE  /\ call' \in [Calls -> {Idle} \cup Active]
         /\ \A e \in Calls : call'[e] = call[e] \/ (Knows(e)' /\ call'[e].stage # "create")
<1>1. call[c] \in Active /\ call[c] # Idle /\ Knows(c) /\ call \in [Calls -> {Idle} \cup Active]
  BY Working, Types DEF Inv
<1>2. call' = [call EXCEPT ![c] = [call[c] EXCEPT !.kind = "recover", !.stage = "query"]]
  BY <1>1
<1>3. [call[c] EXCEPT !.kind = "recover", !.stage = "query"] \in Active
  BY <1>1 DEF Active, Stages, Kinds
<1>4. call' \in [Calls -> {Idle} \cup Active] /\ \A e \in Calls \ {c} : call'[e] = call[e]
  BY <1>1, <1>2, <1>3
<1>5. /\ call'[c].stage = "query" /\ call'[c].kind = "recover" /\ call'[c].seen = call[c].seen
      /\ call'[c].answer = call[c].answer /\ call'[c].late = call[c].late
  BY <1>1, <1>2 DEF Active
<1>6. Knows(c)'
  BY <1>1, <1>5 DEF Knows
<1>7. QED
  BY <1>4, <1>5, <1>6

LEMMA ReplayStep == ASSUME Inv, NEW c \in Calls, ReplaySession(c) PROVE Inv'
<1>1. UNCHANGED <<order, payment, alloc, coupon, refund, task, notice, expired, trade>>
      /\ call[c].stage # "idle" /\ notice \in Notes
  BY Types DEF ReplaySession, local, At, Inv
<1>2. CASE End(c)
  BY <1>1, <1>2, Ended, RowsStay
<1>3. CASE call' = [call EXCEPT ![c].kind = "recover", ![c].stage = "query"]
  BY <1>1, <1>3, Recovers, RowsStay
<1>4. QED
  BY <1>2, <1>3 DEF ReplaySession

LEMMA SaveStep == ASSUME Inv, NEW c \in Calls, SaveSession(c) PROVE Inv'
<1>1. UNCHANGED <<order, alloc, coupon, refund, task, notice, expired, trade>>
      /\ call[c].stage # "idle" /\ notice \in Notes /\ expired \in BOOLEAN /\ payment \in Payments
  BY Types DEF SaveSession, At, Inv
<1>2. payment' \in Payments /\ payment'.status = payment.status /\ payment'.sent = payment.sent
  BY <1>1 DEF SaveSession, Payments
<1>3. CASE End(c)
  <2>1. Quiet
    BY <1>1, <1>2, <1>3, Ended DEF Quiet
  <2>2. QED
    BY <2>1, QuietStep
<1>4. CASE call' = [call EXCEPT ![c].kind = "recover", ![c].stage = "query"]
  <2>1. Quiet
    BY <1>1, <1>2, <1>4, Recovers DEF Quiet
  <2>2. QED
    BY <2>1, QuietStep
<1>5. QED
  BY <1>3, <1>4 DEF SaveSession

LEMMA QueryStep == ASSUME Inv, NEW c \in Calls, QueryTrade(c) PROVE Inv'
<1>1. UNCHANGED <<order, payment, alloc, coupon, refund, task, notice, expired, trade>>
      /\ call[c].stage # "idle" /\ notice \in Notes /\ trade \in Trades /\ order \in Orders
  BY Types DEF QueryTrade, local, At, Inv
<1>2. call[c] \in Active /\ call[c] # Idle /\ Knows(c) /\ call \in [Calls -> {Idle} \cup Active]
  BY <1>1, Working, Types DEF Inv
<1>3. PICK x \in {"P", "S", "F"}, l \in BOOLEAN, s \in OrderStatuses \cup {"none"} :
        /\ x = trade.status /\ l = trade.late
        /\ s = IF call[c].kind = "recover" THEN order.status ELSE call[c].seen
  BY <1>1, <1>2 DEF QueryTrade, Trades, Orders, Active
<1>4. call' = [call EXCEPT ![c] = [call[c] EXCEPT !.stage = "apply", !.answer = x, !.late = l,
                                                  !.seen = s]]
  BY <1>2, <1>3 DEF QueryTrade
<1>5. [call[c] EXCEPT !.stage = "apply", !.answer = x, !.late = l, !.seen = s] \in Active
  BY <1>2 DEF Active, Stages
<1>6. call' \in [Calls -> {Idle} \cup Active] /\ \A e \in Calls \ {c} : call'[e] = call[e]
  BY <1>2, <1>4, <1>5
<1>7. /\ call'[c].stage = "apply" /\ call'[c].kind = call[c].kind /\ call'[c].seen = s
      /\ call'[c].answer = x /\ call'[c].late = l
  BY <1>2, <1>4 DEF Active
<1>8. Knows(c)'
  BY <1>1, <1>2, <1>3, <1>7 DEF Knows
<1>9. QED
  BY <1>1, <1>6, <1>7, <1>8, RowsStay

LEMMA OtherStep == ASSUME Inv, NEW c \in Calls, ApplyOther(c) PROVE Inv'
<1>1. UNCHANGED <<order, payment, alloc, coupon, refund, task, notice, expired, trade>>
      /\ call[c].stage # "idle" /\ notice \in Notes
  BY Types DEF ApplyOther, local, At, Inv
<1>2. Knows(c)
  BY <1>1, Working
<1>3. ASSUME ~End(c)
      PROVE  \E g \in {"ack", "expire", "close", "closed"} :
               Goto(c, g) /\ (g \in {"close", "closed"} => order.status # "pending_payment")
  BY <1>2, <1>3 DEF ApplyOther, Knows
<1>4. CASE End(c)
  BY <1>1, <1>4, Ended, RowsStay
<1>5. CASE ~End(c)
  <2>1. /\ call' \in [Calls -> {Idle} \cup Active]
        /\ \A e \in Calls : call'[e] = call[e] \/ (Knows(e)' /\ call'[e].stage # "create")
    BY <1>1, <1>3, <1>5, Advanced
  <2>2. QED
    BY <1>1, <2>1, RowsStay
<1>6. QED
  BY <1>4, <1>5

LEMMA ExpiresStep == ASSUME Inv, Expires PROVE Inv'
<1>1. payment \in Payments /\ notice \in Notes /\ call \in [Calls -> {Idle} \cup Active]
  BY Types DEF Inv
<1>2. Quiet
  BY <1>1 DEF Expires, local, Quiet
<1>3. QED
  BY <1>2, QuietStep

-----------------------------------------------------------------------------
(* The trade *)

\* A trade in the making or in progress moves: nobody has relied on it.
LEMMA TradeMoves ==
  ASSUME Inv, trade.status \in {"none", "P"}, payment.sent, trade' \in Trades, UNCHANGED local,
         expired' = expired, call' \in [Calls -> {Idle} \cup Active], CallsKnow'
  PROVE  Inv'
<1>1. UNCHANGED <<order, payment, alloc, coupon, refund, task, notice>>
  BY DEF local
<1>2. TypeOK'
  BY <1>1, Types, TypesNext DEF Inv
<1>3. alloc.external \in 0..Payable /\ alloc.external > 0 /\ alloc.status # "none"
  BY Types DEF Inv, Books, SharesFit, Allocs
<1>4. payment.status \notin Paid
  BY <1>3 DEF Inv, Books, PaymentFits
<1>5. order.status \notin Served
  BY <1>3, <1>4 DEF Inv, Books, ServedIsPaid
<1>6. PaymentFits' /\ SharesFit' /\ OrderFits'
  BY <1>1, <1>4 DEF Inv, Books, PaymentFits, SharesFit, OrderFits
<1>7. RefundsFit' /\ Covered(alloc)'
  BY <1>1, SameSums DEF Inv, Books, RefundsFit, Requested, Covered
<1>8. ServedIsPaid' /\ HeldIsWatched'
  BY <1>1, <1>5 DEF Inv, Books, ServedIsPaid, HeldIsWatched
<1>9. QED
  BY <1>2, <1>6, <1>7, <1>8 DEF Inv, Books

LEMMA GatewayStep == ASSUME Inv, CustomerPays \/ TradeFails PROVE Inv'
<1>1. /\ trade.status = "P" /\ UNCHANGED local /\ UNCHANGED <<expired, call>>
      /\ trade \in Trades /\ expired \in BOOLEAN /\ call \in [Calls -> {Idle} \cup Active]
  BY Types DEF CustomerPays, TradeFails, Inv
<1>2. trade' \in Trades /\ trade'.status \in {"S", "F"}
  BY <1>1 DEF CustomerPays, TradeFails, Trades
<1>3. payment.sent
  BY <1>1 DEF Inv, Books, SharesFit
<1>4. \A c \in Calls : call[c].answer # "S" /\ call[c].stage # "create"
  BY <1>1 DEF Inv, CallsKnow, Knows
<1>5. CallsKnow'
  BY <1>1, <1>4 DEF Inv, CallsKnow, Knows, local
<1>6. QED
  BY <1>1, <1>2, <1>3, <1>5, TradeMoves

LEMMA CreateStep == ASSUME Inv, NEW c \in Calls, CreateTrade(c) PROVE Inv'
<1>1. /\ call[c].stage = "create" /\ UNCHANGED local /\ UNCHANGED expired
      /\ trade \in Trades /\ call \in [Calls -> {Idle} \cup Active]
  BY Types DEF CreateTrade, At, Inv
<1>2. call[c] \in Active /\ call[c] # Idle /\ Knows(c)
  BY <1>1, Working
<1>3. payment.sent /\ trade.status = "none"
  BY <1>1, <1>2 DEF Knows
<1>4. PICK s \in {"P", "F", "none"}, a \in {"P", "F", "error"} :
        /\ trade' = [trade EXCEPT !.status = s]
        /\ call' = [call EXCEPT ![c] = [call[c] EXCEPT !.stage = "save", !.answer = a]]
  <2>1. PICK s \in {"P", "F", "none"}, lost \in BOOLEAN :
         /\ trade' = [trade EXCEPT !.status = s]
         /\ call' = [call EXCEPT ![c] = [call[c] EXCEPT !.stage = "save",
                       !.answer = IF s = "none" \/ lost THEN "error" ELSE s]]
    BY <1>1 DEF CreateTrade
  <2>2. PICK a : a = IF s = "none" \/ lost THEN "error" ELSE s
    OBVIOUS
  <2>3. a \in {"P", "F", "error"}
    BY <2>2
  <2>4. QED
    BY <2>1, <2>2, <2>3
<1>5. [call[c] EXCEPT !.stage = "save", !.answer = a] \in Active
  BY <1>2 DEF Active, Stages
<1>6. /\ trade' \in Trades /\ call' \in [Calls -> {Idle} \cup Active]
      /\ \A e \in Calls \ {c} : call'[e] = call[e]
  BY <1>1, <1>4, <1>5 DEF Trades
<1>7. /\ call'[c].stage = "save" /\ call'[c].kind = call[c].kind /\ call'[c].seen = call[c].seen
      /\ call'[c].answer # "S"
  BY <1>1, <1>2, <1>4 DEF Active
<1>8. Knows(c)'
  BY <1>1, <1>2, <1>7 DEF Knows, local
<1>9. \A e \in Calls \ {c} : call[e].stage # "create" /\ call[e].answer # "S"
  BY <1>1, <1>3 DEF Inv, CallsKnow, Knows
<1>10. \A e \in Calls \ {c} : Knows(e)'
  BY <1>1, <1>6, <1>9 DEF Inv, CallsKnow, Knows, local
<1>11. CallsKnow'
  BY <1>6, <1>7, <1>8, <1>9, <1>10 DEF CallsKnow
<1>12. QED
  BY <1>1, <1>3, <1>6, <1>11, TradeMoves

LEMMA CloseStep == ASSUME Inv, NEW c \in Calls, CloseTrade(c) PROVE Inv'
<1>1. /\ call[c].stage = "close" /\ UNCHANGED local /\ UNCHANGED expired
      /\ trade \in Trades /\ call \in [Calls -> {Idle} \cup Active] /\ notice \in Notes
  BY Types DEF CloseTrade, At, Inv
<1>2. order.status # "pending_payment"
  BY <1>1, Working DEF Knows
<1>3. UNCHANGED <<order, payment, alloc, coupon, refund, task, notice, expired>>
  BY <1>1 DEF local
<1>4. CASE trade.status = "P" /\ trade' = [trade EXCEPT !.status = "F"] /\ Goto(c, "closed")
  <2>1. /\ call' \in [Calls -> {Idle} \cup Active] /\ \A e \in Calls \ {c} : call'[e] = call[e]
        /\ call'[c] = [call[c] EXCEPT !.stage = "closed"]
    <3>1. call[c] \in Active
      BY <1>1, Working
    <3>2. [call[c] EXCEPT !.stage = "closed"] \in Active
      BY <3>1 DEF Active, Stages
    <3>3. call' = [call EXCEPT ![c] = [call[c] EXCEPT !.stage = "closed"]]
      BY <1>4 DEF Goto
    <3>4. QED
      BY <1>1, <3>2, <3>3
  <2>2. /\ call'[c].stage = "closed" /\ call'[c].kind = call[c].kind
        /\ call'[c].seen = call[c].seen /\ call'[c].answer = call[c].answer
    BY <1>1, <2>1, Working DEF Active
  <2>3. \A e \in Calls : call[e].answer # "S" /\ call[e].stage # "create"
    BY <1>4 DEF Inv, CallsKnow, Knows
  <2>4. \A e \in Calls \ {c} : Knows(e)'
    BY <1>3, <2>1, <2>3 DEF Inv, CallsKnow, Knows
  <2>5. Knows(c)'
    BY <1>2, <1>3, <2>2, <2>3 DEF Knows
  <2>6. CallsKnow'
    BY <2>1, <2>2, <2>3, <2>4, <2>5 DEF CallsKnow
  <2>7. trade' \in Trades /\ payment.sent
    BY <1>1, <1>4 DEF Trades, Inv, Books, SharesFit
  <2>8. QED
    BY <1>1, <1>4, <2>1, <2>6, <2>7, TradeMoves
<1>5. CASE Goto(c, "closed") /\ UNCHANGED trade
  <2>1. /\ call' \in [Calls -> {Idle} \cup Active]
        /\ \A e \in Calls : call'[e] = call[e] \/ (Knows(e)' /\ call'[e].stage # "create")
    BY <1>1, <1>2, <1>3, <1>5, Advanced
  <2>2. QED
    BY <1>1, <1>3, <1>5, <2>1, RowsStay
<1>6. CASE End(c) /\ UNCHANGED trade
  BY <1>1, <1>3, <1>6, Ended, RowsStay
<1>7. QED
  BY <1>4, <1>5, <1>6 DEF CloseTrade

-----------------------------------------------------------------------------
(* Closing an unpaid payment *)

\* The types of the rows a decision changes.
LEMMA Rows ==
  ASSUME Inv
  PROVE  /\ order \in Orders /\ payment \in Payments /\ alloc \in Allocs /\ refund \in [Keys -> Refund]
         /\ coupon \in {"reserved", "used", "available"} /\ task \in {"absent", "pending", "done"}
         /\ notice \in Notes /\ trade \in Trades /\ expired \in BOOLEAN
         /\ call \in [Calls -> {Idle} \cup Active]
BY Types DEF Inv

\* Where an order stands tells what became of its payment.
LEMMA Standing ==
  ASSUME Inv
  PROVE  /\ order.status = "pending_payment" =>
              /\ payment.status \notin Paid /\ payment.status # "closed" /\ coupon = "reserved"
              /\ \A k \in Keys : ~Requested(k)
         /\ order.status \in Served => payment.status \in Paid /\ alloc.status = "consumed"
         /\ alloc.status = "held" => payment.status = "pending_payment"
         /\ \A k \in Keys : Requested(k) => payment.status \in Paid
         /\ order.status \in Served \cup Over \cup {"pending_payment"}
<1>1. order.status \in OrderStatuses /\ payment.status \in {"absent", "pending_payment", "closed"} \cup Paid
  BY Rows DEF Orders, Payments
<1>2. PaymentFits /\ OrderFits /\ ServedIsPaid /\ RefundsFit
  BY DEF Inv, Books
<1>3. \A k \in Keys : Requested(k) => payment.status \in Paid
  BY <1>2 DEF RefundsFit
<1>4. QED
  BY <1>1, <1>2, <1>3 DEF PaymentFits, OrderFits, ServedIsPaid, Paid, OrderStatuses, Over, Served

LEMMA Closing ==
  ASSUME Inv, ClosePayment, refund' = refund, trade' = trade
  PROVE  /\ payment' \in Payments /\ alloc' \in Allocs
         /\ PaymentFits' /\ SharesFit' /\ RefundsFit' /\ Covered(alloc)'
         /\ alloc'.status # "held" /\ payment'.sent = payment.sent
         /\ payment'.status \in Paid <=> payment.status \in Paid
         /\ payment.status \in Paid => payment' = payment /\ alloc' = alloc
<1>1. CASE payment.status # "pending_payment"
  <2>1. payment' = payment /\ alloc' = alloc
    BY <1>1 DEF ClosePayment
  <2>2. PaymentFits' /\ SharesFit' /\ RefundsFit'
    BY <2>1 DEF Inv, Books, PaymentFits, SharesFit, RefundsFit, Requested
  <2>3. Covered(alloc)'
    BY <2>1, SameSums DEF Inv, Books, Covered
  <2>4. QED
    BY <1>1, <2>1, <2>2, <2>3, Rows, Standing
<1>2. CASE payment.status = "pending_payment"
  <2>1. payment' = [payment EXCEPT !.status = "closed"] /\ alloc' = [alloc EXCEPT !.status = "released"]
    BY <1>2 DEF ClosePayment, ReleasedAlloc, Inv, Books, PaymentFits
  <2>2. /\ payment' \in Payments /\ payment'.status = "closed" /\ payment'.sent = payment.sent
        /\ alloc' \in Allocs /\ alloc'.status = "released"
        /\ alloc'.wallet = alloc.wallet /\ alloc'.external = alloc.external
    BY <2>1, Rows DEF Payments, Allocs
  <2>3. \A k \in Keys : ~Requested(k)
    BY <1>2, Standing DEF Paid
  <2>4. PaymentFits' /\ SharesFit'
    BY <1>2, <2>2 DEF Inv, Books, PaymentFits, SharesFit, Paid
  <2>5. RefundsFit'
    BY <2>3 DEF Inv, Books, RefundsFit, Requested
  <2>6. ReservedWallet' = 0 /\ ReservedExternal' = 0
    BY <2>3, SameSums, NothingReserved DEF Inv, Books
  <2>7. alloc'.external >= 0
    BY <2>2, PaymentAssumption DEF Allocs
  <2>8. Covered(alloc)'
    BY <2>2, <2>6, <2>7 DEF Covered
  <2>9. QED
    BY <1>2, <2>2, <2>4, <2>5, <2>8 DEF Paid
<1>3. QED
  BY <1>1, <1>2

\* An order that was waiting is cancelled unpaid.
LEMMA CancelledUnpaid ==
  ASSUME Inv, order.status = "pending_payment", order' = [order EXCEPT !.status = "cancelled"],
         coupon' = ReleasedCoupon(FALSE), UNCHANGED <<refund, notice, expired, trade>>,
         payment' \in Payments, alloc' \in Allocs, task' \in {"absent", "pending", "done"},
         PaymentFits', SharesFit', Covered(alloc)', payment'.sent = payment.sent,
         payment'.status \notin Paid, alloc'.status = "held" => task' = "pending",
         call' \in [Calls -> {Idle} \cup Active],
         \A e \in Calls : call'[e] = call[e] \/ (Knows(e)' /\ call'[e].stage # "create")
  PROVE  Inv'
<1>1. order' \in Orders /\ order'.status = "cancelled" /\ coupon' = "available"
  BY Rows, Standing DEF Orders, OrderStatuses, ReleasedCoupon
<1>2. TypeOK'
  BY <1>1, Rows, TypesNext
<1>3. OrderFits' /\ ServedIsPaid' /\ HeldIsWatched'
  BY <1>1 DEF OrderFits, ServedIsPaid, HeldIsWatched, Served, Over
<1>4. \A k \in Keys : ~Requested(k)
  BY Standing
<1>5. RefundsFit'
  BY <1>4 DEF Inv, Books, RefundsFit, Requested
<1>6. CallsKnow'
  BY <1>1, CallsGoOn
<1>7. QED
  BY <1>2, <1>3, <1>5, <1>6 DEF Inv, Books

LEMMA ExpireStep == ASSUME Inv, NEW c \in Calls, ExpireProviderOrderPayment(c) PROVE Inv'
<1>1. UNCHANGED <<refund, task, notice, expired, trade>> /\ End(c)
  BY DEF ExpireProviderOrderPayment
<1>2. /\ call' \in [Calls -> {Idle} \cup Active]
      /\ \A e \in Calls : call'[e] = call[e] \/ (Knows(e)' /\ call'[e].stage # "create")
  BY <1>1, Ended
<1>3. CASE order.status # "pending_payment"
  BY <1>1, <1>2, <1>3, Rows, RowsStay DEF ExpireProviderOrderPayment
<1>4. CASE order.status = "pending_payment"
  <2>1. order' = [order EXCEPT !.status = "cancelled"] /\ coupon' = ReleasedCoupon(FALSE) /\ ClosePayment
    BY <1>4 DEF ExpireProviderOrderPayment
  <2>2. /\ payment' \in Payments /\ alloc' \in Allocs /\ PaymentFits' /\ SharesFit' /\ Covered(alloc)'
        /\ payment'.sent = payment.sent /\ alloc'.status # "held" /\ payment'.status \notin Paid
    BY <1>1, <1>4, <2>1, Closing, Standing
  <2>3. QED
    BY <1>1, <1>2, <1>4, <2>1, <2>2, Rows, CancelledUnpaid
<1>5. QED
  BY <1>3, <1>4

LEMMA CustomerCancelStep == ASSUME Inv, CustomerCancel PROVE Inv'
<1>1. /\ order.status = "pending_payment" /\ order' = [order EXCEPT !.status = "cancelled"]
      /\ coupon' = ReleasedCoupon(FALSE) /\ UNCHANGED <<refund, notice, expired, trade, call>>
  BY DEF CustomerCancel
<1>2. CASE task' = "pending" /\ UNCHANGED <<payment, alloc>>
  <2>1. PaymentFits' /\ SharesFit' /\ Covered(alloc)'
    BY <1>1, <1>2, SameSums DEF Inv, Books, PaymentFits, SharesFit, Covered
  <2>2. QED
    BY <1>1, <1>2, <2>1, Rows, Standing, CancelledUnpaid
<1>3. CASE ClosePayment /\ UNCHANGED task
  <2>1. /\ payment' \in Payments /\ alloc' \in Allocs /\ PaymentFits' /\ SharesFit' /\ Covered(alloc)'
        /\ payment'.sent = payment.sent /\ alloc'.status # "held" /\ payment'.status \notin Paid
    BY <1>1, <1>3, Closing, Standing
  <2>2. QED
    BY <1>1, <1>3, <2>1, Rows, CancelledUnpaid
<1>4. QED
  BY <1>2, <1>3 DEF CustomerCancel

LEMMA ClosedStep == ASSUME Inv, NEW c \in Calls, MarkCancelledPaymentClosed(c) PROVE Inv'
<1>1. /\ call[c].stage = "closed" /\ ClosePayment /\ task' = "done" /\ End(c)
      /\ UNCHANGED <<order, coupon, refund, notice, expired, trade>>
  BY DEF MarkCancelledPaymentClosed, At
<1>2. order.status # "pending_payment"
  BY <1>1, Working DEF Knows
<1>3. /\ payment' \in Payments /\ alloc' \in Allocs
      /\ PaymentFits' /\ SharesFit' /\ RefundsFit' /\ Covered(alloc)'
      /\ alloc'.status # "held" /\ payment'.sent = payment.sent
      /\ payment'.status \in Paid <=> payment.status \in Paid
      /\ payment.status \in Paid => payment' = payment /\ alloc' = alloc
  BY <1>1, Closing
<1>4. TypeOK'
  BY <1>1, <1>3, Ended, Rows, TypesNext
<1>5. OrderFits' /\ HeldIsWatched'
  BY <1>1, <1>2, <1>3 DEF Inv, Books, OrderFits, HeldIsWatched
<1>6. ServedIsPaid'
  <2>1. order.status \in Served => payment' = payment /\ alloc' = alloc
    BY <1>3, Standing
  <2>2. QED
    BY <1>1, <2>1 DEF Inv, Books, ServedIsPaid
<1>7. CallsKnow'
  BY <1>1, <1>3, Ended, CallsGoOn
<1>8. QED
  BY <1>3, <1>4, <1>5, <1>6, <1>7 DEF Inv, Books

-----------------------------------------------------------------------------
(* Recording a payment *)

\* A payment credited in time: wallet consumed, gateway charged in time, coupon used.
LEMMA CreditBooks ==
  ASSUME Inv, NEW a \in Allocs, Credit(a), a.wallet + a.external = Payable,
         a.external > 0 => trade.status = "S" /\ ~trade.late,
         payment.sent => a.external > 0, notice' \in Notes, UNCHANGED <<expired, trade>>,
         call' \in [Calls -> {Idle} \cup Active],
         \A e \in Calls : call'[e] = call[e] \/ (Knows(e)' /\ call'[e].stage # "create")
  PROVE  Inv'
<1>1. /\ order.status = "pending_payment" /\ UNCHANGED <<refund, task>>
      /\ order' = [order EXCEPT !.status = "pending_acceptance", !.paid = TRUE]
      /\ payment' = [payment EXCEPT !.status = "paid"] /\ alloc' = [a EXCEPT !.status = "consumed"]
      /\ coupon' = IF coupon = "reserved" THEN "used" ELSE coupon
  BY DEF Credit
<1>2. /\ coupon = "reserved" /\ \A k \in Keys : ~Requested(k)
  BY <1>1, Standing
<1>3. /\ order' \in Orders /\ order'.status = "pending_acceptance"
      /\ payment' \in Payments /\ payment'.status = "paid" /\ payment'.sent = payment.sent
  BY <1>1, Rows DEF Orders, OrderStatuses, Served, Payments, Paid
<1>4. order'.paid
  BY <1>1, Rows, Zenon DEF Orders
<1>5. /\ alloc' \in Allocs /\ alloc'.status = "consumed"
      /\ alloc'.wallet = a.wallet /\ alloc'.external = a.external
  BY <1>1 DEF Allocs
<1>6. TypeOK'
  BY <1>1, <1>2, <1>3, <1>5, Rows, TypesNext
<1>7. PaymentFits' /\ SharesFit' /\ OrderFits'
  BY <1>3, <1>5 DEF Inv, Books, PaymentFits, SharesFit, OrderFits, Paid, Over
<1>8. RefundsFit'
  BY <1>1, <1>2 DEF Inv, Books, RefundsFit, Requested
<1>9. Covered(alloc)'
  <2>1. ReservedWallet' = 0 /\ ReservedTotal' = 0
    BY <1>1, <1>2, SameSums, NothingReserved DEF Inv, Books
  <2>2. PICK w \in 0..Payable : w = alloc'.wallet
    BY <1>5 DEF Allocs
  <2>3. Portion(0, w) = 0 /\ 0 <= Payable
    <3>1. 0 * w = 0 /\ Payable \in Nat \ {0}
      BY PaymentAssumption
    <3>2. 0 \div Payable = 0
      BY <3>1
    <3>3. QED
      BY <3>1, <3>2 DEF Portion
  <2>4. Portion(ReservedTotal, alloc.wallet)' = Portion(0, w)
    BY <2>1, <2>2
  <2>5. QED
    BY <1>5, <2>1, <2>3, <2>4 DEF Covered
<1>10. ServedIsPaid'
  BY <1>1, <1>2, <1>3, <1>4, <1>5 DEF ServedIsPaid
<1>11. HeldIsWatched'
  BY <1>5 DEF HeldIsWatched
<1>12. CallsKnow'
  BY <1>3, CallsGoOn
<1>13. QED
  BY <1>6, <1>7, <1>8, <1>9, <1>10, <1>11, <1>12 DEF Inv, Books

LEMMA RegisterStep == ASSUME Inv, NEW c \in Calls, RegisterRequest(c) PROVE Inv'
<1>1. /\ call[c].stage = "register" /\ order.status = "pending_payment" /\ ~payment.sent
      /\ UNCHANGED <<expired, notice, trade>>
  BY DEF RegisterRequest, At
<1>2. /\ payment.status = "absent" /\ alloc.status = "none" /\ trade.status = "none"
      /\ coupon = "reserved" /\ \A k \in Keys : ~Requested(k)
  <2>1. trade.status = "none"
    BY <1>1 DEF Inv, Books, SharesFit
  <2>2. payment.status = "absent"
    BY <1>1 DEF RegisterRequest, Inv, Books, PaymentFits
  <2>3. alloc.status = "none"
    BY <2>2 DEF Inv, Books, PaymentFits
  <2>4. QED
    BY <1>1, <2>1, <2>2, <2>3, Standing
<1>3. PICK w \in Shares :
        IF Prepared(w).external = 0 THEN Credit(Prepared(w)) /\ End(c)
        ELSE /\ alloc' = Prepared(w)
             /\ payment' = [status |-> "pending_payment", sent |-> TRUE, preorder |-> "submitting"]
             /\ Goto(c, "create") /\ UNCHANGED <<order, coupon, refund, task>>
  BY DEF RegisterRequest
<1>4. w \in 0..Payable /\ Payable \in Nat
  BY PaymentAssumption
<1>5. PICK a : a = Prepared(w)
  OBVIOUS
<1>6. PICK x : x = Payable - w
  OBVIOUS
<1>7. x \in 0..Payable /\ w + x = Payable
  BY <1>4, <1>6
<1>8. a = [status |-> "held", wallet |-> w, external |-> x]
  BY <1>2, <1>5, <1>6 DEF Prepared
<1>9. /\ a \in Allocs /\ a.status = "held" /\ a.wallet = w /\ a.external = x
      /\ a.wallet + a.external = Payable
  BY <1>4, <1>7, <1>8 DEF Allocs
<1>10. CASE a.external = 0
  <2>1. Credit(a) /\ End(c)
    BY <1>3, <1>5, <1>10
  <2>2. QED
    BY <1>1, <1>9, <1>10, <2>1, Ended, Rows, CreditBooks
<1>11. CASE a.external # 0
  <2>1. /\ alloc' = a
        /\ payment' = [status |-> "pending_payment", sent |-> TRUE, preorder |-> "submitting"]
        /\ Goto(c, "create") /\ UNCHANGED <<order, coupon, refund, task>>
    BY <1>3, <1>5, <1>11
  <2>2. payment' \in Payments /\ payment'.status = "pending_payment"
    BY <2>1 DEF Payments
  <2>3. payment'.sent
    BY <2>1
  <2>4. call[c] \in Active /\ call[c] # Idle /\ Knows(c) /\ call \in [Calls -> {Idle} \cup Active]
    BY <1>1, Working, Rows
  <2>5. call' = [call EXCEPT ![c] = [call[c] EXCEPT !.stage = "create"]]
    BY <2>1 DEF Goto
  <2>6. [call[c] EXCEPT !.stage = "create"] \in Active
    BY <2>4 DEF Active, Stages
  <2>7. call' \in [Calls -> {Idle} \cup Active] /\ \A e \in Calls \ {c} : call'[e] = call[e]
    BY <2>4, <2>5, <2>6
  <2>8. /\ call'[c].stage = "create" /\ call'[c].kind = call[c].kind
        /\ call'[c].seen = call[c].seen /\ call'[c].answer = call[c].answer
        /\ call'[c].late = call[c].late
    BY <2>4, <2>5 DEF Active
  <2>9. TypeOK'
    BY <1>1, <1>9, <2>1, <2>2, <2>7, Rows, TypesNext
  <2>10. a.external > 0
    BY <1>7, <1>9, <1>11
  <2>11. PaymentFits' /\ SharesFit' /\ OrderFits'
    BY <1>1, <1>2, <1>9, <2>1, <2>2, <2>3, <2>10 DEF PaymentFits, SharesFit, OrderFits, Paid, Over
  <2>12. RefundsFit'
    BY <1>2, <2>1 DEF Inv, Books, RefundsFit, Requested
  <2>13. Covered(alloc)'
    <3>1. ReservedWallet' = 0 /\ ReservedExternal' = 0
      BY <1>2, <2>1, SameSums, NothingReserved DEF Inv, Books
    <3>2. 0 <= a.external
      BY <1>7, <1>9
    <3>3. QED
      BY <1>9, <2>1, <3>1, <3>2 DEF Covered
  <2>14. ServedIsPaid' /\ HeldIsWatched'
    BY <1>1, <2>1 DEF ServedIsPaid, HeldIsWatched, Served
  <2>15. \A e \in Calls : call[e].stage # "create"
    BY <1>1 DEF Inv, CallsKnow, Knows
  <2>16. Knows(c)'
    BY <1>1, <1>2, <2>1, <2>3, <2>4, <2>8 DEF Knows
  <2>17. \A e \in Calls \ {c} : Knows(e)'
    BY <1>1, <2>1, <2>7, <2>15 DEF Inv, CallsKnow, Knows
  <2>18. CallsKnow'
    BY <2>7, <2>15, <2>16, <2>17 DEF CallsKnow
  <2>19. QED
    BY <2>9, <2>11, <2>12, <2>13, <2>14, <2>18 DEF Inv, Books
<1>12. QED
  BY <1>10, <1>11

\* A success that comes late, or after the cancellation, is kept and owed back.
LEMMA RecordedBooks ==
  ASSUME Inv, RecordCancelled, trade.status = "S", notice' \in Notes, UNCHANGED <<expired, trade>>,
         call' \in [Calls -> {Idle} \cup Active],
         \A e \in Calls : call'[e] = call[e] \/ (Knows(e)' /\ call'[e].stage # "create")
  PROVE  Inv'
<1>1. payment.sent /\ payment.status # "absent" /\ alloc.status # "none"
  BY DEF Inv, Books, SharesFit, PaymentFits
<1>2. PICK a : a = ReleasedAlloc
  OBVIOUS
<1>3. /\ a \in Allocs /\ a.status \in {"consumed", "released"}
      /\ a.wallet = alloc.wallet /\ a.external = alloc.external /\ a.wallet + a.external = Payable
      /\ a.status = "consumed" => alloc.status = "consumed"
      /\ alloc.status = "consumed" => a.status = "consumed"
  BY <1>1, <1>2, Rows DEF ReleasedAlloc, Allocs, Inv, Books, SharesFit
<1>4. /\ order' = [order EXCEPT !.status = IF @ = "pending_payment" THEN "cancelled" ELSE @, !.paid = TRUE]
      /\ payment' = [payment EXCEPT !.status = "paid"] /\ alloc' = a /\ UNCHANGED <<coupon, task>>
      /\ order.status \in {"pending_payment", "cancelled", "refunded"}
  BY <1>2 DEF RecordCancelled
<1>5. /\ order' \in Orders /\ order'.status \in {"cancelled", "refunded"}
      /\ payment' \in Payments /\ payment'.status = "paid" /\ payment'.sent = payment.sent
  BY <1>4, Rows DEF Orders, OrderStatuses, Payments, Paid
<1>6. Covered(a)
  <2>1. CASE alloc.status = "consumed"
    BY <1>3, <2>1 DEF Inv, Books, Covered
  <2>2. CASE alloc.status # "consumed"
    BY <1>3, <2>2 DEF Inv, Books, Covered
  <2>3. QED
    BY <2>1, <2>2
<1>7. refund' \in [Keys -> Refund] /\ RefundsFit' /\ Covered(alloc)'
  <2>1. CASE UNCHANGED refund
    <3>1. RefundsFit'
      BY <1>5, <2>1 DEF Inv, Books, RefundsFit, Requested, Paid
    <3>2. Covered(alloc)'
      BY <1>4, <1>6, <2>1, SameSums DEF Covered
    <3>3. QED
      BY <2>1, <3>1, <3>2, Rows
  <2>2. CASE ~Requested("compensation")
    <3>1. Refundable(a, OwedOnCancel(a)) /\ refund' = NewRefund(a, "compensation", OwedOnCancel(a))
      BY <1>2, <2>2 DEF RecordCancelled
    <3>2. OwedOnCancel(a) \in Nat
      BY <1>3, PaymentAssumption DEF OwedOnCancel, Allocs
    <3>3. "compensation" \in Keys /\ payment'.status \in Paid
      BY <1>5 DEF Keys, Paid
    <3>4. QED
      BY <1>3, <1>4, <1>6, <2>2, <3>1, <3>2, <3>3, RefundAdded
  <2>3. QED
    BY <2>1, <2>2 DEF RecordCancelled
<1>8. TypeOK'
  BY <1>3, <1>4, <1>5, <1>7, Rows, TypesNext
<1>9. PaymentFits' /\ SharesFit' /\ OrderFits'
  BY <1>1, <1>3, <1>4, <1>5 DEF Inv, Books, PaymentFits, SharesFit, OrderFits, Paid
<1>10. ServedIsPaid' /\ HeldIsWatched'
  BY <1>3, <1>4, <1>5 DEF ServedIsPaid, HeldIsWatched, Served
<1>11. CallsKnow'
  BY <1>5, CallsGoOn
<1>12. QED
  BY <1>7, <1>8, <1>9, <1>10, <1>11 DEF Inv, Books

LEMMA ApplyStep == ASSUME Inv, NEW c \in Calls, ApplySuccess(c) PROVE Inv'
<1>1. /\ call[c].stage = "apply" /\ call[c].answer = "S" /\ UNCHANGED <<notice, expired, trade>>
      /\ notice \in Notes
  BY Rows DEF ApplySuccess, At
<1>2. call[c] # Idle /\ Knows(c)
  BY <1>1, Working
<1>3. trade.status = "S" /\ call[c].late = trade.late
  BY <1>1, <1>2 DEF Knows
<1>4. ASSUME End(c) \/ AfterSuccess(c),
             order'.status = "pending_payment" => order.status = "pending_payment"
      PROVE  /\ call' \in [Calls -> {Idle} \cup Active]
             /\ \A e \in Calls : call'[e] = call[e] \/ (Knows(e)' /\ call'[e].stage # "create")
  <2>1. CASE End(c)
    BY <2>1, Ended
  <2>2. CASE Goto(c, "ack")
    BY <1>1, <1>4, <2>2, Advanced
  <2>3. QED
    BY <1>4, <2>1, <2>2 DEF AfterSuccess
<1>5. End(c) \/ AfterSuccess(c)
  BY DEF ApplySuccess
<1>6. CASE SeenCancelled(c) /\ RecordCancelled
  <2>1. order'.status = "pending_payment" => order.status = "pending_payment"
    BY <1>6, Rows DEF RecordCancelled, Orders
  <2>2. QED
    BY <1>1, <1>3, <1>4, <1>5, <1>6, <2>1, RecordedBooks
<1>7. CASE RecordNothing \/ CreditNothing
  <2>1. UNCHANGED <<order, payment, alloc, coupon, refund, task>>
    BY <1>7 DEF RecordNothing, CreditNothing
  <2>2. QED
    BY <1>1, <1>4, <1>5, <2>1, RowsStay
<1>8. CASE ~SeenCancelled(c) /\ Credit(alloc)
  <2>1. order.status = "pending_payment" /\ order'.status = "pending_acceptance"
    BY <1>8, Rows DEF Credit, Orders
  <2>2. call[c].seen = "pending_payment"
    BY <1>2, <2>1 DEF Knows
  <2>3. ~trade.late
    BY <1>3, <1>8, <2>2, Zenon DEF SeenCancelled
  <2>4. payment.sent /\ alloc.wallet + alloc.external = Payable /\ alloc.external > 0
    BY <1>3 DEF Inv, Books, SharesFit
  <2>5. /\ call' \in [Calls -> {Idle} \cup Active]
        /\ \A e \in Calls : call'[e] = call[e] \/ (Knows(e)' /\ call'[e].stage # "create")
    BY <1>4, <1>5, <2>1
  <2>6. QED
    BY <1>1, <1>3, <1>8, <2>3, <2>4, <2>5, Rows, CreditBooks
<1>9. QED
  BY <1>6, <1>7, <1>8 DEF ApplySuccess

-----------------------------------------------------------------------------
(* Decisions about a paid order, and refunds *)

\* A refund is created for a recorded payment; the order may be cancelled with it.
LEMMA RefundBooks ==
  ASSUME Inv, NEW k \in Keys, ~Requested(k), NEW amount \in Nat, Refundable(alloc, amount),
         refund' = NewRefund(alloc, k, amount), payment.status \in Paid,
         order' \in Orders, order'.status # "pending_payment",
         order' = order \/ order'.status = "cancelled",
         task' \in {"absent", "pending", "done"},
         UNCHANGED <<payment, alloc, coupon, notice, expired, trade, call>>
  PROVE  Inv'
<1>1. alloc \in Allocs /\ alloc.status \in {"consumed", "released"}
      /\ alloc.wallet + alloc.external = Payable /\ Covered(alloc)
  BY Rows DEF Inv, Books, PaymentFits, SharesFit
<1>2. PICK a \in Allocs : a = alloc
  BY <1>1
<1>3. refund' \in [Keys -> Refund] /\ RefundsFit' /\ Covered(alloc)'
  BY <1>1, <1>2, RefundAdded
<1>4. TypeOK'
  BY <1>3, Rows, TypesNext
<1>5. PaymentFits' /\ SharesFit' /\ OrderFits'
  BY DEF Inv, Books, PaymentFits, SharesFit, OrderFits
<1>6. ServedIsPaid' /\ HeldIsWatched'
  <2>1. order'.status \in Served => order' = order
    BY DEF Served
  <2>2. QED
    BY <1>1, <2>1 DEF Inv, Books, ServedIsPaid, HeldIsWatched
<1>7. CallsKnow'
  BY CallsGoOn
<1>8. QED
  BY <1>3, <1>4, <1>5, <1>6, <1>7 DEF Inv, Books

\* A paid order goes on, or its compensation is done, and no money moves.
LEMMA OrderMoves ==
  ASSUME Inv, order' \in Orders, task' \in {"absent", "pending", "done"},
         payment.status \in Paid \/ (payment.status = "closed" /\ order' = order),
         order'.status \in Served => order.status \in Served,
         order'.status = "pending_payment" => order' = order,
         order.paid => order'.paid,
         UNCHANGED <<payment, alloc, coupon, refund, notice, expired, trade, call>>
  PROVE  Inv'
<1>1. alloc.status # "held"
  BY DEF Inv, Books, PaymentFits
<1>2. TypeOK'
  BY Rows, TypesNext
<1>3. PaymentFits' /\ SharesFit'
  BY DEF Inv, Books, PaymentFits, SharesFit
<1>4. OrderFits'
  <2>1. CASE order' = order
    BY <2>1 DEF Inv, Books, OrderFits
  <2>2. CASE order' # order
    BY <2>2 DEF OrderFits
  <2>3. QED
    BY <2>1, <2>2
<1>5. RefundsFit' /\ Covered(alloc)'
  BY SameSums DEF Inv, Books, RefundsFit, Requested, Covered
<1>6. ServedIsPaid'
  BY Zenon DEF Inv, Books, ServedIsPaid
<1>7. HeldIsWatched'
  BY <1>1 DEF HeldIsWatched
<1>8. CallsKnow'
  BY CallsGoOn
<1>9. QED
  BY <1>2, <1>3, <1>4, <1>5, <1>6, <1>7, <1>8 DEF Inv, Books

LEMMA ProviderStep == ASSUME Inv, ProviderRejects \/ ProviderDeparts PROVE Inv'
<1>1. PICK s \in {"pending_support", "departed"} : order' = [order EXCEPT !.status = s]
  BY DEF ProviderRejects, ProviderDeparts
<1>2. order' \in Orders /\ order'.status = s
  BY <1>1, Rows DEF Orders, OrderStatuses, Served
<1>3. order.paid => order'.paid
  BY <1>1, Rows, Zenon DEF Orders
<1>4. order.status \in Served /\ payment.status \in Paid
      /\ UNCHANGED <<payment, alloc, coupon, refund, task, notice, expired, trade, call>>
  BY Standing DEF ProviderRejects, ProviderDeparts, Served
<1>5. QED
  BY <1>2, <1>3, <1>4, Rows, OrderMoves

LEMMA CompensationStep == ASSUME Inv, CompensationSettled PROVE Inv'
<1>1. task' = "done" /\ UNCHANGED <<order, payment, alloc, coupon, notice, expired, trade, call>>
  BY DEF CompensationSettled
<1>2. CASE /\ order.status = "refunded" \/ Requested("compensation") \/ payment.status = "closed"
           /\ UNCHANGED refund
  <2>1. payment.status \in Paid \/ payment.status = "closed"
    <3>1. order.status = "refunded" => payment.status \in Paid
      BY DEF Inv, Books, OrderFits, Over
    <3>2. "compensation" \in Keys
      BY DEF Keys
    <3>3. QED
      BY <1>2, <3>1, <3>2, Standing
  <2>2. QED
    BY <1>1, <1>2, <2>1, Rows, OrderMoves
<1>3. CASE /\ order.status = "cancelled" /\ ~Requested("compensation")
           /\ payment.status \in {"paid", "partially_refunded"}
           /\ Refundable(alloc, OwedOnCancel(alloc))
           /\ refund' = NewRefund(alloc, "compensation", OwedOnCancel(alloc))
  <2>1. OwedOnCancel(alloc) \in Nat
    BY Rows, PaymentAssumption DEF OwedOnCancel, Allocs
  <2>2. "compensation" \in Keys /\ payment.status \in Paid
    BY <1>3 DEF Keys, Paid
  <2>3. QED
    BY <1>1, <1>3, <2>1, <2>2, Rows, RefundBooks
<1>4. QED
  BY <1>2, <1>3 DEF CompensationSettled

LEMMA SupportStep == ASSUME Inv, ExpireRejectionSupport PROVE Inv'
<1>1. PICK n : n = Payable - ReservedTotal
  OBVIOUS
<1>2. /\ order.status = "pending_support" /\ payment.status \in Paid /\ ~Requested("rejection")
      /\ n > 0 /\ refund' = NewRefund(alloc, "rejection", n)
      /\ UNCHANGED <<order, payment, alloc, coupon, task, notice, expired, trade, call>>
  BY <1>1 DEF ExpireRejectionSupport, Paid
<1>3. alloc.status = "consumed"
  BY <1>2, Standing DEF Served
<1>4. ReservedTotal \in Nat /\ ReservedTotal <= Payable
  BY <1>3, Reserved DEF Inv, Books, Covered
<1>5. n \in Nat
  BY <1>1, <1>4, PaymentAssumption
<1>6. Refundable(alloc, n)
  BY <1>1, <1>2, <1>3, <1>5 DEF Refundable
<1>7. "rejection" \in Keys
  BY DEF Keys
<1>8. QED
  BY <1>2, <1>5, <1>6, <1>7, Rows, RefundBooks

LEMMA PolicyStep == ASSUME Inv, PolicyCancel PROVE Inv'
<1>1. /\ order.status \in Served /\ payment.status = "paid" /\ \A k \in Keys : ~Requested(k)
      /\ UNCHANGED <<payment, alloc, coupon, task, notice, expired, trade, call>>
  BY DEF PolicyCancel, Served
<1>2. PICK r \in 0..Payable :
        /\ order' = [order EXCEPT !.status = "cancelled", !.decision = r]
        /\ refund' = IF r > 0 THEN NewRefund(alloc, "policy", r) ELSE refund
  <2>1. Payable \in 0..Payable
    BY PaymentAssumption
  <2>2. (IF order.status = "departed" THEN 0..Payable ELSE {Payable}) \subseteq 0..Payable
    BY <2>1
  <2>3. QED
    BY <2>2, Zenon DEF PolicyCancel
<1>3. order' \in Orders /\ order'.status = "cancelled"
  BY <1>2, Rows DEF Orders, OrderStatuses
<1>4. order.paid => order'.paid
  BY <1>2, Rows, Zenon DEF Orders
<1>5. payment.status \in Paid /\ alloc.status = "consumed"
  BY <1>1, Standing
<1>6. CASE r > 0
  <2>1. ReservedTotal = 0
    BY <1>1, NothingReserved DEF Inv, Books
  <2>2. r \in Nat /\ r <= Payable
    BY PaymentAssumption
  <2>3. Refundable(alloc, r)
    BY <1>5, <1>6, <2>1, <2>2, PaymentAssumption DEF Refundable
  <2>4. "policy" \in Keys
    BY DEF Keys
  <2>5. QED
    BY <1>1, <1>2, <1>3, <1>5, <1>6, <2>2, <2>3, <2>4, Rows, RefundBooks
<1>7. CASE ~(r > 0)
  BY <1>1, <1>2, <1>3, <1>4, <1>5, <1>7, Rows, OrderMoves DEF Served
<1>8. QED
  BY <1>6, <1>7

\* A refund succeeds: its amounts stay, the payment is refunded in part or in full.
LEMMA CompleteStep == ASSUME Inv, NEW k \in Keys, CompleteRefund(k) PROVE Inv'
<1>1. /\ refund[k].status = "pending" /\ refund' = [refund EXCEPT ![k].status = "succeeded"]
      /\ UNCHANGED <<alloc, task, notice, expired, trade, call>>
  BY DEF CompleteRefund
<1>2. PICK full \in BOOLEAN :
        /\ payment' = [payment EXCEPT !.status = IF full THEN "refunded" ELSE "partially_refunded"]
        /\ order' = [order EXCEPT !.status = IF order.decision # NoDecision THEN "cancelled"
                                             ELSE IF full THEN "refunded" ELSE @]
        /\ coupon' = IF full THEN ReleasedCoupon(TRUE) ELSE coupon
  BY DEF CompleteRefund
<1>3. payment.status \in Paid /\ Requested(k)
  BY <1>1, Standing DEF Requested
<1>4. /\ payment' \in Payments /\ payment'.status \in Paid /\ payment'.sent = payment.sent
      /\ ~full => payment'.status = "partially_refunded"
  BY <1>2, Rows DEF Payments, Paid
<1>5. /\ order' \in Orders /\ order'.status \in {order.status} \cup Over
      /\ order'.status \in Served => ~full /\ order'.status = order.status
  BY <1>2, Rows DEF Orders, OrderStatuses, Over, Served
<1>6. order'.paid = order.paid
  BY <1>2, Rows, Zenon DEF Orders
<1>7. coupon' \in {"reserved", "used", "available"}
  BY <1>2, Rows DEF ReleasedCoupon
<1>8. /\ refund' \in [Keys -> Refund]
      /\ \A j \in Keys : /\ refund'[j].wallet = refund[j].wallet
                         /\ refund'[j].external = refund[j].external
                         /\ refund'[j].status = "absent" <=> refund[j].status = "absent"
  <2>1. refund \in [Keys -> Refund]
    BY Rows
  <2>2. [refund[k] EXCEPT !.status = "succeeded"] \in Refund
    BY <2>1 DEF Refund
  <2>3. refund' = [refund EXCEPT ![k] = [refund[k] EXCEPT !.status = "succeeded"]]
    BY <1>1, <2>1
  <2>4. QED
    BY <1>1, <2>1, <2>2, <2>3 DEF Refund
<1>9. ReservedWallet' = ReservedWallet /\ ReservedExternal' = ReservedExternal
      /\ ReservedTotal' = ReservedTotal
  <2>1. [j \in Keys |-> refund'[j].wallet] = [j \in Keys |-> refund[j].wallet]
        /\ [j \in Keys |-> refund'[j].external] = [j \in Keys |-> refund[j].external]
    BY <1>8
  <2>2. QED
    BY <2>1 DEF ReservedWallet, ReservedExternal, ReservedTotal
<1>10. TypeOK'
  BY <1>1, <1>4, <1>5, <1>7, <1>8, Rows, TypesNext
<1>11. order.status # "pending_payment" /\ order'.status # "pending_payment"
  BY <1>3, <1>5, Standing DEF Over
<1>12. PaymentFits' /\ SharesFit' /\ OrderFits'
  BY <1>1, <1>3, <1>4, <1>11 DEF Inv, Books, PaymentFits, SharesFit, OrderFits, Paid
<1>13. RefundsFit'
  BY <1>4, <1>8 DEF Inv, Books, RefundsFit, Requested
<1>14. Covered(alloc)'
  BY <1>1, <1>9 DEF Inv, Books, Covered
<1>15. ServedIsPaid'
  <2>1. SUFFICES ASSUME order'.status \in Served PROVE ServedIsPaid'
    BY DEF ServedIsPaid
  <2>2. order.status \in Served /\ coupon' = coupon /\ payment'.status = "partially_refunded"
    BY <1>2, <1>4, <1>5, <2>1
  <2>3. QED
    BY <1>1, <1>6, <2>2, Zenon DEF Inv, Books, ServedIsPaid
<1>16. HeldIsWatched'
  BY <1>1, <1>3 DEF Inv, Books, HeldIsWatched, PaymentFits
<1>17. CallsKnow'
  BY <1>1, <1>4, <1>11, CallsGoOn
<1>18. QED
  BY <1>10, <1>12, <1>13, <1>14, <1>15, <1>16, <1>17 DEF Inv, Books

-----------------------------------------------------------------------------
(* Theorems *)

LEMMA NextInv == ASSUME Inv, [Next]_vars PROVE Inv'
<1>1. CASE UNCHANGED vars
  <2>1. UNCHANGED <<order, payment, alloc, coupon, refund, task, notice, expired, trade, call>>
    BY <1>1 DEF vars
  <2>2. QED
    BY <2>1, Rows, RowsStay
<1>2. ASSUME NEW c \in Calls, CallStep(c) PROVE Inv'
  BY <1>2, RegisterStep, ReplayStep, CreateStep, SaveStep, QueryStep, EndStep, ApplyStep, OtherStep,
     ExpireStep, CloseStep, ClosedStep DEF CallStep
<1>3. CASE Next
  BY <1>2, <1>3, StartStep, NoticeStep, EndStep, GatewayStep, ExpiresStep, CompensationStep,
     CustomerCancelStep, ProviderStep, SupportStep, PolicyStep, CompleteStep DEF Next
<1>4. QED
  BY <1>1, <1>3

\* The inductive invariant holds in every behaviour: no interleaving of sessions, queries,
\* notifications, tasks, cancellations and refunds makes the books disagree.
THEOREM Safe == Spec => []Inv
<1>1. QED
  BY InitInv, NextInv, PTL DEF Spec

\* What was reserved for refunds never exceeds what each route collected: the wallet's rounded
\* share of at most the price is at most its part, and so is what is left to the gateway.
LEMMA CoveredRoutes == Inv => RefundsCovered
<1> SUFFICES ASSUME Inv PROVE RefundsCovered
  OBVIOUS
<1>1. PICK rw \in Nat, re \in Nat :
         rw = ReservedWallet /\ re = ReservedExternal /\ ReservedTotal = rw + re
  BY Reserved DEF Inv
<1>2. PICK w \in 0..Payable, x \in 0..Payable : w = alloc.wallet /\ x = alloc.external
  BY Rows DEF Allocs
<1>3. CASE \A k \in Keys : ~Requested(k)
  <2>1. rw = 0 /\ re = 0
    BY <1>1, <1>3, NothingReserved DEF Inv, Books
  <2>2. 0 <= w /\ 0 <= x
    BY PaymentAssumption
  <2>3. QED
    BY <1>1, <1>2, <2>1, <2>2 DEF RefundsCovered
<1>4. CASE \E k \in Keys : Requested(k)
  <2>1. payment.status \in Paid
    BY <1>4, Standing
  <2>2. alloc.status \in {"consumed", "released"} /\ (x > 0 => trade.status = "S") /\ w + x = Payable
    BY <1>2, <2>1 DEF Inv, Books, PaymentFits, SharesFit
  <2>3. re <= x /\ (alloc.status = "consumed" => rw <= w) /\ (alloc.status = "released" => rw = 0)
    <3>1. CASE alloc.status = "released"
      BY <1>1, <1>2, <3>1 DEF Inv, Books, Covered
    <3>2. CASE alloc.status = "consumed"
      <4>1. PICK t \in Nat : t = rw + re
        OBVIOUS
      <4>2. t <= Payable /\ rw = Portion(t, w)
        BY <1>1, <1>2, <3>2, <4>1 DEF Inv, Books, Covered
      <4>3. t = 0 + t
        BY <4>1
      <4>4. Portion(t, w) \in Nat /\ Portion(t, w) <= w /\ t - Portion(t, w) <= Payable - w
        BY <4>2, <4>3, Rounding
      <4>5. PICK p \in Nat : p = Payable
        BY PaymentAssumption
      <4>6. rw <= w /\ re <= x
        BY <2>2, <4>1, <4>2, <4>4, <4>5
      <4>7. QED
        BY <3>2, <4>6
    <3>3. QED
      BY <2>2, <3>1, <3>2
  <2>4. trade.status # "S" => re = 0
    <3>1. ASSUME trade.status # "S" PROVE re = 0
      <4>1. x = 0
        BY <2>2, <3>1
      <4>2. QED
        BY <2>3, <4>1
    <3>2. QED
      BY <3>1
  <2>5. QED
    BY <1>1, <1>2, <2>2, <2>3, <2>4 DEF RefundsCovered
<1>5. QED
  BY <1>3, <1>4

\* In every behaviour the provider serves only a paid order, refunds stay within what each route
\* collected, frozen money is watched, and a closed payment holds nothing back.
THEOREM MoneyIsAccounted == Spec => []PaymentsAccounted
<1>1. Inv => ClosedIsOver
  <2>1. SUFFICES ASSUME Inv, payment.status = "closed"
                 PROVE  /\ order.status = "cancelled" /\ alloc.status \in {"none", "released"}
                        /\ coupon = "available"
    BY DEF ClosedIsOver
  <2>2. alloc.status = "released" /\ payment.status \notin Paid
    BY <2>1 DEF Inv, Books, PaymentFits, Paid
  <2>3. order.status \in Over
    BY <2>1, <2>2, Standing
  <2>4. QED
    BY <2>1, <2>2, <2>3 DEF Inv, Books, OrderFits
<1>2. Inv => PaymentsAccounted
  BY <1>1, CoveredRoutes DEF Inv, Books, PaymentsAccounted
<1>3. QED
  BY <1>2, Safe, PTL

\* A recorded payment stays recorded, an order that is over stays over, and a payment is taken
\* back from closed only together with the refund it is owed.
LEMMA Forward == ASSUME Inv, Next PROVE SettledForward
<1>1. CASE UNCHANGED <<order, payment>>
  BY <1>1 DEF SettledForward
<1>2. CASE order' = order /\ payment'.status = payment.status
  BY <1>2 DEF SettledForward
<1>3. ASSUME NEW c \in Calls, RegisterRequest(c) PROVE SettledForward
  <2>1. order.status = "pending_payment" /\ payment.status \in {"absent", "pending_payment"}
    BY <1>3 DEF RegisterRequest
  <2>2. QED
    BY <2>1 DEF SettledForward, Paid
<1>4. ASSUME NEW c \in Calls, SaveSession(c) PROVE SettledForward
  BY <1>2, <1>4, Rows DEF SaveSession, Payments
<1>5. ASSUME NEW c \in Calls, ApplySuccess(c) PROVE SettledForward
  <2>1. CASE RecordCancelled
    <3>1. /\ order'.status \in {"cancelled", "refunded"}
      BY <2>1, Rows DEF RecordCancelled, Orders
    <3>2. payment'.status = "paid"
      BY <2>1, Rows DEF RecordCancelled, Payments
    <3>3. Requested("compensation")'
      <4>1. CASE Requested("compensation")
        BY <2>1, <4>1 DEF RecordCancelled, Requested
      <4>2. CASE ~Requested("compensation")
        <5>1. refund' = NewRefund(ReleasedAlloc, "compensation", OwedOnCancel(ReleasedAlloc))
          BY <2>1, <4>2 DEF RecordCancelled
        <5>2. refund'["compensation"].status = "pending"
          BY <5>1, Rows DEF NewRefund, Keys
        <5>3. QED
          BY <5>2 DEF Requested
      <4>3. QED
        BY <4>1, <4>2
    <3>4. QED
      BY <3>1, <3>2, <3>3 DEF SettledForward, Requested, Paid
  <2>2. CASE Credit(alloc)
    BY <2>2, Standing DEF Credit, SettledForward
  <2>3. CASE RecordNothing \/ CreditNothing
    BY <1>1, <2>3 DEF RecordNothing, CreditNothing
  <2>4. QED
    BY <1>5, <2>1, <2>2, <2>3 DEF ApplySuccess
<1>6. ASSUME ClosePayment, order'.status \in {"cancelled", "refunded"} \/ order' = order
      PROVE  SettledForward
  <2>1. \/ payment' = payment
        \/ payment.status = "pending_payment" /\ payment'.status = "closed"
    BY <1>6, Rows DEF ClosePayment, Payments
  <2>2. QED
    BY <1>6, <2>1 DEF SettledForward, Paid
<1>7. ASSUME NEW c \in Calls, ExpireProviderOrderPayment(c) PROVE SettledForward
  <2>1. CASE order.status = "pending_payment"
    BY <1>6, <1>7, <2>1, Rows DEF ExpireProviderOrderPayment, Orders
  <2>2. CASE order.status # "pending_payment"
    BY <1>1, <1>7, <2>2 DEF ExpireProviderOrderPayment
  <2>3. QED
    BY <2>1, <2>2
<1>8. ASSUME NEW c \in Calls, MarkCancelledPaymentClosed(c) PROVE SettledForward
  BY <1>6, <1>8 DEF MarkCancelledPaymentClosed
<1>9. CASE CustomerCancel
  <2>1. order'.status = "cancelled"
    BY <1>9, Rows DEF CustomerCancel, Orders
  <2>2. QED
    BY <1>6, <1>9, <2>1 DEF CustomerCancel, SettledForward
<1>10. CASE ProviderRejects \/ ProviderDeparts
  BY <1>10 DEF ProviderRejects, ProviderDeparts, SettledForward
<1>11. CASE PolicyCancel
  BY <1>11 DEF PolicyCancel, SettledForward
<1>12. ASSUME NEW k \in Keys, CompleteRefund(k) PROVE SettledForward
  <2>1. payment'.status \in Paid
    BY <1>12, Rows DEF CompleteRefund, Payments, Paid
  <2>2. payment.status \in Paid
    BY <1>12, Standing DEF CompleteRefund, Requested
  <2>3. order.status \in {"cancelled", "refunded"} => order'.status \in {"cancelled", "refunded"}
    BY <1>12, Rows DEF CompleteRefund, Orders
  <2>4. QED
    BY <2>1, <2>2, <2>3 DEF SettledForward, Paid
<1>13. ASSUME NEW c \in Calls, CallStep(c) PROVE SettledForward
  BY <1>1, <1>3, <1>4, <1>5, <1>7, <1>8, <1>13
     DEF CallStep, ReplaySession, CreateTrade, QueryTrade, QueryUnknown, ApplyOther, Acknowledge,
         CloseTrade, local
<1>14. QED
  BY <1>1, <1>9, <1>10, <1>11, <1>12, <1>13
     DEF Next, BeginSession, Confirm, ExpiryTask, CompensationTask, ReceiveNotice, Abandon,
         CustomerPays, TradeFails, Expires, CompensationSettled, ExpireRejectionSupport, local

\* Money truth only moves forward, in every behaviour.
THEOREM TruthMovesForward == Spec => SettledStands
<1>1. Inv /\ [Next]_vars => [SettledForward]_vars
  BY Forward
<1>2. QED
  BY <1>1, Safe, PTL DEF Spec, SettledStands
=============================================================================
