--------------------------- MODULE ProviderPayment ---------------------------
(***************************************************************************)
(* Paying for one provider order through the Huifu gateway                 *)
(* (orders/services.py, orders/payment_recovery.py): payment sessions,     *)
(* status queries, notifications, the expiry task, the customer's          *)
(* cancellation with its compensation task, and the refunds a cancelled    *)
(* order is owed.                                                          *)
(*                                                                         *)
(* A call into the gateway is made outside all transactions.  A call that  *)
(* has read the local rows, or holds an answer of the gateway, is a record *)
(* in `call'; between two of its steps anything else may commit.           *)
(* Raising an exception ends the call and rolls its transaction back.      *)
(***************************************************************************)
EXTENDS Integers

CONSTANTS
  Calls,     \* requests, callbacks and task handlers in flight
  Payable,   \* payable_amount
  Shares,    \* what the wallet may cover when the session is created
  Notices    \* notify_type: the gateway reports one trade several times

ASSUME PaymentAssumption ==
  /\ Payable \in Nat \ {0}
  /\ Shares \subseteq 0..Payable

VARIABLES
  order,     \* provider_order: status, paid_at, the policy's cancellation_record
  expired,   \* payment_expires_at has passed
  payment,   \* provider_order_payment_order: status, req_seq_id, preorder_status
  alloc,     \* the wallet's allocation for the order
  coupon,    \* the coupon reserved for the order
  refund,    \* provider_order_refund_order, by idempotency key
  task,      \* the cancel-compensation task
  notice,    \* huifu_payment_notification, by notify_type
  trade,     \* the trade at the gateway
  call       \* what each call is doing

local == <<order, payment, alloc, coupon, refund, task, notice>>

vars == <<order, expired, payment, alloc, coupon, refund, task, notice, trade, call>>

Paid == {"paid", "partially_refunded", "refunded"}

Served == {"pending_acceptance", "departed", "pending_support"}

OrderStatuses == Served \cup {"pending_payment", "cancelled", "refunded"}

NoDecision == -1

Keys == {"compensation", "rejection", "policy"}

Kinds == {"session", "recover", "confirm", "expiry", "compensate", "notify"}

Stages == {"register", "create", "save", "query", "apply", "expire", "close", "closed", "ack"}

Idle == [kind |-> "none", stage |-> "idle", seen |-> "none", answer |-> "none",
         late |-> FALSE, about |-> "none"]

TypeOK ==
  /\ order \in [status: OrderStatuses, paid: BOOLEAN, decision: {NoDecision} \cup 0..Payable]
  /\ expired \in BOOLEAN
  /\ payment \in [status: {"absent", "pending_payment", "closed"} \cup Paid, sent: BOOLEAN,
                  preorder: {"not_started", "submitting", "ready", "failed"}]
  /\ alloc \in [status: {"none", "held", "consumed", "released"},
                wallet: 0..Payable, external: 0..Payable]
  /\ coupon \in {"reserved", "used", "available"}
  /\ refund \in [Keys -> [status: {"absent", "pending", "succeeded"},
                          wallet: 0..Payable, external: 0..Payable]]
  /\ task \in {"absent", "pending", "done"}
  /\ notice \in [Notices -> {"unsent", "received", "processed"}]
  /\ trade \in [status: {"none", "P", "S", "F"}, late: BOOLEAN]
  /\ call \in [Calls -> {Idle} \cup
       [kind: Kinds, stage: Stages, seen: OrderStatuses \cup {"none"},
        answer: {"none", "P", "S", "F", "error"}, late: BOOLEAN, about: Notices \cup {"none"}]]

Init ==
  /\ order = [status |-> "pending_payment", paid |-> FALSE, decision |-> NoDecision]
  /\ expired = FALSE
  /\ payment = [status |-> "absent", sent |-> FALSE, preorder |-> "not_started"]
  /\ alloc = [status |-> "none", wallet |-> 0, external |-> 0]
  /\ coupon = "reserved"
  /\ refund = [k \in Keys |-> [status |-> "absent", wallet |-> 0, external |-> 0]]
  /\ task = "absent"
  /\ notice = [n \in Notices |-> "unsent"]
  /\ trade = [status |-> "none", late |-> FALSE]
  /\ call = [c \in Calls |-> Idle]

-----------------------------------------------------------------------------
(* Calls *)

At(c, stage) == call[c].stage = stage

StartAbout(c, kind, stage, n) ==
  /\ call[c] = Idle
  /\ call' = [call EXCEPT ![c] = [kind |-> kind, stage |-> stage, seen |-> order.status,
                                  answer |-> "none", late |-> FALSE, about |-> n]]

Start(c, kind, stage) == StartAbout(c, kind, stage, "none")

Goto(c, stage) == call' = [call EXCEPT ![c].stage = stage]

End(c) == call' = [call EXCEPT ![c] = Idle]

-----------------------------------------------------------------------------
(* What the wallet, the coupon and the refunds contribute.                 *)

\* release_wallet_payment; after a refund the allocation keeps `released' or
\* `consumed' here, since wallet_released is what callers ask for.
ReleasedAlloc == [alloc EXCEPT !.status = IF @ = "held" THEN "released" ELSE @]

\* release_coupon: a used coupon only when the order has been refunded
ReleasedCoupon(refunded) ==
  IF coupon = "reserved" \/ (refunded /\ coupon = "used") THEN "available" ELSE coupon

Amount(r) == r.wallet + r.external

\* A sum over the refunds of all keys.
Together(f) == f["compensation"] + f["rejection"] + f["policy"]

\* Refunds that exist, failed ones included, keep their amount reserved.
ReservedWallet == Together([k \in Keys |-> refund[k].wallet])

ReservedExternal == Together([k \in Keys |-> refund[k].external])

ReservedTotal == ReservedWallet + ReservedExternal

Most(a, b) == IF a >= b THEN a ELSE b

\* provider_refund_payment_routes: the wallet's part of a refund, in
\* proportion to its part of the payment and rounded down, except at the end
WalletRoute(a, amount) ==
  LET cumulative == ReservedTotal + amount
      target == IF cumulative >= Payable THEN a.wallet
                ELSE (cumulative * a.wallet) \div Payable
  IN  IF a.status = "released" THEN 0 ELSE Most(target - ReservedWallet, 0)

\* create_provider_order_refund: what a new refund must not exceed
Refundable(a, amount) ==
  /\ amount > 0
  /\ amount <= Payable - ReservedTotal
  /\ a.status = "released" => ReservedExternal + amount <= a.external

NewRefund(a, k, amount) ==
  [refund EXCEPT ![k] = [status |-> "pending", wallet |-> WalletRoute(a, amount),
                         external |-> amount - WalletRoute(a, amount)]]

Requested(k) == refund[k].status # "absent"

-----------------------------------------------------------------------------
(* Outcomes of a payment, one transaction each.                            *)

\* apply_provider_order_payment_success, the branch that credits the payment.
\* Its branch for a payment after the deadline is never reached: a late trade
\* goes to RecordCancelled, and a session checks the deadline itself.
Credit(a) ==
  /\ order.status = "pending_payment"
  /\ order' = [order EXCEPT !.status = "pending_acceptance", !.paid = TRUE]
  /\ payment' = [payment EXCEPT !.status = "paid"]
  /\ alloc' = [a EXCEPT !.status = "consumed"]
  /\ coupon' = IF coupon = "reserved" THEN "used" ELSE coupon
  /\ UNCHANGED <<refund, task>>

\* The branches that change nothing: an order already paid, or a raise when
\* the order is no longer waiting for its payment.
CreditNothing ==
  /\ (payment.status \in Paid /\ order.paid) \/ order.status # "pending_payment"
  /\ UNCHANGED <<order, payment, alloc, coupon, refund, task>>

\* _apply_cancelled_huifu_payment_success: keep the payment and reserve a
\* refund of what was collected
OwedOnCancel(a) == IF a.status = "released" THEN a.external ELSE Payable

\* Mutant: the payment is kept and no refund is reserved.
RecordCancelled_NoRefund ==
  /\ order.status \in {"pending_payment", "cancelled", "refunded"}
  /\ payment.status # "refunded"
  /\ order' = [order EXCEPT !.status = IF @ = "pending_payment" THEN "cancelled" ELSE @,
                            !.paid = TRUE]
  /\ payment' = [payment EXCEPT !.status = "paid"]
  /\ alloc' = ReleasedAlloc
  /\ UNCHANGED <<refund, coupon, task>>

RecordCancelled ==
  LET a == ReleasedAlloc
  IN  /\ order.status \in {"pending_payment", "cancelled", "refunded"}
      /\ payment.status # "refunded"
      /\ IF Requested("compensation")
         THEN Amount(refund["compensation"]) = OwedOnCancel(a) /\ UNCHANGED refund
         ELSE /\ Refundable(a, OwedOnCancel(a))
              /\ refund' = NewRefund(a, "compensation", OwedOnCancel(a))
      /\ order' = [order EXCEPT !.status = IF @ = "pending_payment" THEN "cancelled" ELSE @,
                                !.paid = TRUE]
      /\ payment' = [payment EXCEPT !.status = "paid"]
      /\ alloc' = a
      /\ UNCHANGED <<coupon, task>>

\* The order was refunded already, the order went on, or the refund is
\* refused: in the last two cases an exception rolls everything back.
RecordNothing ==
  /\ \/ payment.status = "refunded"
     \/ order.status \in Served
     \/ IF Requested("compensation")
        THEN Amount(refund["compensation"]) # OwedOnCancel(ReleasedAlloc)
        ELSE ~Refundable(ReleasedAlloc, OwedOnCancel(ReleasedAlloc))
  /\ UNCHANGED <<order, payment, alloc, coupon, refund, task>>

\* Closing an unpaid payment: expire_provider_order_payment and
\* _mark_cancelled_payment_closed
ClosePayment ==
  IF payment.status = "pending_payment"
  THEN payment' = [payment EXCEPT !.status = "closed"] /\ alloc' = ReleasedAlloc
  ELSE UNCHANGED <<payment, alloc>>

-----------------------------------------------------------------------------
(* Payment sessions *)

\* The time is read before the order is locked.
BeginSession(c) ==
  /\ ~expired
  /\ Start(c, "session", "register")
  /\ UNCHANGED <<local, expired, trade>>

Prepared(w) ==
  IF alloc.status = "none"
  THEN [status |-> "held", wallet |-> w, external |-> Payable - w] ELSE alloc

\* The first transaction registers the request before anything is sent.
RegisterRequest(c) ==
  /\ At(c, "register")
  /\ order.status = "pending_payment" /\ payment.status \in {"absent", "pending_payment"}
  /\ ~payment.sent
  /\ \E w \in Shares :
       LET a == Prepared(w)
       IN  IF a.external = 0
           THEN Credit(a) /\ End(c)
           ELSE /\ alloc' = a
                /\ payment' = [status |-> "pending_payment", sent |-> TRUE,
                               preorder |-> "submitting"]
                /\ Goto(c, "create")
                /\ UNCHANGED <<order, coupon, refund, task>>
  /\ UNCHANGED <<expired, notice, trade>>

\* A request that exists is replayed, refused, or recovered by a query.
ReplaySession(c) ==
  /\ At(c, "register")
  /\ \/ payment.sent
     \/ order.status # "pending_payment"
     \/ payment.status \notin {"absent", "pending_payment"}
  /\ \/ End(c)
     \/ /\ payment.sent /\ payment.preorder # "ready"
        /\ order.status = "pending_payment" /\ payment.status = "pending_payment"
        /\ call' = [call EXCEPT ![c].kind = "recover", ![c].stage = "query"]
  /\ UNCHANGED <<local, expired, trade>>

\* gateway.create_payment, outside the transaction; the answer may be lost.
CreateTrade(c) ==
  /\ At(c, "create")
  /\ \E s \in {"P", "F", "none"}, lost \in BOOLEAN :
       /\ trade' = [trade EXCEPT !.status = s]
       /\ call' = [call EXCEPT ![c].stage = "save",
                     ![c].answer = IF s = "none" \/ lost THEN "error" ELSE s]
  /\ UNCHANGED <<local, expired>>

\* The second transaction.  A request that cannot be invoked is queried.
SaveSession(c) ==
  /\ At(c, "save")
  /\ payment' = [payment EXCEPT !.preorder =
                   IF @ # "submitting" THEN @
                   ELSE IF call[c].answer = "P" THEN "ready" ELSE "failed"]
  /\ \/ End(c)
     \/ /\ call[c].answer # "P"
        /\ call' = [call EXCEPT ![c].kind = "recover", ![c].stage = "query"]
  /\ UNCHANGED <<order, alloc, coupon, refund, task, notice, expired, trade>>

-----------------------------------------------------------------------------
(* The gateway and the clock *)

CustomerPays ==
  /\ trade.status = "P"
  /\ trade' = [status |-> "S", late |-> expired]
  /\ UNCHANGED <<local, expired, call>>

TradeFails ==
  /\ trade.status = "P"
  /\ trade' = [trade EXCEPT !.status = "F"]
  /\ UNCHANGED <<local, expired, call>>

Expires ==
  /\ ~expired
  /\ expired' = TRUE
  /\ UNCHANGED <<local, trade, call>>

-----------------------------------------------------------------------------
(* Queries and what they lead to *)

\* confirm_provider_order_huifu_payment_status, asked for by the customer
Confirm(c) ==
  /\ payment.status = "pending_payment" /\ order.status = "pending_payment" /\ payment.sent
  /\ Start(c, "confirm", "query")
  /\ UNCHANGED <<local, expired, trade>>

\* _execute_provider_order_payment_expiry: confirm first
ExpiryTask(c) ==
  /\ expired /\ order.status = "pending_payment"
  /\ Start(c, "expiry", IF payment.sent THEN "query" ELSE "expire")
  /\ UNCHANGED <<local, expired, trade>>

\* process_provider_order_cancel_compensation, up to the query
CompensationTask(c) ==
  /\ task = "pending"
  /\ order.status = "cancelled" /\ ~Requested("compensation")
  /\ payment.status = "pending_payment"
  /\ Start(c, "compensate", "query")
  /\ UNCHANGED <<local, expired, trade>>

\* The states of process_provider_order_cancel_compensation that need no query:
\* the refund exists, is created now, or nothing was collected.  An execution
\* whose query found a success ends here as well.
CompensationSettled ==
  /\ task = "pending"
  /\ \/ /\ order.status = "refunded" \/ Requested("compensation") \/ payment.status = "closed"
        /\ UNCHANGED refund
     \/ /\ order.status = "cancelled" /\ ~Requested("compensation")
        /\ payment.status \in {"paid", "partially_refunded"}
        /\ Refundable(alloc, OwedOnCancel(alloc))
        /\ refund' = NewRefund(alloc, "compensation", OwedOnCancel(alloc))
  /\ task' = "done"
  /\ UNCHANGED <<order, payment, alloc, coupon, notice, expired, trade, call>>


\* process_huifu_payment_notification, up to the query
ReceiveNotice(c, n) ==
  /\ trade.status \in {"S", "F"} /\ notice[n] # "processed"
  /\ StartAbout(c, "notify", "query", n)
  /\ notice' = [notice EXCEPT ![n] = "received"]
  /\ UNCHANGED <<order, payment, alloc, coupon, refund, task, expired, trade>>

\* _query_provider_order_huifu_payment.  Recovery reads the order only now.
QueryTrade(c) ==
  /\ At(c, "query") /\ trade.status # "none"
  /\ call' = [call EXCEPT ![c].stage = "apply", ![c].answer = trade.status,
                ![c].late = trade.late,
                ![c].seen = IF call[c].kind = "recover" THEN order.status ELSE @]
  /\ UNCHANGED <<local, expired, trade>>

\* The gateway does not know the trade: the query raises.
QueryUnknown(c) ==
  /\ At(c, "query") /\ trade.status = "none"
  /\ End(c)
  /\ UNCHANGED <<local, expired, trade>>

\* What a call does once a successful trade has been recorded or found so.
AfterSuccess(c) == IF call[c].kind = "notify" THEN Goto(c, "ack") ELSE End(c)

\* Mutant: the payment deadline is not compared with the time of the trade.
SeenCancelled_NoDeadline(c) == call[c].seen \in {"cancelled", "refunded"}

\* _apply_huifu_payment_query_success decides on the order as it was read.
SeenCancelled(c) ==
  \/ call[c].seen \in {"cancelled", "refunded"}
  \/ call[c].seen = "pending_payment" /\ call[c].late

ApplySuccess(c) ==
  /\ At(c, "apply") /\ call[c].answer = "S"
  /\ IF SeenCancelled(c)
     THEN \/ RecordCancelled /\ AfterSuccess(c)
          \/ RecordNothing /\ (IF payment.status = "refunded" THEN AfterSuccess(c) ELSE End(c))
     ELSE \/ ~(payment.status \in Paid /\ order.paid) /\ Credit(alloc) /\ AfterSuccess(c)
          \/ CreditNothing /\ (IF payment.status \in Paid THEN AfterSuccess(c) ELSE End(c))
  /\ UNCHANGED <<notice, expired, trade>>

\* An answer other than success, by who asked: the expiry task closes what
\* failed and keeps what is processing, compensation closes what failed and
\* asks the gateway to close what is processing once it is old enough.
ApplyOther(c) ==
  /\ At(c, "apply") /\ call[c].answer \in {"P", "F"}
  /\ CASE call[c].kind = "notify" -> Goto(c, "ack")
       [] call[c].kind = "expiry" /\ call[c].answer = "F" -> Goto(c, "expire")
       [] call[c].kind = "compensate" /\ call[c].answer = "F" -> Goto(c, "closed")
       [] call[c].kind = "compensate" /\ call[c].answer = "P" -> End(c) \/ Goto(c, "close")
       [] OTHER -> End(c)
  /\ UNCHANGED <<local, expired, trade>>

\* The last transaction of a notification
Acknowledge(c) ==
  /\ At(c, "ack")
  /\ notice' = [notice EXCEPT ![call[c].about] = "processed"]
  /\ End(c)
  /\ UNCHANGED <<order, payment, alloc, coupon, refund, task, expired, trade>>

\* expire_provider_order_payment
ExpireProviderOrderPayment(c) ==
  /\ At(c, "expire")
  /\ IF order.status = "pending_payment"
     THEN /\ order' = [order EXCEPT !.status = "cancelled"]
          /\ coupon' = ReleasedCoupon(FALSE)
          /\ ClosePayment
     ELSE UNCHANGED <<order, coupon, payment, alloc>>
  /\ End(c)
  /\ UNCHANGED <<refund, task, notice, expired, trade>>

\* gateway.close_payment, or query_close when a close is under way.  Only a
\* trade that is not paid can be closed; the answer may be "processing".
CloseTrade(c) ==
  /\ At(c, "close")
  /\ \/ trade.status = "P" /\ trade' = [trade EXCEPT !.status = "F"] /\ Goto(c, "closed")
     \/ trade.status = "F" /\ Goto(c, "closed") /\ UNCHANGED trade
     \/ End(c) /\ UNCHANGED trade
  /\ UNCHANGED <<local, expired>>

\* _mark_cancelled_payment_closed
MarkCancelledPaymentClosed(c) ==
  /\ At(c, "closed")
  /\ ClosePayment
  /\ task' = "done"
  /\ End(c)
  /\ UNCHANGED <<order, coupon, refund, notice, expired, trade>>

\* A request times out, an answer does not arrive, a worker is killed.
Abandon(c) ==
  /\ call[c] # Idle
  /\ End(c)
  /\ UNCHANGED <<local, expired, trade>>

-----------------------------------------------------------------------------
(* Decisions about the order, each under its lock *)

\* cancel_provider_order_with_compensation
CustomerCancel ==
  /\ order.status = "pending_payment"
  /\ order' = [order EXCEPT !.status = "cancelled"]
  /\ coupon' = ReleasedCoupon(FALSE)
  /\ IF payment.status = "pending_payment" /\ payment.sent
     THEN task' = "pending" /\ UNCHANGED <<payment, alloc>>
     ELSE ClosePayment /\ UNCHANGED task
  /\ UNCHANGED <<refund, notice, expired, trade, call>>

\* ProviderOrderRejectView and expire_provider_acceptance
ProviderRejects ==
  /\ order.status = "pending_acceptance"
  /\ order' = [order EXCEPT !.status = "pending_support"]
  /\ UNCHANGED <<payment, alloc, coupon, refund, task, notice, expired, trade, call>>

\* The provider accepts and departs.
ProviderDeparts ==
  /\ order.status = "pending_acceptance"
  /\ order' = [order EXCEPT !.status = "departed"]
  /\ UNCHANGED <<payment, alloc, coupon, refund, task, notice, expired, trade, call>>

\* expire_provider_rejection_support: refund what is left
ExpireRejectionSupport ==
  LET remaining == Payable - ReservedTotal
  IN  /\ order.status = "pending_support" /\ payment.status \in {"paid", "partially_refunded"}
      /\ ~Requested("rejection") /\ remaining > 0
      /\ refund' = NewRefund(alloc, "rejection", remaining)
      /\ UNCHANGED <<order, payment, alloc, coupon, task, notice, expired, trade, call>>

\* cancellations.cancel and expire_wait: before the departure everything is
\* refunded, afterwards the policy retains a part, up to everything.
PolicyCancel ==
  /\ order.status \in {"pending_acceptance", "departed"}
  /\ order.decision = NoDecision /\ payment.status = "paid"
  /\ \A k \in Keys : ~Requested(k)
  /\ \E r \in IF order.status = "departed" THEN 0..Payable ELSE {Payable} :
       /\ order' = [order EXCEPT !.status = "cancelled", !.decision = r]
       /\ refund' = IF r > 0 THEN NewRefund(alloc, "policy", r) ELSE refund
  /\ UNCHANGED <<payment, alloc, coupon, task, notice, expired, trade, call>>

\* _complete_provider_order_refund
CompleteRefund(k) ==
  /\ refund[k].status = "pending"
  /\ refund' = [refund EXCEPT ![k].status = "succeeded"]
  /\ LET Repaid(j, amount) == IF refund'[j].status = "succeeded" THEN amount ELSE 0
         external == Together([j \in Keys |-> Repaid(j, refund[j].external)])
         wallet   == Together([j \in Keys |-> Repaid(j, refund[j].wallet)])
         full     == \/ wallet + external >= Payable
                     \/ /\ external >= alloc.external
                        /\ alloc.status = "released" \/ wallet >= alloc.wallet
     IN  /\ payment' = [payment EXCEPT !.status =
                          IF full THEN "refunded" ELSE "partially_refunded"]
         /\ order' = [order EXCEPT !.status =
                        IF order.decision # NoDecision THEN "cancelled"
                        ELSE IF full THEN "refunded" ELSE @]
         /\ coupon' = IF full THEN ReleasedCoupon(TRUE) ELSE coupon
  /\ UNCHANGED <<alloc, task, notice, expired, trade, call>>

-----------------------------------------------------------------------------

CallStep(c) ==
  \/ RegisterRequest(c) \/ ReplaySession(c) \/ CreateTrade(c) \/ SaveSession(c)
  \/ QueryTrade(c) \/ QueryUnknown(c) \/ ApplySuccess(c) \/ ApplyOther(c) \/ Acknowledge(c)
  \/ ExpireProviderOrderPayment(c) \/ CloseTrade(c) \/ MarkCancelledPaymentClosed(c)

Next ==
  \/ \E c \in Calls :
       \/ BeginSession(c) \/ Confirm(c) \/ ExpiryTask(c) \/ CompensationTask(c)
       \/ \E n \in Notices : ReceiveNotice(c, n)
       \/ CallStep(c) \/ Abandon(c)
  \/ CustomerPays \/ TradeFails \/ Expires
  \/ CompensationSettled \/ CustomerCancel
  \/ ProviderRejects \/ ProviderDeparts \/ ExpireRejectionSupport \/ PolicyCancel
  \/ \E k \in Keys : CompleteRefund(k)

Spec == Init /\ [][Next]_vars

CutOff(c) == Abandon(c) /\ ~CallStep(c)

\* The gateway repeats a notification until it is acknowledged, the task centre
\* runs a task again until it is done, and a call that is not cut off goes on.
\* A trade has a time_expire, so it does not stay in progress.  From some point
\* on calls are not cut off any more: with requests lost for ever nothing could
\* be learned from the gateway.
Fairness ==
  /\ WF_vars(CustomerPays \/ TradeFails)
  /\ WF_vars(CompensationSettled)
  /\ SF_vars(\E c \in Calls : CompensationTask(c))
  /\ SF_vars(\E c \in Calls, n \in Notices : ReceiveNotice(c, n))
  /\ \A c \in Calls : WF_vars(CallStep(c))
  /\ <>[][\A c \in Calls : ~CutOff(c)]_vars

LiveSpec == Spec /\ Fairness

-----------------------------------------------------------------------------
(* Properties *)

\* The provider only ever works on an order that is paid: the wallet's part
\* consumed, the gateway's part charged in time and the coupon used, whichever
\* of session, query, notification and expiry came first.
ServedIsPaid ==
  order.status \in Served =>
    /\ order.paid /\ payment.status \in {"paid", "partially_refunded"}
    /\ alloc.status = "consumed"
    /\ alloc.external > 0 => trade.status = "S" /\ ~trade.late
    /\ coupon = "used"

\* Refunds of all origins together never exceed what each route collected.
RefundsCovered ==
  /\ ReservedWallet <= (IF alloc.status = "consumed" THEN alloc.wallet ELSE 0)
  /\ ReservedExternal <= (IF trade.status = "S" THEN alloc.external ELSE 0)

\* Frozen wallet money always has someone who will move it: the open order, or
\* the compensation task of the cancelled one.
HeldIsWatched ==
  alloc.status = "held" => order.status = "pending_payment" \/ task = "pending"

\* A closed payment holds nothing back: the order is cancelled, the wallet's
\* part released and the coupon free again.
ClosedIsOver ==
  payment.status = "closed" =>
    /\ order.status = "cancelled"
    /\ alloc.status \in {"none", "released"}
    /\ coupon = "available"

\* Money truth only moves forward: a recorded payment stays recorded, an order
\* that is over stays over, and a closed payment is taken back only together
\* with the refund it is owed.
SettledForward ==
  /\ payment.status \in Paid => payment'.status \in Paid
  /\ order.status \in {"cancelled", "refunded"} =>
       order'.status \in {"cancelled", "refunded"}
  /\ (payment.status = "closed" /\ payment'.status # "closed") =>
       refund'["compensation"].status # "absent"

\* What the payment of a provider order promises in every state, and of every step.
PaymentsAccounted ==
  TypeOK /\ ServedIsPaid /\ RefundsCovered /\ HeldIsWatched /\ ClosedIsOver

SettledStands == [][SettledForward]_vars

\* Whatever the customer paid at the gateway is recorded, even when the order
\* was cancelled or expired meanwhile.
Charged == trade.status = "S"
Recorded == payment.status \in Paid
ChargeRecorded == Charged ~> Recorded

\* The wallet money of a cancelled order is released once the gateway knows
\* its trade.
CancelledKnown == order.status = "cancelled" /\ trade.status # "none"
Released == alloc.status # "held"
CancelledReleases == CancelledKnown ~> Released

\* orders/cancellations.py: "retained money stays in a reconciliation hold".
RetainedStaysHeld == order.decision # NoDecision => ReservedTotal = order.decision
=============================================================================
