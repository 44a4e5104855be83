--------------------------- MODULE ActivityPayment ---------------------------
(***************************************************************************)
(* Paying for an activity through the Huifu gateway (activities/huifu.py,  *)
(* activities/services.py): the organizer's publish fee and a              *)
(* participant's share go through the same code with the same rules.       *)
(*                                                                         *)
(* A user has one seat and may hold several payment orders for it, one     *)
(* after the other: an order that expired is closed, its trade may still   *)
(* be paid, and the user may already be paying the next one.  Queries and  *)
(* the expiry task always ask about the newest order, compensation and     *)
(* notifications about their own.                                          *)
(***************************************************************************)
EXTENDS Integers, FiniteSets

CONSTANTS
  Kind,      \* payment_kind: "publish" or "participation"
  Calls,     \* requests, callbacks and task handlers in flight
  MaxOrders, \* how many payment orders the user creates
  Payable,   \* payable_amount of an order
  Shares     \* what the wallet may cover when the session is created

ActivityPaymentAssumption ==
  /\ Kind \in {"publish", "participation"}
  /\ MaxOrders \in Nat \ {0} /\ Payable \in Nat \ {0}
  /\ Shares \subseteq 0..Payable

Orders == 1..MaxOrders

VARIABLES
  seat,      \* the draft under publication, or the participation
  order,     \* publish and participation payment orders, oldest first
  pay,       \* activity_huifu_payment_order of each order: its preorder_status
  alloc,     \* the wallet's allocation for each order
  refund,    \* the refund record of each order
  comp,      \* the cancel-compensation task of each order
  notified,  \* the gateway's notification of the order has been processed
  trade,     \* each order's trade at the gateway
  call       \* what each call is doing

local == <<seat, order, pay, alloc, refund, comp, notified>>

vars == <<seat, order, pay, alloc, refund, comp, notified, trade, call>>

Paid == {"paid", "partially_refunded", "refunded"}

OrderStatuses == {"none", "pending", "closed"} \cup Paid

\* DRAFT or PENDING_PAYMENT, PENDING_REVIEW or ACTIVE, EXPIRED, CANCELLED
Seats == {"waiting", "active", "expired", "cancelled"}

Idle == [kind |-> "none", stage |-> "idle", on |-> 0, about |-> 0, answer |-> "none"]

NoAlloc == [status |-> "none", wallet |-> 0, external |-> 0]

NoRefund == [status |-> "absent", wallet |-> 0, external |-> 0]

TypeOK ==
  /\ seat \in Seats
  /\ order \in [Orders -> [status: OrderStatuses, expired: BOOLEAN]]
  /\ pay \in [Orders -> {"absent", "submitting", "ready"}]
  /\ alloc \in [Orders -> [status: {"none", "held", "consumed", "released"},
                           wallet: 0..Payable, external: 0..Payable]]
  /\ refund \in [Orders -> [status: {"absent", "pending", "succeeded"},
                            wallet: 0..Payable, external: 0..Payable]]
  /\ comp \in [Orders -> {"absent", "pending", "done"}]
  /\ notified \in [Orders -> BOOLEAN]
  /\ trade \in [Orders -> [status: {"none", "P", "S", "F"}, late: BOOLEAN]]
  /\ call \in [Calls -> {Idle} \cup
       [kind: {"session", "confirm", "expiry", "compensate", "notify"},
        stage: {"register", "create", "save", "query", "apply", "expire", "close", "closed", "ack"},
        on: 0..MaxOrders, about: 0..MaxOrders,
        answer: {"none", "P", "S", "F"}]]

Init ==
  /\ seat = "waiting"
  /\ order = [o \in Orders |-> [status |-> "none", expired |-> FALSE]]
  /\ pay = [o \in Orders |-> "absent"]
  /\ alloc = [o \in Orders |-> NoAlloc]
  /\ refund = [o \in Orders |-> NoRefund]
  /\ comp = [o \in Orders |-> "absent"]
  /\ notified = [o \in Orders |-> FALSE]
  /\ trade = [o \in Orders |-> [status |-> "none", late |-> FALSE]]
  /\ call = [c \in Calls |-> Idle]

Created == {o \in Orders : order[o].status # "none"}

\* _resolve_business_order: the newest order of the user for the activity
Newest == Cardinality(Created)

\* _gateway_payment_for_order
Sent(o) == pay[o] # "absent"

-----------------------------------------------------------------------------
(* Calls *)

At(c, stage) == call[c].stage = stage

Start(c, kind, stage, on, about) ==
  /\ call[c] = Idle
  /\ call' = [call EXCEPT ![c] = [Idle EXCEPT !.kind = kind, !.stage = stage,
                                              !.on = on, !.about = about]]

Goto(c, stage) == call' = [call EXCEPT ![c].stage = stage]

End(c) == call' = [call EXCEPT ![c] = Idle]

-----------------------------------------------------------------------------
(* Closing an order and creating the next one *)

\* _release_activity_wallet_payment
Released(a) == [a EXCEPT !.status = IF @ = "held" THEN "released" ELSE @]

\* _register_activity_cancel_compensation_if_needed
Followed(o) == IF Sent(o) THEN "pending" ELSE comp[o]

Closing(S) == {o \in S : order[o].status = "pending"}

\* _close_pending_payment_order, and the same lines for a publish order
CloseOrders(S) ==
  /\ order' = [o \in Orders |-> IF o \in Closing(S) THEN [order[o] EXCEPT !.status = "closed"]
                                ELSE order[o]]
  /\ alloc' = [o \in Orders |-> IF o \in Closing(S) THEN Released(alloc[o]) ELSE alloc[o]]
  /\ comp' = [o \in Orders |-> IF o \in Closing(S) THEN Followed(o) ELSE comp[o]]

\* get_or_create_publish_order asks for a draft, get_or_create_participation_order
\* for a participation that is not active.
MayOrder ==
  IF Kind = "publish" THEN seat = "waiting" ELSE seat # "active"

\* get_or_create_publish_order and get_or_create_participation_order: an order
\* that is still payable is returned, an expired one is closed first.
CreateOrder ==
  /\ MayOrder /\ Newest < MaxOrders
  /\ \A o \in Orders : order[o].status = "pending" => order[o].expired
  /\ seat' = "waiting"
  /\ order' = [o \in Orders |->
       IF o = Newest + 1 THEN [order[o] EXCEPT !.status = "pending"]
       ELSE IF order[o].status = "pending" THEN [order[o] EXCEPT !.status = "closed"] ELSE order[o]]
  /\ alloc' = [o \in Orders |-> IF o \in Closing(Orders) THEN Released(alloc[o]) ELSE alloc[o]]
  /\ comp' = [o \in Orders |-> IF o \in Closing(Orders) THEN Followed(o) ELSE comp[o]]
  /\ UNCHANGED <<pay, refund, notified, trade, call>>

-----------------------------------------------------------------------------
(* A successful trade, one transaction *)

\* The first lines of _apply_publish_payment_success and
\* _apply_participation_payment_success: paid after the deadline, or for an order
\* or a seat that is given up
Late(o) ==
  \/ order[o].status = "closed" \/ trade[o].late
  \/ Kind = "participation" /\ seat \in {"expired", "cancelled"}

\* Mutant: a late payment is recorded and its refund forgotten.
Outcome_NoRefund(o, a) ==
  IF Late(o) THEN [seat |-> seat, alloc |-> Released(a), refund |-> NoRefund]
  ELSE [seat |-> "active", alloc |-> [a EXCEPT !.status = "consumed"], refund |-> refund[o]]

\* A late payment is kept and refunded, all to the gateway, in the same
\* transaction; one in time takes the seat.
Outcome(o, a) ==
  IF Late(o)
  THEN [seat |-> seat, alloc |-> Released(a),
        refund |-> [status |-> "pending", wallet |-> 0, external |-> a.external]]
  ELSE [seat |-> "active", alloc |-> [a EXCEPT !.status = "consumed"], refund |-> refund[o]]

\* _apply_publish_payment_success; a payment in time whose wallet part is gone
\* raises.
RecordSuccess(o, a) ==
  IF order[o].status \in Paid
  THEN UNCHANGED <<order, alloc, refund, seat>>
  ELSE /\ Late(o) \/ a.status # "released"
       /\ order' = [order EXCEPT ![o].status = "paid"]
       /\ alloc' = [alloc EXCEPT ![o] = Outcome(o, a).alloc]
       /\ refund' = [refund EXCEPT ![o] = Outcome(o, a).refund]
       /\ seat' = Outcome(o, a).seat

-----------------------------------------------------------------------------
(* Payment sessions *)

\* The time is read before the order is locked.
BeginSession(c) ==
  /\ Newest > 0 /\ ~order[Newest].expired
  /\ Start(c, "session", "register", 0, 0)
  /\ UNCHANGED <<local, trade>>

\* prepare_wallet_payment
Prepared(o, w) ==
  IF alloc[o].status = "none"
  THEN [status |-> "held", wallet |-> w, external |-> Payable - w] ELSE alloc[o]

\* The first transaction: pay from the wallet alone, or register the request
\* before anything is sent.
RegisterRequest(c) ==
  LET o == Newest
  IN  /\ At(c, "register")
      /\ order[o].status = "pending" /\ ~Sent(o)
      /\ \E w \in Shares :
           LET a == Prepared(o, w)
           IN  IF a.external = 0
               THEN RecordSuccess(o, a) /\ End(c) /\ UNCHANGED pay
               ELSE /\ alloc' = [alloc EXCEPT ![o] = a]
                    /\ pay' = [pay EXCEPT ![o] = "submitting"]
                    /\ call' = [call EXCEPT ![c].stage = "create", ![c].about = o]
                    /\ UNCHANGED <<seat, order, refund>>
      /\ UNCHANGED <<comp, notified, trade>>

\* A request that exists is replayed or refused, or its trade is queried.
ReplaySession(c) ==
  LET o == Newest
  IN  /\ At(c, "register")
      /\ Sent(o) \/ order[o].status # "pending"
      /\ \/ End(c)
         \/ /\ Sent(o) /\ pay[o] # "ready" /\ order[o].status = "pending"
            /\ call' = [call EXCEPT ![c].kind = "confirm", ![c].stage = "query", ![c].about = o]
      /\ UNCHANGED <<local, trade>>

\* gateway.create_payment, outside the transaction; the answer may be lost.
CreateTrade(c) ==
  /\ At(c, "create")
  /\ \E s \in {"P", "F", "none"}, lost \in BOOLEAN :
       /\ trade' = [trade EXCEPT ![call[c].about].status = s]
       /\ call' = [call EXCEPT ![c].stage = "save",
                     ![c].answer = IF s = "P" /\ ~lost THEN "P" ELSE "none"]
  /\ UNCHANGED local

\* The second transaction; a request that cannot be invoked is queried.  FAILED
\* is not told apart from SUBMITTING: either way the next session asks first.
SaveSession(c) ==
  /\ At(c, "save")
  /\ pay' = [pay EXCEPT ![call[c].about] = IF call[c].answer = "P" THEN "ready" ELSE @]
  /\ \/ End(c)
     \/ call[c].answer # "P" /\ call' = [call EXCEPT ![c].kind = "confirm", ![c].stage = "query"]
  /\ UNCHANGED <<seat, order, alloc, refund, comp, notified, trade>>

-----------------------------------------------------------------------------
(* The gateway and the clock *)

UserPays(o) ==
  /\ trade[o].status = "P"
  /\ trade' = [trade EXCEPT ![o] = [status |-> "S", late |-> order[o].expired]]
  /\ UNCHANGED <<local, call>>

TradeFails(o) ==
  /\ trade[o].status = "P"
  /\ trade' = [trade EXCEPT ![o].status = "F"]
  /\ UNCHANGED <<local, call>>

Expires(o) ==
  /\ order[o].status # "none" /\ ~order[o].expired
  /\ \A p \in 1..(o - 1) : order[p].expired
  /\ order' = [order EXCEPT ![o].expired = TRUE]
  /\ UNCHANGED <<seat, pay, alloc, refund, comp, notified, trade, call>>

-----------------------------------------------------------------------------
(* Queries and what they lead to *)

\* confirm_activity_huifu_payment_status has something to ask the gateway.
Open(o) == order[o].status \in {"pending", "closed"} /\ Sent(o)

Confirm(c) ==
  /\ Newest > 0 /\ Open(Newest)
  /\ Start(c, "confirm", "query", 0, Newest)
  /\ UNCHANGED <<local, trade>>

\* _execute_activity_publish_payment_expiry and its twin: a payment under way is
\* confirmed first, and what is confirmed is the newest order.
ExpiryTask(c, o) ==
  /\ order[o].expired /\ order[o].status \in {"pending", "closed"}
  /\ ~(Sent(o) /\ order[Newest].status \in Paid)
  /\ Start(c, "expiry", IF Sent(o) /\ Open(Newest) THEN "query" ELSE "expire", o, Newest)
  /\ UNCHANGED <<local, trade>>

\* process_activity_huifu_cancel_compensation, up to the query
CompensationTask(c, o) ==
  /\ comp[o] = "pending" /\ order[o].status = "closed"
  /\ Start(c, "compensate", "query", o, o)
  /\ UNCHANGED <<local, trade>>

\* Its outcome when the late payment has been recorded: the refund exists.
CompensationSettled(o) ==
  /\ comp[o] = "pending" /\ order[o].status \in Paid
  /\ comp' = [comp EXCEPT ![o] = "done"]
  /\ UNCHANGED <<seat, order, pay, alloc, refund, notified, trade, call>>

\* process_activity_huifu_payment_notification, up to the query
ReceiveNotice(c, o) ==
  /\ trade[o].status \in {"S", "F"} /\ ~notified[o]
  /\ Start(c, "notify", "query", o, o)
  /\ UNCHANGED <<local, trade>>

\* _query_payment; a trade the gateway does not know makes it raise.
QueryTrade(c) ==
  LET t == trade[call[c].about]
  IN  /\ At(c, "query")
      /\ IF t.status = "none" THEN End(c)
         ELSE call' = [call EXCEPT ![c].stage = "apply", ![c].answer = t.status]
      /\ UNCHANGED <<local, trade>>

\* _apply_payment_success decides on the rows as they are now.
ApplySuccess(c) ==
  /\ At(c, "apply") /\ call[c].answer = "S"
  /\ RecordSuccess(call[c].about, alloc[call[c].about])
  /\ IF call[c].kind = "notify" THEN Goto(c, "ack") ELSE End(c)
  /\ UNCHANGED <<pay, comp, notified, trade>>

\* Any other answer: the expiry task closes the order even while its trade is
\* in progress, compensation asks the gateway to close a trade that is old enough.
ApplyOther(c) ==
  /\ At(c, "apply") /\ call[c].answer \in {"P", "F"}
  /\ CASE call[c].kind = "notify" -> Goto(c, "ack")
       [] call[c].kind = "expiry" -> Goto(c, "expire")
       [] call[c].kind = "compensate" /\ call[c].answer = "F" -> Goto(c, "closed")
       [] call[c].kind = "compensate" /\ call[c].answer = "P" -> End(c) \/ Goto(c, "close")
       [] OTHER -> End(c)
  /\ UNCHANGED <<local, trade>>

\* The last update of a notification
Acknowledge(c) ==
  /\ At(c, "ack")
  /\ notified' = [notified EXCEPT ![call[c].about] = TRUE]
  /\ End(c)
  /\ UNCHANGED <<seat, order, pay, alloc, refund, comp, trade>>

\* expire_activity_publish_payment and expire_activity_participation_payment
ExpirePayment(c) ==
  LET o == call[c].on
  IN  /\ At(c, "expire")
      /\ CloseOrders({o})
      /\ seat' = IF Kind = "participation" /\ order[o].status = "pending" /\ seat = "waiting"
                 THEN "expired" ELSE seat
      /\ End(c)
      /\ UNCHANGED <<pay, refund, notified, trade>>

\* close_payment, or query_close when a close is under way
CloseTrade(c) ==
  LET o == call[c].about
  IN  /\ At(c, "close")
      /\ \/ trade[o].status = "P" /\ trade' = [trade EXCEPT ![o].status = "F"] /\ Goto(c, "closed")
         \/ trade[o].status = "F" /\ Goto(c, "closed") /\ UNCHANGED trade
         \/ End(c) /\ UNCHANGED trade
      /\ UNCHANGED local

\* _execute_activity_cancel_compensation: "closed" ends the task.
CompensationClosed(c) ==
  /\ At(c, "closed")
  /\ comp' = [comp EXCEPT ![call[c].on] = "done"]
  /\ End(c)
  /\ UNCHANGED <<seat, order, pay, alloc, refund, notified, trade>>

\* A request times out, an answer does not arrive, a worker is killed.
Abandon(c) ==
  /\ call[c] # Idle
  /\ End(c)
  /\ UNCHANGED <<local, trade>>

-----------------------------------------------------------------------------
(* Giving up the seat, and refunds *)

\* _activity_refund_route for the first refund of an order that was in time
Route(a, amount) ==
  LET wallet == IF amount >= Payable THEN a.wallet ELSE (amount * a.wallet) \div Payable
  IN  [status |-> IF amount = 0 THEN "succeeded" ELSE "pending",
       wallet |-> wallet, external |-> amount - wallet]

\* _latest_refundable_payment_order
Refundable(o) == order[o].status = "paid" /\ alloc[o].status = "consumed"

\* cancel_activity_participation of an active seat, the refunds of
\* refund_all_activity_participations, and refund_publish_order after a rejected
\* review or a cancellation: what is retained depends on the policy.
GiveUp ==
  /\ seat = "active"
  /\ \E o \in Orders, amount \in 0..Payable :
       /\ Refundable(o)
       /\ refund' = [refund EXCEPT ![o] = Route(alloc[o], amount)]
  /\ seat' = "cancelled"
  /\ UNCHANGED <<order, pay, alloc, comp, notified, trade, call>>

\* cancel_activity_participation before the payment
CancelPending ==
  /\ Kind = "participation" /\ seat = "waiting" /\ Newest > 0
  /\ CloseOrders(Orders)
  /\ seat' = "cancelled"
  /\ UNCHANGED <<pay, refund, notified, trade, call>>

\* complete_activity_publish_refund: REFUNDED when everything collected is back
FullyReturned(o) ==
  \/ refund[o].wallet + refund[o].external >= Payable
  \/ refund[o].external >= alloc[o].external /\ alloc[o].status = "released"

\* complete_activity_participation_refund
CompleteRefund(o) ==
  /\ refund[o].status = "pending"
  /\ refund' = [refund EXCEPT ![o].status = "succeeded"]
  /\ order' = [order EXCEPT ![o].status =
                 IF FullyReturned(o) THEN "refunded" ELSE "partially_refunded"]
  /\ UNCHANGED <<seat, pay, alloc, comp, notified, trade, call>>

-----------------------------------------------------------------------------

CallStep(c) ==
  \/ RegisterRequest(c) \/ ReplaySession(c) \/ CreateTrade(c) \/ SaveSession(c)
  \/ QueryTrade(c) \/ ApplySuccess(c) \/ ApplyOther(c) \/ Acknowledge(c)
  \/ ExpirePayment(c) \/ CloseTrade(c) \/ CompensationClosed(c)

Next ==
  \/ \E c \in Calls :
       \/ BeginSession(c) \/ Confirm(c) \/ CallStep(c) \/ Abandon(c)
       \/ \E o \in Orders : ExpiryTask(c, o) \/ CompensationTask(c, o) \/ ReceiveNotice(c, o)
  \/ \E o \in Orders :
       UserPays(o) \/ TradeFails(o) \/ Expires(o) \/ CompensationSettled(o) \/ CompleteRefund(o)
  \/ CreateOrder \/ GiveUp \/ CancelPending

Spec == Init /\ [][Next]_vars

CutOff(c) == Abandon(c) /\ ~CallStep(c)

\* As for provider orders: notifications and tasks are repeated, a trade does
\* not stay in progress for ever, and calls are eventually no longer cut off.
Fairness ==
  /\ \A o \in Orders :
       /\ WF_vars(UserPays(o) \/ TradeFails(o))
       /\ WF_vars(CompensationSettled(o))
       /\ SF_vars(\E c \in Calls : CompensationTask(c, o))
       /\ SF_vars(\E c \in Calls : ReceiveNotice(c, o))
  /\ \A c \in Calls : WF_vars(CallStep(c))
  /\ <>[][\A c \in Calls : ~CutOff(c)]_vars

LiveSpec == Spec /\ Fairness

-----------------------------------------------------------------------------
(* Properties *)

Charged(o) == alloc[o].external > 0 => trade[o].status = "S"

\* A seat is taken by exactly one order, and that one is paid: its wallet part
\* consumed, its trade successful, in time and not refunded, however many other
\* orders of the user were paid late or twice.
SeatPaidOnce ==
  seat = "active" =>
    \E o \in Orders :
      /\ order[o].status = "paid" /\ alloc[o].status = "consumed" /\ Charged(o)
      /\ ~trade[o].late /\ refund[o] = NoRefund
      /\ \A p \in Orders \ {o} : alloc[p].status # "consumed" \/ refund[p].status # "absent"

\* Every recorded payment either took the seat or goes back whole: the wallet's
\* part is free and the gateway's part has a refund of exactly what it collected.
PaidServesOrReturns ==
  \A o \in Orders : order[o].status \in Paid =>
    \/ alloc[o].status = "consumed" /\ ~trade[o].late
    \/ /\ alloc[o].status = "released"
       /\ refund[o].wallet = 0 /\ refund[o].external = alloc[o].external
       /\ refund[o].status # "absent"

\* Refunds never exceed what each route collected for their own order.
RefundsCovered ==
  \A o \in Orders :
    /\ refund[o].wallet <= (IF alloc[o].status = "consumed" THEN alloc[o].wallet ELSE 0)
    /\ refund[o].external <= (IF trade[o].status = "S" THEN alloc[o].external ELSE 0)

\* Wallet money is frozen only for the order that can still be paid.
HeldOnlyForOpen ==
  \A o \in Orders : alloc[o].status = "held" => order[o].status = "pending" /\ o = Newest

\* A closed order whose trade could still charge the user has its task.
ClosedIsFollowed ==
  \A o \in Orders :
    (order[o].status = "closed" /\ trade[o].status \in {"P", "S"}) => comp[o] = "pending"

\* A recorded payment is never forgotten, and a closed order comes back only
\* together with the refund it is owed.
SettledForward ==
  \A o \in Orders :
    /\ order[o].status \in Paid => order'[o].status \in Paid
    /\ (order[o].status = "closed" /\ order'[o].status # "closed") =>
         refund'[o].status # "absent"

\* Whatever the user paid at the gateway is recorded on its own order, even
\* when that order is closed and a newer one exists.
ChargeRecorded ==
  \A o \in Orders : trade[o].status = "S" ~> order[o].status \in Paid
=============================================================================
