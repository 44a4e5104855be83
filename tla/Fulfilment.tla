----------------------------- MODULE Fulfilment -----------------------------
(***************************************************************************)
(* One paid provider order from its acceptance to the submission of its    *)
(* completion: the provider's operations (orders/views.py), the watchdogs  *)
(* of the task centre for an order nobody moves (orders/timeouts.py), the  *)
(* cancellation policy and the waiting for an absent customer              *)
(* (orders/cancellations.py), the review of timing anomalies               *)
(* (orders/fulfillment.py) and the adjudication of fulfilment disputes     *)
(* (orders/fulfillment_after_sales.py).                                    *)
(*                                                                         *)
(* Every operation is one transaction under the lock of the order row.     *)
(* The confirmation and what follows it is module Settlement.              *)
(***************************************************************************)
EXTENDS Integers, FiniteSets, FiniteSetsExt

CONSTANTS
  Cases,          \* after-sales cases of the order
  Service, Transport, Other,  \* the components of payable_amount, after the discount
  Transit,        \* transport_mode is bus or subway
  TransitEarly, TransitLate, NoShow, ArrivedPercent,  \* cancellation_policy
  Penalty,        \* no_departure_credit_penalty
  MaxScore,       \* highest credit score (100 in the code)
  Scores,         \* bound: scores the provider may have at first
  Interventions,  \* bound: what the support may add, among note and case
  Deltas          \* bound: credit adjustments the staff make

FulfilmentAssumption ==
  /\ {Service, Transport, Other, TransitEarly, TransitLate, NoShow, Penalty, MaxScore} \subseteq Nat
  /\ ArrivedPercent \in 0..100 /\ Transit \in BOOLEAN
  /\ TransitEarly <= TransitLate /\ Deltas \subseteq Int
  /\ Scores \subseteq 0..MaxScore /\ Interventions \subseteq {"note", "case"}

VARIABLES
  order,      \* provider_order
  issues,     \* codes in fulfillment_issues
  passed,     \* deadlines that are over
  watch,      \* scheduled_task of the watchdogs, the confirmation and the settlement
  case,       \* provider_order_after_sales_case
  refunds,    \* provider_order_refund_order, by idempotency key
  settle,     \* provider_order_settlement
  quotes,     \* previews: the customer's of a cancellation, the staff's of a decision
  support,    \* support notes and open support cases
  credit      \* provider_profile.credit_score and its adjustments for this order

vars == <<order, issues, passed, watch, case, refunds, settle, quotes, support, credit>>

Paid == Service + Transport + Other

\* What the provider has done and can prove, in the order it must be done.
Stages == <<"none", "departed", "arrived", "started", "submitted">>

Reached(s, t) == \E i, j \in DOMAIN Stages : i >= j /\ Stages[i] = s /\ Stages[j] = t

ClosedOrders == {"cancelled", "refunded", "terminated"}

OrderStatuses == {"pending_acceptance", "pending_support", "pending_service", "departed",
                  "in_service", "pending_confirmation", "after_sales"} \cup ClosedOrders

\* contact: the last call of the customer, before or after the arrival; retained:
\* what cancellation_record keeps, -1 without one; read: the revision on the
\* staff's screen is fulfillment_revision.
OrderRecords ==
  [status: OrderStatuses, stage: {Stages[i] : i \in DOMAIN Stages},
   contact: {"none", "before", "after"}, review: BOOLEAN, read: BOOLEAN, timedOut: BOOLEAN,
   wait: {"none", "waiting", "responded", "review", "closed"}, retained: -1..Paid]

NoCase == [status |-> "none", kind |-> "refund", original |-> "pending_service", requested |-> 0,
           decided |-> FALSE, before |-> 0, amount |-> 0]

RefundKeys == {"departure", "policy"} \cup Cases

Watchdogs == {"departure", "start", "completion", "wait"}

NoQuote == [case |-> "none"]

TypeOK ==
  /\ order \in OrderRecords
  /\ issues \subseteq {"departure_timeout_manual", "idle_start", "idle_completion",
                       "customer_wait_review", "timing"}
  /\ passed \subseteq {"accept"} \cup Watchdogs
  /\ watch \in [Watchdogs \cup {"confirm", "settle"} -> {"absent", "pending", "cancelled", "done"}]
  /\ \A c \in Cases :
       /\ case[c].status \in {"none", "pending", "approved", "resolved", "rejected", "refunded"}
       /\ case[c].original \in OrderStatuses /\ case[c].requested \in 0..Paid
  /\ refunds \in [RefundKeys -> [amount: 0..Paid, state: {"absent", "open", "succeeded"}]]
  /\ settle \in [status: {"absent", "dispute_frozen", "risk_frozen", "settled", "cancelled"},
                 retained: 0..Paid]
  /\ support \subseteq {"note", "case"}
  /\ credit \in [score: 0..MaxScore, taken: 0..MaxScore, given: 0..MaxScore, reversed: BOOLEAN]

\* The order has been paid and waits for the provider.
Init ==
  /\ order = [status |-> "pending_acceptance", stage |-> "none", contact |-> "none",
              review |-> FALSE, read |-> FALSE, timedOut |-> FALSE, wait |-> "none", retained |-> -1]
  /\ issues = {} /\ passed = {} /\ support = {}
  /\ watch = [w \in Watchdogs \cup {"confirm", "settle"} |-> "absent"]
  /\ case = [c \in Cases |-> NoCase]
  /\ refunds = [k \in RefundKeys |-> [amount |-> 0, state |-> "absent"]]
  /\ settle = [status |-> "absent", retained |-> 0]
  /\ quotes = [customer |-> NoQuote, staff |-> NoQuote]
  /\ \E s \in Scores :
       credit = [score |-> s, taken |-> 0, given |-> 0, reversed |-> FALSE]

-----------------------------------------------------------------------------
(* Amounts *)

Total(r) == MapThenSumSet(LAMBDA k : r[k].amount, RefundKeys)

Repaid(r) == MapThenSumSet(LAMBDA k : r[k].amount, {k \in RefundKeys : r[k].state = "succeeded"})

Unfinished == \E k \in RefundKeys : refunds[k].state = "open"

Remaining == Paid - Total(refunds)

\* calculate: exactly one rule applies, and it keeps at most what was paid.  The
\* compensation is taken from the service fee, the other fees and the transport.
Retains(stage, late, noShow) ==
  CASE noShow -> Transport + Min({NoShow, Paid - Transport})
    [] ~noShow /\ Reached(stage, "started") -> Transport + Service
    [] ~noShow /\ stage = "arrived" ->
         Transport + Min({(Service * ArrivedPercent + 50) \div 100, Paid - Transport})
    [] ~noShow /\ stage = "departed" ->
         IF Transit THEN Min({IF late THEN TransitLate ELSE TransitEarly, Paid}) ELSE Transport
    [] OTHER -> 0

-----------------------------------------------------------------------------
(* Parts of transactions *)

\* suspend_fulfillment_tasks
Suspended(w) == [x \in DOMAIN w |-> IF x \in {"confirm", "settle"} /\ w[x] = "pending"
                                    THEN "cancelled" ELSE w[x]]

\* Every write of the order, the case or a refund changes the fingerprint, and
\* the staff's preview is worth nothing from then on.
Stale == quotes' = [quotes EXCEPT !.staff = NoQuote]

\* flag_idle_fulfillment and the part of assess_timing that records an
\* anomaly: an idle event is recorded once, a timing anomaly every time.
Flagged(o, code, w) ==
  IF code \in issues /\ code # "timing"
  THEN order' = o /\ watch' = w /\ UNCHANGED issues
  ELSE /\ order' = [o EXCEPT !.review = TRUE, !.read = FALSE]
       /\ issues' = issues \cup {code}
       /\ watch' = Suspended(w)

\* reopen_provider_order_confirmation_timeout, reopen_provider_order_settlement
Resumed(task, held) == IF ~held /\ task \in {"absent", "cancelled"} THEN "pending" ELSE task

\* assess_timing
Assessed(o, w, anomaly) ==
  IF anomaly THEN Flagged(o, "timing", w) ELSE order' = o /\ watch' = w /\ UNCHANGED issues

HasOpenCase == \E c \in Cases : case[c].status \in {"pending", "approved"}

\* _manual_intervention_reason
ManualInterventionReason ==
  \/ order.review \/ "departure_timeout_manual" \in issues
  \/ support # {} \/ HasOpenCase \/ Unfinished

\* Mutant of Eligible: the status is not looked at.
Eligible_Closed ==
  /\ order.retained = -1 /\ order.wait # "review"
  /\ ~ManualInterventionReason /\ \A k \in RefundKeys : refunds[k].state = "absent"
  /\ settle.status # "settled"

\* ensure_eligible
Eligible ==
  /\ order.status \in {"pending_acceptance", "pending_service", "departed", "in_service"}
  /\ order.retained = -1 /\ order.wait # "review"
  /\ ~ManualInterventionReason /\ \A k \in RefundKeys : refunds[k].state = "absent"
  /\ settle.status # "settled"

Requested(key, amount) == [refunds EXCEPT ![key] = [amount |-> amount, state |-> "open"]]

\* reconcile, in both files: what is kept stays frozen for the finance staff.
SettlementAfter(kept) ==
  [status |-> IF kept > 0 THEN "dispute_frozen" ELSE "cancelled", retained |-> kept]

\* The same once every refund has succeeded and adds up to what was decided
Reconciled(r, repaid) ==
  IF Repaid(r) = repaid /\ \A k \in RefundKeys : r[k].state # "open"
  THEN SettlementAfter(Paid - repaid) ELSE settle

\* apply_decision of a policy cancellation; without a refund it is reconciled
\* at once.
Decided(kept, w) ==
  /\ order' = [order EXCEPT !.retained = kept,
                 !.status = IF Reached(order.stage, "started") THEN "terminated" ELSE "cancelled",
                 !.wait = IF @ = "none" THEN @ ELSE "closed"]
  /\ watch' = Suspended(w)
  /\ IF kept < Paid
     THEN refunds' = Requested("policy", Paid - kept) /\ UNCHANGED settle
     ELSE settle' = SettlementAfter(kept) /\ UNCHANGED refunds

-----------------------------------------------------------------------------
(* The provider *)

\* CurrentProviderOrderAcceptView and CurrentProviderOrderRejectView after a
\* deadline, and expire_provider_acceptance: the order goes to the support.
TooLate ==
  /\ order.status = "pending_acceptance" /\ passed \cap {"accept", "departure"} # {}
  /\ order' = [order EXCEPT !.status = "pending_support"]
  /\ Stale
  /\ UNCHANGED <<issues, passed, watch, case, refunds, settle, support, credit>>

\* Rejecting looks at the acceptance deadline only.
Reject ==
  /\ order.status = "pending_acceptance" /\ "accept" \notin passed
  /\ order' = [order EXCEPT !.status = "pending_support"]
  /\ Stale
  /\ UNCHANGED <<issues, passed, watch, case, refunds, settle, support, credit>>

Accept ==
  /\ order.status = "pending_acceptance" /\ passed \cap {"accept", "departure"} = {}
  /\ order' = [order EXCEPT !.status = "pending_service"]
  /\ watch' = [watch EXCEPT !["departure"] = "pending"]
  /\ Stale
  /\ UNCHANGED <<issues, passed, case, refunds, settle, support, credit>>

Contact ==
  /\ order.status \in {"pending_service", "departed", "in_service", "pending_confirmation"}
  /\ order' = [order EXCEPT !.contact = IF Reached(order.stage, "arrived") THEN "after" ELSE "before"]
  /\ Stale
  /\ UNCHANGED <<issues, passed, watch, case, refunds, settle, support, credit>>

\* CurrentProviderOrderDepartView within the deadline
Depart ==
  /\ order.status = "pending_service" /\ "departure" \notin passed /\ order.contact # "none"
  /\ order' = [order EXCEPT !.status = "departed", !.stage = "departed"]
  /\ watch' = [watch EXCEPT !["start"] = IF @ = "absent" THEN "pending" ELSE @]
  /\ Stale
  /\ UNCHANGED <<issues, passed, case, refunds, settle, support, credit>>

\* CurrentProviderOrderArrivalEvidenceView
ArrivalEvidence ==
  /\ order.status = "departed" /\ order.stage = "departed"
  /\ order' = [order EXCEPT !.stage = "arrived"]
  /\ Stale
  /\ UNCHANGED <<issues, passed, watch, case, refunds, settle, support, credit>>

\* CurrentProviderOrderStartView; the start may be too early, and it is too late
\* once its deadline is over.
Start ==
  /\ order.status = "departed" /\ order.stage = "arrived" /\ order.wait # "waiting"
  /\ \E anomaly \in {"start" \in passed, TRUE} :
       LET o == [order EXCEPT !.status = "in_service", !.stage = "started"]
           w == [watch EXCEPT !["completion"] = IF @ = "absent" THEN "pending" ELSE @]
       IN  Assessed(o, w, anomaly)
  /\ Stale
  /\ UNCHANGED <<passed, case, refunds, settle, support, credit>>

\* CurrentProviderOrderCompleteView: the confirmation task is registered only
\* when nothing is under review.
Complete ==
  /\ order.status = "in_service"
  /\ \E anomaly \in {"completion" \in passed, TRUE} :
       LET o == [order EXCEPT !.status = "pending_confirmation", !.stage = "submitted"]
           w == [watch EXCEPT !["confirm"] =
                   IF ~anomaly /\ ~order.review /\ @ = "absent" THEN "pending" ELSE @]
       IN  Assessed(o, w, anomaly)
  /\ Stale
  /\ UNCHANGED <<passed, case, refunds, settle, support, credit>>

-----------------------------------------------------------------------------
(* The watchdogs *)

\* The end of a handler: the row of the task is terminal.
Done(w, task) == [w EXCEPT ![task] = IF @ = "pending" THEN "done" ELSE @]

\* _deduct_credit: the score does not fall below zero.
Deducted ==
  LET points == Min({credit.score, Penalty})
  IN  [credit EXCEPT !.score = @ - points, !.taken = points]

\* The last part of expire_provider_departure and _deduct_credit
CancelForNoDeparture ==
  /\ refunds' = IF Remaining > 0 THEN Requested("departure", Remaining) ELSE refunds
  /\ order' = [order EXCEPT !.timedOut = TRUE,
                            !.status = IF Remaining > 0 THEN "cancelled" ELSE "refunded"]
  /\ credit' = Deducted
  /\ watch' = Suspended(Done(watch, "departure"))
  /\ UNCHANGED <<issues, settle>>

\* expire_provider_departure, called by its task and by a late departure.  The
\* records of the payment may turn out to be inconsistent.
ExpireDeparture ==
  /\ order.status = "pending_service" /\ ~order.timedOut /\ "departure" \in passed
  /\ \E consistent \in BOOLEAN :
       IF ManualInterventionReason \/ order.stage # "none" \/ ~consistent
          \/ settle.status = "settled" \/ (Remaining = 0 /\ Paid > 0)
       THEN /\ Flagged(order, "departure_timeout_manual", Done(watch, "departure"))
            /\ UNCHANGED <<refunds, credit, settle>>
       ELSE CancelForNoDeparture
  /\ Stale
  /\ UNCHANGED <<passed, case, support>>

\* inspect_idle_fulfillment, stages start and completion
InspectIdle(stage, status, code) ==
  /\ watch[stage] = "pending" /\ stage \in passed
  /\ order.status = status
  /\ stage = "start" => order.wait # "waiting"
  /\ Flagged(order, code, Done(watch, stage))
  /\ Stale
  /\ UNCHANGED <<passed, case, refunds, settle, support, credit>>

\* _execute_provider_fulfillment_timeout finds the order in another state, and
\* the row ends as cancelled.
NotApplicable(task, status) ==
  /\ watch[task] = "pending" /\ task \in passed
  /\ order.status # status \/ (task = "wait" /\ order.wait # "waiting")
  /\ watch' = [watch EXCEPT ![task] =
                 IF task = "wait" \/ (task = "departure" /\ order.timedOut) THEN "done" ELSE "cancelled"]
  /\ UNCHANGED <<order, issues, passed, case, refunds, settle, quotes, support, credit>>

StartWait ==
  /\ order.wait = "none" /\ Eligible
  /\ order.status = "departed" /\ order.stage = "arrived" /\ order.contact = "after"
  /\ "start" \notin passed
  /\ order' = [order EXCEPT !.wait = "waiting"]
  /\ watch' = [watch EXCEPT !["wait"] = IF @ = "absent" THEN "pending" ELSE @]
  /\ Stale
  /\ UNCHANGED <<issues, passed, case, refunds, settle, support, credit>>

RespondWait ==
  /\ order.wait = "waiting" /\ order.status = "departed"
  /\ order' = [order EXCEPT !.wait = "responded"]
  /\ Stale
  /\ UNCHANGED <<issues, passed, watch, case, refunds, settle, support, credit>>

\* expire_wait: a dispute turns the decision over to the staff.
ExpireWait ==
  /\ watch["wait"] = "pending" /\ "wait" \in passed
  /\ order.wait = "waiting" /\ order.status = "departed"
  /\ IF Eligible
     THEN /\ Decided(Retains(order.stage, FALSE, TRUE), Done(watch, "wait"))
          /\ UNCHANGED issues
     ELSE /\ Flagged([order EXCEPT !.wait = "review"], "customer_wait_review", Done(watch, "wait"))
          /\ UNCHANGED <<refunds, settle>>
  /\ Stale
  /\ UNCHANGED <<passed, case, support, credit>>

\* Time: a start precedes the completion, and a wait has a deadline once begun.
\* A deadline no operation will look at any more need not pass.
DeadlinePasses(d) ==
  /\ d \notin passed /\ order.status \notin ClosedOrders
  /\ d = "accept" => order.status = "pending_acceptance"
  /\ d = "departure" => order.stage = "none"
  /\ d = "start" => ~Reached(order.stage, "submitted")
  /\ d = "completion" => "start" \in passed /\ ~Reached(order.stage, "submitted")
  /\ d = "wait" => order.wait = "waiting"
  /\ passed' = passed \cup {d}
  /\ UNCHANGED <<order, issues, watch, case, refunds, settle, quotes, support, credit>>

-----------------------------------------------------------------------------
(* Cancellation by the customer *)

\* quote_context: what the customer agrees to
Context(late) ==
  [case |-> "cancel", status |-> order.status, stage |-> order.stage,
   kept |-> Retains(order.stage, late, FALSE)]

PreviewCancel ==
  /\ Eligible
  /\ quotes' = [quotes EXCEPT !.customer = Context(FALSE)]
  /\ UNCHANGED <<order, issues, passed, watch, case, refunds, settle, support, credit>>

\* Mutant of Agreed: the preview is not compared with the order.
Agreed_Anything(now) == quotes.customer # NoQuote

\* cancel: agreed = quote_context(order, amounts), with the amounts of now
Agreed(now) == quotes.customer = now

CancelOrder ==
  /\ Eligible /\ quotes.customer # NoQuote
  /\ \E late \in {FALSE, Transit} :
       /\ Agreed(Context(late))
       /\ Decided(Context(late).kept, watch)
  /\ Stale
  /\ UNCHANGED <<issues, passed, case, support, credit>>

-----------------------------------------------------------------------------
(* Cases, reviews and disputes *)

Opened(c, kind, amount) ==
  /\ case' = [case EXCEPT ![c] = [NoCase EXCEPT !.status = "pending", !.kind = kind,
                                     !.original = order.status, !.requested = amount]]
  /\ order' = [order EXCEPT !.status = "after_sales"]
  /\ settle' = IF settle.status = "risk_frozen" THEN [settle EXCEPT !.status = "dispute_frozen"] ELSE settle

\* create_provider_order_after_sales_case, and the customer's own request,
\* which a cancellation by policy excludes
OpenCase(c) ==
  /\ case[c].status = "none" /\ ~HasOpenCase /\ ~Unfinished /\ Remaining > 0
  /\ order.status \notin {"refunded", "terminated"}
  /\ settle.status # "settled"
  /\ Opened(c, "refund", Remaining)
  /\ watch' = [watch EXCEPT
       !["confirm"] = IF order.status = "pending_confirmation" /\ @ = "pending" THEN "cancelled" ELSE @,
       !["settle"] = IF settle.status = "risk_frozen" /\ @ = "pending" THEN "cancelled" ELSE @]
  /\ Stale
  /\ UNCHANGED <<issues, passed, refunds, support, credit>>

\* check_funds
FundsChecked ==
  /\ order.retained = -1 /\ ~order.timedOut /\ order.status \notin ClosedOrders
  /\ settle.status # "settled" /\ ~Unfinished

MayTransfer == ~HasOpenCase /\ order.review /\ order.read /\ FundsChecked

\* transfer of an order under review to a fulfilment dispute
Transfer(c) ==
  /\ case[c].status = "none" /\ MayTransfer
  /\ order.status \notin {"refunded", "terminated"}
  /\ Opened(c, "fulfilment", Remaining)
  /\ watch' = Suspended(watch)
  /\ Stale
  /\ UNCHANGED <<issues, passed, refunds, support, credit>>

ReadOrder ==
  /\ order.review /\ ~order.read
  /\ order' = [order EXCEPT !.read = TRUE]
  /\ UNCHANGED <<issues, passed, watch, case, refunds, settle, quotes, support, credit>>

\* investigate: an entry in fulfillment_reviews
Investigate ==
  /\ order.review /\ order.read /\ order.status \notin ClosedOrders
  /\ quotes.staff # NoQuote /\ Stale
  /\ UNCHANGED <<order, issues, passed, watch, case, refunds, settle, support, credit>>

\* resolve_fulfillment_review
ResolveReview ==
  /\ order.review /\ order.read
  /\ ~\E c \in Cases : case[c].kind = "fulfilment" /\ case[c].status \in {"pending", "approved"}
  /\ ~order.timedOut /\ order.status \notin ClosedOrders
  /\ \A k \in RefundKeys : refunds[k].state = "absent"
  /\ order' = [order EXCEPT !.review = FALSE]
  /\ watch' = [watch EXCEPT !["confirm"] =
                 IF order.status = "pending_confirmation" THEN Resumed(@, FALSE) ELSE @]
  /\ Stale
  /\ UNCHANGED <<issues, passed, case, refunds, settle, support, credit>>

\* review_provider_order_after_sales_case, action approve: never a dispute
ApproveCase(c) ==
  /\ case[c].status = "pending" /\ case[c].kind = "refund" /\ ~Unfinished
  /\ \E amount \in 1..Min({case[c].requested, Remaining}) :
       /\ case' = [case EXCEPT ![c].status = "approved", ![c].amount = amount]
       /\ refunds' = Requested(c, amount)
  /\ order' = [order EXCEPT !.status = "after_sales"]
  /\ Stale
  /\ UNCHANGED <<issues, passed, watch, settle, support, credit>>

\* The same function, action reject: the order goes back to where it was, its
\* confirmation task is reopened unless a review holds it, and a settlement
\* that the dispute froze is opened again.
RejectCase(c) ==
  /\ case[c].status = "pending"
  /\ case' = [case EXCEPT ![c].status = "rejected"]
  /\ order' = [order EXCEPT !.status = case[c].original]
  /\ settle' = IF settle.status = "dispute_frozen" THEN [settle EXCEPT !.status = "risk_frozen"] ELSE settle
  /\ watch' = [watch EXCEPT
       !["confirm"] = IF case[c].original = "pending_confirmation" THEN Resumed(@, order.review) ELSE @,
       !["settle"] = IF settle.status = "dispute_frozen" THEN Resumed(@, order.review) ELSE @]
  /\ Stale
  /\ UNCHANGED <<issues, passed, refunds, support, credit>>

\* require_pending
Pending(c) ==
  /\ case[c].status = "pending" /\ case[c].kind = "fulfilment"
  /\ order.status = "after_sales" /\ order.review /\ FundsChecked

\* calculate_preview: the staff decide the stage at which the service ended, and
\* either apply the policy to it or fix the amount by hand.
Quotable(amount, stage) ==
  /\ Reached(order.stage, stage)
  /\ \/ amount \in 0..Remaining
     \/ /\ \A k \in RefundKeys : refunds[k].state = "absent"
        /\ amount \in {Paid - Retains(stage, FALSE, FALSE), Paid - Retains(stage, TRUE, FALSE)}
     \/ /\ \A k \in RefundKeys : refunds[k].state = "absent"
        /\ stage = "arrived" /\ "wait" \in passed /\ order.wait \in {"waiting", "review"}
        /\ amount = Paid - Retains(stage, FALSE, TRUE)

PreviewDispute(c) ==
  /\ Pending(c) /\ order.read
  /\ \E amount \in 0..Paid, stage \in {"none", order.stage} :
       /\ Quotable(amount, stage) /\ amount <= case[c].requested
       /\ quotes' = [quotes EXCEPT !.staff =
            [case |-> c, amount |-> amount, before |-> Total(refunds),
             status |-> IF Reached(stage, "started") THEN "terminated" ELSE "cancelled"]]
  /\ UNCHANGED <<order, issues, passed, watch, case, refunds, settle, support, credit>>

\* resolve: the preview must still describe the order; the approval may be held
\* for a supervisor instead.
ResolveDispute(c) ==
  LET q == quotes.staff
  IN  /\ q # NoQuote /\ q.case = c
      /\ Pending(c) /\ q.before = Total(refunds)
      /\ \/ Stale /\ UNCHANGED <<order, watch, case, refunds, settle>>
         \/ /\ case' = [case EXCEPT ![c] = [@ EXCEPT !.decided = TRUE, !.before = q.before,
                          !.status = IF q.amount > 0 THEN "approved" ELSE "resolved",
                          !.amount = q.amount, !.original = q.status]]
            /\ order' = [order EXCEPT !.status = q.status, !.review = FALSE,
                           !.wait = IF @ = "none" THEN @ ELSE "closed"]
            /\ watch' = Suspended(watch)
            /\ IF q.amount > 0
               THEN refunds' = Requested(c, q.amount) /\ UNCHANGED settle
               ELSE settle' = SettlementAfter(Paid - q.before) /\ UNCHANGED refunds
            /\ Stale
  /\ UNCHANGED <<issues, passed, support, credit>>

\* The status after _complete_provider_order_refund
StatusAfterRefund(k, r) ==
  LET full == Repaid(r) >= Paid
  IN  CASE k \in Cases /\ case[k].decided -> case[k].original
        [] ~(k \in Cases /\ case[k].decided) /\ order.retained >= 0 ->
             IF Reached(order.stage, "started") THEN "terminated" ELSE "cancelled"
        [] OTHER ->
             IF order.status = "terminated" THEN "terminated"
             ELSE IF full THEN "refunded"
             ELSE IF k \in Cases /\ order.status = "after_sales" THEN case[k].original ELSE order.status

\* _complete_provider_order_refund
CompleteRefund(k) ==
  /\ refunds[k].state = "open"
  /\ LET r == [refunds EXCEPT ![k].state = "succeeded"]
         decision == k \in Cases /\ case[k].decided
     IN  /\ refunds' = r
         /\ order' = [order EXCEPT !.status = StatusAfterRefund(k, r)]
         /\ case' = IF k \in Cases THEN [case EXCEPT ![k].status = "refunded"] ELSE case
         /\ CASE decision ->
                   /\ settle' = Reconciled(r, case[k].before + case[k].amount)
                   /\ UNCHANGED watch
              [] ~decision /\ order.retained >= 0 ->
                   /\ settle' = Reconciled(r, Paid - order.retained)
                   /\ UNCHANGED watch
              [] ~decision /\ order.retained < 0 /\ settle.status # "absent"
                 /\ order.status # "terminated" ->
                   /\ settle' = [status |-> IF Repaid(r) >= Paid THEN "cancelled" ELSE "risk_frozen",
                                 retained |-> Paid - Repaid(r)]
                   /\ watch' = [watch EXCEPT !["settle"] =
                        IF Repaid(r) < Paid THEN Resumed(@, order.review) ELSE @]
              [] OTHER -> UNCHANGED <<settle, watch>>
  /\ Stale
  /\ UNCHANGED <<issues, passed, support, credit>>

\* advance_provider_order_settlement, called by the settlement task
AdvanceSettlement ==
  /\ watch["settle"] = "pending" /\ settle.status \in {"risk_frozen", "dispute_frozen"}
  /\ watch' = [watch EXCEPT !["settle"] = "done"]
  /\ settle' = IF order.retained >= 0 \/ order.status = "terminated" \/ order.review THEN settle
               ELSE IF HasOpenCase \/ Unfinished THEN [settle EXCEPT !.status = "dispute_frozen"]
               ELSE [settle EXCEPT !.status = "settled"]
  /\ UNCHANGED <<order, issues, passed, case, refunds, quotes, support, credit>>

-----------------------------------------------------------------------------
(* Support and credit *)

\* A support note on the order, and a support case of the customer.
SupportSteps(x) ==
  /\ support' = support \cup {x}
  /\ x \notin support /\ order.status \notin ClosedOrders
  /\ UNCHANGED <<order, issues, passed, watch, case, refunds, settle, quotes, credit>>

CloseSupportCase ==
  /\ "case" \in support /\ support' = support \ {"case"}
  /\ UNCHANGED <<order, issues, passed, watch, case, refunds, settle, quotes, credit>>

MayReverse == order.timedOut /\ ~credit.reversed

\* reverse_departure_penalty
ReversePenalty ==
  /\ MayReverse
  /\ LET back == Min({credit.taken, MaxScore - credit.score})
     IN  credit' = [credit EXCEPT !.score = @ + back, !.given = @ + back, !.reversed = TRUE]
  /\ Stale
  /\ UNCHANGED <<order, issues, passed, watch, case, refunds, settle, support>>

\* adjust_provider_credit
AdjustCredit(d) ==
  /\ credit.score + d \in 0..MaxScore
  /\ credit' = [credit EXCEPT !.score = @ + d]
  /\ UNCHANGED <<order, issues, passed, watch, case, refunds, settle, quotes, support>>

-----------------------------------------------------------------------------

\* One run of _execute_provider_fulfillment_timeout or _execute_provider_customer_wait
WatchdogRuns ==
  \/ watch["departure"] = "pending" /\ ExpireDeparture
  \/ NotApplicable("departure", "pending_service")
  \/ InspectIdle("start", "departed", "idle_start")
  \/ NotApplicable("start", "departed")
  \/ InspectIdle("completion", "in_service", "idle_completion")
  \/ NotApplicable("completion", "in_service")
  \/ ExpireWait
  \/ NotApplicable("wait", "departed")

ProviderActs ==
  \/ Accept \/ Reject \/ Contact \/ Depart \/ ExpireDeparture \/ ArrivalEvidence
  \/ Start \/ Complete \/ StartWait

CaseActs(c) ==
  \/ OpenCase(c) \/ Transfer(c) \/ ApproveCase(c) \/ RejectCase(c)
  \/ PreviewDispute(c) \/ ResolveDispute(c)

Next ==
  \/ ProviderActs \/ WatchdogRuns \/ TooLate
  \/ RespondWait \/ PreviewCancel \/ CancelOrder
  \/ ReadOrder \/ Investigate \/ ResolveReview \/ ReversePenalty
  \/ AdvanceSettlement \/ CloseSupportCase
  \/ \E d \in {"accept"} \cup Watchdogs : DeadlinePasses(d)
  \/ \E c \in Cases : CaseActs(c)
  \/ \E k \in RefundKeys : CompleteRefund(k)
  \/ \E x \in Interventions : SupportSteps(x)
  \/ \E d \in Deltas : AdjustCredit(d)

Spec == Init /\ [][Next]_vars

\* Time passes, and the worker executes the due tasks every ten seconds.
LiveSpec ==
  /\ Spec
  /\ WF_vars(WatchdogRuns)
  /\ \A d \in {"accept"} \cup Watchdogs : WF_vars(DeadlinePasses(d))

-----------------------------------------------------------------------------
(* Properties *)

\* The refunds of an order, whoever asked for them (the watchdog, the policy, a
\* case), never exceed what was paid.
RefundsWithinPaid == Total(refunds) <= Paid

\* One order is decided about once: by the departure watchdog, by the
\* cancellation policy or by a fulfilment dispute, never by two of them
\* (expire_provider_departure, apply_decision, resolve).
DecidedOnce ==
  Cardinality({x \in {"timeout", "policy"} \cup Cases :
                 \/ x = "timeout" /\ order.timedOut
                 \/ x = "policy" /\ order.retained >= 0
                 \/ x \in Cases /\ case[x].decided}) <= 1

\* An order cancelled because the provider did not depart gives back exactly what
\* earlier refunds left, and its provider never departed
\* (expire_provider_departure against CurrentProviderOrderDepartView).
TimeoutRepaysRest == order.timedOut => Total(refunds) = Paid /\ order.stage = "none"

\* README.md, "已转人工处理的未出发超时不因复核而重新触发自动退款": once a missed departure was
\* handed to the staff, no later run of the watchdog or press of the provider
\* refunds and penalises automatically.
HandedOverStaysManual == "departure_timeout_manual" \in issues => ~order.timedOut

\* While a review is required neither the confirmation nor the settlement has a
\* task that could run (flag_idle_fulfillment, assess_timing, resolve_fulfillment_review).
ReviewHolds == order.review => "pending" \notin {watch["confirm"], watch["settle"]}

\* An appeal gives back at most the points that were taken, whatever the staff
\* did to the score meanwhile (reverse_departure_penalty).
PenaltyReturnedOnce == credit.given <= credit.taken

\* What the customer's cancellation keeps is what the preview showed for the very
\* stage the order is in (cancel); only the end of a wait decides without one.
CustomerPaysWhatWasShown ==
  order.retained = -1 /\ order'.retained >= 0 =>
    \/ order.wait = "waiting" /\ "wait" \in passed
    \/ /\ quotes.customer.stage = order.stage
       /\ quotes.customer.kept = order'.retained

\* Money an adjudication or a cancellation keeps enters the reconciliation frozen:
\* no step that first records it makes it an ordinary pending income (reconcile).
KeptIsFrozen ==
  settle.status = "absent" => settle'.status \in {"absent", "dispute_frozen", "cancelled"}

\* An order whose watchdog is registered is noticed: it moves on, is cancelled, or
\* is put under review (inspect_idle_fulfillment, expire_provider_departure).
PhaseOf(d) ==
  CASE d = "departure" -> "pending_service" [] d = "start" -> "departed" [] d = "completion" -> "in_service"
IssueOf(d) ==
  CASE d = "departure" -> "departure_timeout_manual" [] d = "start" -> "idle_start" [] d = "completion" -> "idle_completion"
Watched(d) == order.status = PhaseOf(d) /\ watch[d] = "pending"
Noticed(d) == order.status # PhaseOf(d) \/ IssueOf(d) \in issues
WatchedIsNoticed == \A d \in {"departure", "start", "completion"} : Watched(d) ~> Noticed(d)

\* A wait for the customer ends (expire_wait).
Waits == order.wait = "waiting" /\ order.status = "departed"
WaitEnds == Waits ~> ~Waits

\* README.md on a missed departure: an accepted order that nobody departs for is
\* cancelled, or handed to the staff when there was a dispute at the deadline.
MissedDepartureEnds ==
  (order.status = "pending_service" /\ "departure" \in passed)
    ~> (order.status # "pending_service" \/ "departure_timeout_manual" \in issues)

\* orders/fulfillment_after_sales.py, "Retained money always stays frozen": what a
\* decided dispute keeps is never settled by the task.
RetainedStaysFrozen == (\E c \in Cases : case[c].decided) => settle.status # "settled"

=============================================================================
