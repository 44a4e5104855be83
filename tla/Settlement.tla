----------------------------- MODULE Settlement -----------------------------
(***************************************************************************)
(* The end of one provider order: the provider submits the completion, the *)
(* customer or the confirmation task confirms it, the settlement is frozen *)
(* and then settled by its task, while after-sales cases, early            *)
(* terminations and refunds stop and resume all of this                    *)
(* (orders/services.py, orders/fulfillment.py, orders/termination.py,      *)
(* backoffice/services.py, the handlers of taskcenter/services.py).        *)
(*                                                                         *)
(* Every business operation is one transaction under the lock of the order *)
(* row.  A task worker claims a row, runs the handler and writes the       *)
(* outcome in three separate transactions; the rows are those of TaskRows. *)
(***************************************************************************)
EXTENDS TaskRows, FiniteSets, FiniteSetsExt

CONSTANTS
  Cases,       \* after-sales cases of the order
  Payable,     \* payable_amount
  Workers,     \* task workers
  AttemptCap   \* bound: attempts are counted up to this number, and leases are
               \* lost only below it

SettlementAssumption ==
  /\ Payable \in Nat \ {0}
  /\ AttemptCap \in Nat \ {0}

VARIABLES
  order,       \* provider_order
  settlement,  \* provider_order_settlement: status, and whether freeze_until is over
  case,        \* provider_order_after_sales_case
  refund,      \* the refund of a case: absent, pending (or failed), succeeded
  row,         \* scheduled_task of the confirmation and of the settlement
  exec         \* what each worker executes

vars == <<order, settlement, case, refund, row, exec>>

OrderTasks == {"confirm", "settle"}

Open == {"pending", "approved"}

OrderStatuses == {"in_service", "pending_confirmation", "pending_review", "completed",
                  "after_sales", "terminated", "refunded"}

\* submitted: completion_submitted_at; confirmed: customer_confirmed_at or
\* auto_confirmed_at; review: fulfillment_review_required; deadline:
\* confirmation_expires_at, which is empty while the confirmation is paused.
OrderRecords ==
  [status: OrderStatuses, submitted: BOOLEAN, confirmed: BOOLEAN, review: BOOLEAN,
   deadline: {"none", "ahead", "passed"}]

\* `pending' stands for processing, too.
CaseRecords ==
  [status: {"none", "rejected", "refunded", "resolved"} \cup Open,
   kind: {"refund", "termination"}, original: OrderStatuses, amount: 0..Payable]

NoCase == [status |-> "none", kind |-> "refund", original |-> "in_service", amount |-> 0]

Executions ==
  [job: OrderTasks, started: Instants, attempts: Nat,
   outcome: {"claimed", "succeeded", "cancelled", "pending"}]

TypeOK ==
  /\ order \in OrderRecords
  /\ settlement \in [status: {"absent", "risk_frozen", "dispute_frozen", "settled", "cancelled"},
                     thawed: BOOLEAN]
  /\ case \in [Cases -> CaseRecords]
  /\ refund \in [Cases -> {"absent", "pending", "succeeded"}]
  /\ row \in [OrderTasks -> Rows]
  /\ exec \in [Workers -> SUBSET Executions]

\* The service has started; its start may have been too early or too late.
Init ==
  /\ \E late \in BOOLEAN :
       order = [status |-> "in_service", submitted |-> FALSE, confirmed |-> FALSE,
                review |-> late, deadline |-> "none"]
  /\ settlement = [status |-> "absent", thawed |-> FALSE]
  /\ case = [c \in Cases |-> NoCase]
  /\ refund = [c \in Cases |-> "absent"]
  /\ row = [j \in OrderTasks |-> Absent]
  /\ exec = [w \in Workers |-> {}]

-----------------------------------------------------------------------------
(* Amounts *)

HasOpenCase == \E c \in Cases : case[c].status \in Open

Unresolved == {c \in Cases : refund[c] = "pending"}

\* The refunds of a case carry the amount the case was approved with.
Reserved ==
  MapThenSumSet(LAMBDA c : case[c].amount, {c \in Cases : refund[c] # "absent"})

Repaid(r) == MapThenSumSet(LAMBDA c : case[c].amount, {c \in Cases : r[c] = "succeeded"})

-----------------------------------------------------------------------------
(* Parts of transactions *)

\* ensure_provider_order_settlement, called when the order is confirmed:
\* register_provider_order_settlement does nothing during a fulfilment review.
Ensured(rows) ==
  IF settlement.status # "absent"
  THEN row' = rows /\ UNCHANGED settlement
  ELSE IF Repaid(refund) >= Payable
       THEN /\ settlement' = [status |-> "cancelled", thawed |-> FALSE]
            /\ row' = rows
       ELSE /\ settlement' = [status |-> "risk_frozen", thawed |-> FALSE]
            /\ row' = IF order.review THEN rows
                      ELSE [rows EXCEPT !["settle"] = Registered(@, FALSE)]

\* A dispute freezes a settlement and cancels its pending task.
Disputed(rows) ==
  IF settlement.status = "risk_frozen"
  THEN /\ settlement' = [settlement EXCEPT !.status = "dispute_frozen"]
       /\ row' = [rows EXCEPT !["settle"] = Cancelled(@)]
  ELSE row' = rows /\ UNCHANGED settlement

ReopenedSettle(rows) ==
  IF order.review THEN rows
  ELSE [rows EXCEPT !["settle"] = Reopened(@, settlement.thawed)]

AllSuspended == [j \in OrderTasks |-> Suspended(row[j])]

-----------------------------------------------------------------------------
(* The provider, the customer and the reviewers *)

\* CurrentProviderOrderCompleteView.post with assess_timing
SubmitCompletion ==
  /\ order.status = "in_service"
  /\ \E anomaly \in BOOLEAN :
       LET held == order.review \/ anomaly
       IN  /\ order' = [order EXCEPT !.status = "pending_confirmation", !.submitted = TRUE,
                          !.review = held, !.deadline = IF held THEN "none" ELSE "ahead"]
           /\ row' = IF held THEN AllSuspended
                     ELSE [row EXCEPT !["confirm"] = Registered(@, FALSE)]
  /\ UNCHANGED <<settlement, case, refund, exec>>

\* resolve_fulfillment_review
ResolveFulfillmentReview ==
  /\ order.review /\ order.status \notin {"refunded", "terminated"}
  /\ \A c \in Cases : refund[c] = "absent"
  /\ LET resumes == /\ order.status \in {"pending_confirmation", "after_sales"}
                    /\ order.submitted /\ ~order.confirmed
         first   == IF order.status = "pending_confirmation"
                    THEN [row EXCEPT !["confirm"] = Reopened(@, FALSE)] ELSE row
     IN  /\ order' = [order EXCEPT !.review = FALSE, !.deadline = IF resumes THEN "ahead" ELSE @]
         /\ row' = IF settlement.status \in {"risk_frozen", "dispute_frozen"}
                   THEN [first EXCEPT !["settle"] = Reopened(@, settlement.thawed)] ELSE first
  /\ UNCHANGED <<settlement, case, refund, exec>>

\* ProviderOrderConfirmCompletionView.post; a fulfilment review does not stop it
CustomerConfirms ==
  /\ order.status = "pending_confirmation"
  /\ order' = [order EXCEPT !.status = "pending_review", !.confirmed = TRUE]
  /\ Ensured([row EXCEPT !["confirm"] = Cancelled(@)])
  /\ UNCHANGED <<case, refund, exec>>

\* ProviderOrderReviewView.post, auto_review_provider_order
ReviewOrder ==
  /\ order.status = "pending_review"
  /\ order' = [order EXCEPT !.status = "completed"]
  /\ UNCHANGED <<settlement, case, refund, row, exec>>

\* Mutant of CreateCase: a settled order is not refused.
CreateCase_Settled(c) ==
  /\ case[c].status = "none" /\ ~HasOpenCase
  /\ order.status \notin {"terminated", "refunded"}
  /\ Reserved < Payable
  /\ \E amount \in 1..(Payable - Reserved) :
       case' = [case EXCEPT ![c] = [status |-> "pending", kind |-> "refund",
                                    original |-> order.status, amount |-> amount]]
  /\ order' = [order EXCEPT !.status = "after_sales"]
  /\ Disputed(IF order.status = "pending_confirmation"
              THEN [row EXCEPT !["confirm"] = Cancelled(@)] ELSE row)
  /\ UNCHANGED <<refund, exec>>

\* create_customer_provider_order_after_sales_case, create_provider_order_after_sales_case
\* and request_termination, which pauses the confirmation
\* The back office may also register a complaint that asks for no money.
CreateCase(c) ==
  /\ case[c].status = "none" /\ ~HasOpenCase
  /\ order.status \notin {"terminated", "refunded"}
  /\ settlement.status # "settled"
  /\ \E kind \in {"refund", "termination"}, amount \in 0..(Payable - Reserved) :
       /\ kind = "termination" =>
            /\ order.status \in {"in_service", "pending_confirmation"}
            /\ amount > 0 /\ amount = Payable - Reserved /\ Unresolved = {}
       /\ case' = [case EXCEPT ![c] = [status |-> "pending", kind |-> kind,
                                       original |-> order.status, amount |-> amount]]
       /\ order' = [order EXCEPT !.status = "after_sales",
                      !.deadline = IF kind = "termination" THEN "none" ELSE @]
  /\ Disputed(IF order.status = "pending_confirmation"
              THEN [row EXCEPT !["confirm"] = Cancelled(@)] ELSE row)
  /\ UNCHANGED <<refund, exec>>

\* review_provider_order_after_sales_case, action approve, with
\* create_provider_order_refund
ApproveCase(c) ==
  /\ case[c].status = "pending" /\ case[c].kind = "refund"
  /\ settlement.status # "settled" /\ Unresolved = {}
  /\ \E amount \in 1..case[c].amount :
       /\ amount <= Payable - Reserved
       /\ case' = [case EXCEPT ![c].status = "approved", ![c].amount = amount]
  /\ refund' = [refund EXCEPT ![c] = "pending"]
  /\ order' = [order EXCEPT !.status = "after_sales"]
  /\ Disputed(row)
  /\ UNCHANGED exec

\* The same view, action reject.  Rejecting a termination resumes the
\* confirmation with the time that was left.
RejectCase(c) ==
  LET back     == IF order.status = "after_sales" THEN case[c].original ELSE order.status
      resumes  == /\ order.status = "after_sales" /\ back = "pending_confirmation"
                  /\ ~order.review
      deadline == IF resumes /\ order.deadline = "none" THEN "ahead" ELSE order.deadline
      first    == IF resumes
                  THEN [row EXCEPT !["confirm"] = Reopened(@, deadline = "passed")] ELSE row
  IN  /\ case[c].status = "pending"
      /\ case' = [case EXCEPT ![c].status = "rejected"]
      /\ order' = [order EXCEPT !.status = back, !.deadline = deadline]
      /\ IF settlement.status = "dispute_frozen"
         THEN /\ settlement' = [settlement EXCEPT !.status = "risk_frozen"]
              /\ row' = ReopenedSettle(first)
         ELSE row' = first /\ UNCHANGED settlement
      /\ UNCHANGED <<refund, exec>>

\* reconcile_termination_settlement, once every refund has succeeded
TerminationReconciled(r) ==
  settlement' = [status |-> IF Repaid(r) >= Payable THEN "cancelled" ELSE "dispute_frozen",
                 thawed |-> TRUE]

\* resolve_termination
ResolveTermination(c) ==
  /\ case[c].status = "pending" /\ case[c].kind = "termination"
  /\ order.status = "after_sales"
  /\ settlement.status # "settled" /\ Unresolved = {}
  /\ \E amount \in 0..case[c].amount :
       /\ case' = [case EXCEPT ![c].amount = amount,
                               ![c].status = IF amount > 0 THEN "approved" ELSE "resolved"]
       /\ refund' = [refund EXCEPT ![c] = IF amount > 0 THEN "pending" ELSE @]
       /\ IF amount > 0 THEN UNCHANGED settlement ELSE TerminationReconciled(refund)
  /\ order' = [order EXCEPT !.status = "terminated", !.deadline = "none"]
  /\ row' = AllSuspended
  /\ UNCHANGED exec

\* _complete_provider_order_refund; while it fails the refund stays pending
CompleteRefund(c) ==
  LET r    == [refund EXCEPT ![c] = "succeeded"]
      full == Repaid(r) >= Payable
  IN  /\ refund[c] = "pending"
      /\ refund' = r
      /\ case' = [case EXCEPT ![c].status = "refunded"]
      /\ order' = [order EXCEPT !.status =
                     IF @ = "terminated" THEN @
                     ELSE IF full THEN "refunded"
                     ELSE IF @ = "after_sales" THEN case[c].original ELSE @]
      /\ IF order.status = "terminated"
         THEN TerminationReconciled(r) /\ UNCHANGED row
         ELSE IF settlement.status = "absent"
         THEN UNCHANGED <<settlement, row>>
         ELSE IF full
         THEN settlement' = [settlement EXCEPT !.status = "cancelled"] /\ UNCHANGED row
         ELSE /\ settlement' = [settlement EXCEPT !.status = "risk_frozen"]
              /\ row' = ReopenedSettle(row)
      /\ UNCHANGED exec

-----------------------------------------------------------------------------
(* Time *)

DeadlinePasses ==
  /\ order.deadline = "ahead"
  /\ order' = [order EXCEPT !.deadline = "passed"]
  /\ UNCHANGED <<settlement, case, refund, row, exec>>

FreezeEnds ==
  /\ settlement.status # "absent" /\ ~settlement.thawed
  /\ settlement' = [settlement EXCEPT !.thawed = TRUE]
  /\ UNCHANGED <<order, case, refund, row, exec>>

\* available_at is the deadline of the business, except that a disputed
\* settlement is looked at again every five minutes.
BecomeDue(j) ==
  /\ row[j].status = "pending" /\ ~row[j].due
  /\ IF j = "confirm" THEN order.deadline # "ahead"
     ELSE settlement.thawed \/ (\E c \in Cases : case[c].status # "none")
  /\ row' = [row EXCEPT ![j].due = TRUE]
  /\ UNCHANGED <<order, settlement, case, refund, exec>>

LeaseTimeout(j) ==
  /\ row[j].status = "running" /\ ~row[j].expired /\ row[j].attempts < AttemptCap
  /\ row' = [row EXCEPT ![j].expired = TRUE]
  /\ UNCHANGED <<order, settlement, case, refund, exec>>

-----------------------------------------------------------------------------
(* Workers *)

ReleaseStaleTasks ==
  /\ \E j \in OrderTasks : Stale(row[j])
  /\ row' = [j \in OrderTasks |-> IF Stale(row[j]) THEN Released(row[j]) ELSE row[j]]
  /\ UNCHANGED <<order, settlement, case, refund, exec>>

UsedInstants ==
  {row[j].started : j \in OrderTasks} \cup UNION {{e.started : e \in exec[w]} : w \in Workers}

\* The polls of a disputed settlement count attempts without end; no handler
\* here looks at the number, and started_at tells the leases apart.
Claim(w, j) ==
  /\ exec[w] = {} /\ Claimable(row[j])
  /\ \E now \in Instants \ UsedInstants :
       LET counted == Min({row[j].attempts + 1, AttemptCap})
       IN  /\ row' = [row EXCEPT ![j] = [Claimed(@, now) EXCEPT !.attempts = counted]]
           /\ exec' = [exec EXCEPT ![w] = {[job |-> j, started |-> now, attempts |-> counted,
                                             outcome |-> "claimed"]}]
  /\ UNCHANGED <<order, settlement, case, refund>>

Returns(w, e, outcome) == exec' = [exec EXCEPT ![w] = {[e EXCEPT !.outcome = outcome]}]

\* _execute_provider_order_confirmation_timeout, auto_confirm_provider_order
ConfirmHandler(w, e) ==
  /\ e.job = "confirm" /\ e.outcome = "claimed"
  /\ IF order.status # "pending_confirmation"
     THEN Returns(w, e, "cancelled") /\ UNCHANGED <<order, settlement, row>>
     ELSE IF order.review
     THEN Returns(w, e, "cancelled") /\ row' = AllSuspended /\ UNCHANGED <<order, settlement>>
     ELSE IF order.deadline = "none"
     THEN Returns(w, e, "cancelled") /\ UNCHANGED <<order, settlement, row>>
     ELSE IF order.deadline = "ahead"
     THEN Returns(w, e, "pending") /\ UNCHANGED <<order, settlement, row>>
     ELSE /\ order' = [order EXCEPT !.status = "pending_review", !.confirmed = TRUE]
          /\ Ensured(row)
          /\ Returns(w, e, "succeeded")
  /\ UNCHANGED <<case, refund>>

\* advance_provider_order_settlement: what it makes of the settlement
Advanced ==
  IF HasOpenCase \/ Unresolved # {} THEN "dispute_frozen"
  ELSE IF Repaid(refund) >= Payable THEN "cancelled"
  ELSE IF ~settlement.thawed THEN "risk_frozen"
  ELSE "settled"


\* _execute_provider_order_settlement
SettleHandler(w, e) ==
  /\ e.job = "settle" /\ e.outcome = "claimed"
  /\ IF order.status = "terminated" \/ settlement.status \in {"absent", "settled", "cancelled"}
     THEN Returns(w, e, "cancelled") /\ UNCHANGED <<settlement, row>>
     ELSE IF order.review
     THEN Returns(w, e, "cancelled") /\ row' = AllSuspended /\ UNCHANGED settlement
     ELSE /\ settlement' = [settlement EXCEPT !.status = Advanced]
          /\ Returns(w, e, IF Advanced \in {"settled", "cancelled"} THEN "succeeded"
                           ELSE "pending")
          /\ UNCHANGED row
  /\ UNCHANGED <<order, case, refund>>

\* _finish_task
FinishTask(w, e) ==
  /\ e.outcome # "claimed"
  /\ row' = [row EXCEPT ![e.job] =
               IF LeaseCurrent(@, e.started, e.attempts) THEN Finished(@, e.outcome, FALSE) ELSE @]
  /\ exec' = [exec EXCEPT ![w] = {}]
  /\ UNCHANGED <<order, settlement, case, refund>>

\* The worker is killed.
Crash(w, e) ==
  /\ e.attempts < AttemptCap
  /\ exec' = [exec EXCEPT ![w] = {}]
  /\ UNCHANGED <<order, settlement, case, refund, row>>

\* synchronize_provider_order_tasks, every three minutes: a confirmation task
\* is registered when it does not exist, a settlement task also reopened.
SynchronizeProviderOrderTasks ==
  LET missing == /\ order.status = "pending_confirmation" /\ order.submitted
                 /\ row["confirm"].status \in {"absent", "pending"}
  IN  /\ ~order.review
      /\ \E d \in IF missing /\ order.deadline = "none" THEN {"ahead", "passed"}
                  ELSE {order.deadline} :
           /\ order' = [order EXCEPT !.deadline = d]
           /\ row' = [confirm |-> IF missing THEN Registered(row["confirm"], d = "passed")
                                  ELSE row["confirm"],
                      settle  |-> IF settlement.status = "risk_frozen"
                                     /\ row["settle"].status \notin {"pending", "running"}
                                  THEN Reopened(row["settle"], settlement.thawed)
                                  ELSE row["settle"]]
      /\ UNCHANGED <<settlement, case, refund, exec>>

-----------------------------------------------------------------------------

Work(w) ==
  \E e \in exec[w] : ConfirmHandler(w, e) \/ SettleHandler(w, e) \/ FinishTask(w, e)

Next ==
  \/ SubmitCompletion \/ ResolveFulfillmentReview \/ CustomerConfirms \/ ReviewOrder
  \/ \E c \in Cases :
       \/ CreateCase(c) \/ ApproveCase(c) \/ RejectCase(c)
       \/ ResolveTermination(c) \/ CompleteRefund(c)
  \/ DeadlinePasses \/ FreezeEnds
  \/ \E j \in OrderTasks : BecomeDue(j) \/ LeaseTimeout(j)
  \/ ReleaseStaleTasks \/ SynchronizeProviderOrderTasks
  \/ \E w \in Workers :
       \/ \E j \in OrderTasks : Claim(w, j)
       \/ \E e \in exec[w] : Crash(w, e)
       \/ Work(w)

Spec == Init /\ [][Next]_vars

\* Beat polls every ten seconds, clocks advance, a worker that is not killed
\* goes on.  Nobody is obliged to confirm, to review or to decide a case.
Fairness ==
  /\ WF_vars(DeadlinePasses) /\ WF_vars(FreezeEnds)
  /\ WF_vars(ReleaseStaleTasks) /\ WF_vars(SynchronizeProviderOrderTasks)
  /\ \A j \in OrderTasks :
       /\ WF_vars(BecomeDue(j)) /\ WF_vars(LeaseTimeout(j))
       /\ SF_vars(\E w \in Workers : Claim(w, j))
  /\ \A w \in Workers : WF_vars(Work(w))

LiveSpec == Spec /\ Fairness

-----------------------------------------------------------------------------
(* Properties *)

\* Income is settled only for an order that is confirmed and undisputed: no
\* open case, no refund under way, no fulfilment review, something left to pay.
SettledIsClean ==
  settlement.status = "settled" =>
    /\ order.confirmed /\ order.status \in {"pending_review", "completed"}
    /\ ~HasOpenCase /\ Unresolved = {} /\ ~order.review
    /\ Repaid(refund) < Payable

\* orders/termination.py, "Retained funds stay frozen for reconciliation": no
\* worker that was under way when the order was terminated confirms it or
\* settles what is left.
TerminatedStaysHeld ==
  order.status = "terminated" =>
    /\ ~order.confirmed
    /\ settlement.status \in {"absent", "dispute_frozen", "cancelled"}
    /\ (\A c \in Cases : case[c].status # "approved") => settlement.status # "absent"

\* While somebody disputes the order its settlement is frozen for the dispute.
DisputeFreezes == HasOpenCase => settlement.status \in {"absent", "dispute_frozen"}

\* Nothing the order has collected is returned twice or both returned and paid
\* out, and a full refund ends the settlement.
RefundsBounded ==
  /\ Reserved <= Payable
  /\ Repaid(refund) >= Payable =>
       /\ settlement.status \in {"absent", "cancelled"}
       /\ order.status \in {"refunded", "terminated"}

\* A settlement that is over stays over, and nothing is refunded after the
\* provider's income was settled.
SettlementFinal ==
  /\ settlement.status \in {"settled", "cancelled"} => settlement'.status = settlement.status
  /\ settlement.status = "settled" => refund' = refund /\ case' = case

\* A settlement that nothing holds back is settled, or disputed before, even if
\* its task was cancelled, reopened or lost with a worker in between.
Unhindered == settlement.status = "risk_frozen" /\ ~order.review
MovedOn == settlement.status # "risk_frozen"
SettlementAdvances == Unhindered ~> MovedOn

\* An order without a case is confirmed when its deadline has passed, even if
\* a fulfilment review or a killed worker interrupted the countdown.
Unconfirmed == order.status = "pending_confirmation" /\ ~order.review
ConfirmedOrDisputed ==
  order.status # "pending_confirmation" \/ \E c \in Cases : case[c].status # "none"
UndisputedIsConfirmed == Unconfirmed ~> ConfirmedOrDisputed

\* orders/views.py tells the customer: "if nothing is done in time, the system
\* confirms by the rules".
ConfirmedInTheEnd ==
  Unconfirmed ~>
    (order.status # "pending_confirmation" \/ order.review)
=============================================================================
