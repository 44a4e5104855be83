----------------------------- MODULE StaffRefund -----------------------------
(***************************************************************************)
(* Staff decisions on after-sales cases and their limits                   *)
(* (backoffice/refund_authorization.py, backoffice/services.py,            *)
(* backoffice/refund_views.py): intake, escalation to a supervisor,        *)
(* approval within the limit of an order and of a day, rejection.          *)
(* Provider orders and activity payment orders share the daily budget.     *)
(*                                                                         *)
(* An approval is one transaction that takes two locks one after the       *)
(* other: the order's (with its case) and then the approver's user row.    *)
(* Approvals of different orders overlap up to the second lock.            *)
(***************************************************************************)
EXTENDS Integers, Sequences, Functions, SequencesExt

CONSTANTS
  Orders,       \* paid orders of either family
  Agents,       \* staff with refund.approve
  Supervisors,  \* staff with refund.supervise
  Sessions,     \* requests in flight
  Paid,         \* payable_amount of an order
  Single,       \* support_refund_single_limit
  Daily,        \* support_refund_daily_limit
  MaxRefunds,   \* bound: refunds per order
  LastDay       \* bound: days

StaffRefundAssumption ==
  /\ Agents \cap Supervisors = {}
  /\ {Paid, Single, Daily, MaxRefunds, LastDay} \subseteq Nat

VARIABLES
  cases,    \* the latest after-sales case of each order
  refunds,  \* the refunds of each order, in the order of their creation
  day,      \* today in Asia/Shanghai
  session   \* approvals in flight

vars == <<cases, refunds, day, session>>

Staff == Agents \cup Supervisors

Nobody == "nobody"

Open == {"pending", "processing"}

CaseStatuses == Open \cup {"none", "approved", "refunded", "rejected"}

NoCase == [status |-> "none", requested |-> 0, escalated |-> FALSE, by |-> Nobody]

Idle == [stage |-> "idle"]

RefundRecords ==
  [amount: 1..Paid, operator: Staff, day: 1..LastDay, done: BOOLEAN]

TypeOK ==
  /\ cases \in [Orders -> [status: CaseStatuses, requested: 0..Paid, escalated: BOOLEAN,
                           by: Staff \cup {Nobody}]]
  /\ \A o \in Orders : Len(refunds[o]) <= MaxRefunds /\ \A i \in DOMAIN refunds[o] : refunds[o][i] \in RefundRecords
  /\ day \in 1..LastDay
  /\ session \in [Sessions -> {Idle} \cup
       [stage: {"authorize", "commit"}, order: Orders, actor: Staff, amount: 1..Paid, granted: BOOLEAN]]

Init ==
  /\ cases = [o \in Orders |-> NoCase]
  /\ refunds = [o \in Orders |-> <<>>]
  /\ day = 1
  /\ session = [s \in Sessions |-> Idle]

-----------------------------------------------------------------------------

Total(rs) == FoldSeq(LAMBDA r, n : r.amount + n, 0, rs)

\* Refunds that are created but not paid back yet, failed ones included.
Unresolved(o) == \E i \in DOMAIN refunds[o] : ~refunds[o][i].done

Remaining(o) == Paid - Total(refunds[o])

\* daily_usage: what the approver created today, over both families
DailyUsage(u) ==
  FoldFunctionOnSet(+, 0, [o \in Orders |->
    Total(SelectSeq(refunds[o], LAMBDA r : r.operator = u /\ r.day = day))], Orders)

Busy(s) == session[s] # Idle

\* The order's row lock is held from the first stage on.
OrderLocked(o) == \E s \in Sessions : Busy(s) /\ session[s].order = o

\* Mutant: authorize_approval does not lock the approver.
UserLocked_Never(u) == FALSE

\* The approver's row lock is held from authorisation to commit.
UserLocked(u) ==
  \E s \in Sessions : session[s].stage = "commit" /\ session[s].actor = u

-----------------------------------------------------------------------------

\* refund_context and create_provider_order_after_sales_case / StaffActivityRefundCreateView
Intake(o) ==
  /\ ~OrderLocked(o)
  /\ cases[o].status \notin Open \cup {"approved"}
  /\ ~Unresolved(o)
  /\ Len(refunds[o]) < MaxRefunds
  /\ \E n \in 1..Remaining(o) :
       cases' = [cases EXCEPT ![o] = [NoCase EXCEPT !.status = "pending", !.requested = n]]
  /\ UNCHANGED <<refunds, day, session>>

StartReview(o) ==
  /\ ~OrderLocked(o)
  /\ cases[o].status = "pending"
  /\ cases' = [cases EXCEPT ![o].status = "processing"]
  /\ UNCHANGED <<refunds, day, session>>

Escalated(o) == [cases EXCEPT ![o].escalated = TRUE]

Escalate(o) ==
  /\ ~OrderLocked(o)
  /\ cases[o].status \in Open
  /\ cases' = Escalated(o)
  /\ UNCHANGED <<refunds, day, session>>

\* require_supervisor_for_escalated
MayReject(o, u) == cases[o].escalated => u \in Supervisors

Reject(o, u) ==
  /\ ~OrderLocked(o)
  /\ MayReject(o, u)
  /\ cases[o].status \in Open
  /\ cases' = [cases EXCEPT ![o].status = "rejected", ![o].by = u]
  /\ UNCHANGED <<refunds, day, session>>

\* What an approval requires of case and order, under the order's lock.
Approvable(o, n) ==
  /\ cases[o].status \in Open
  /\ n <= cases[o].requested
  /\ n <= Remaining(o)
  /\ ~Unresolved(o)

BeginApproval(s, o, u) ==
  /\ ~Busy(s)
  /\ ~OrderLocked(o)
  /\ \E n \in 1..Paid :
       /\ Approvable(o, n)
       /\ session' = [session EXCEPT ![s] =
            [stage |-> "authorize", order |-> o, actor |-> u, amount |-> n, granted |-> FALSE]]
  /\ UNCHANGED <<cases, refunds, day>>

\* authorize_approval, after the lock
Granted(u, o, n) ==
  \/ u \in Supervisors
  \/ /\ ~cases[o].escalated
     /\ Single > 0 /\ Daily > 0
     /\ Total(refunds[o]) + n <= Single
     /\ DailyUsage(u) + n <= Daily

Authorize(s) ==
  /\ session[s].stage = "authorize"
  /\ ~UserLocked(session[s].actor)
  /\ session' = [session EXCEPT ![s].stage = "commit",
                                ![s].granted = Granted(session[s].actor, session[s].order, session[s].amount)]
  /\ UNCHANGED <<cases, refunds, day>>

\* Approved with its refund in one transaction, or only escalated.
Commit(s) ==
  /\ session[s].stage = "commit"
  /\ LET o == session[s].order
     IN IF session[s].granted
        THEN /\ cases' = [cases EXCEPT ![o].status = "approved", ![o].by = session[s].actor]
             /\ refunds' = [refunds EXCEPT ![o] = Append(@,
                  [amount |-> session[s].amount, operator |-> session[s].actor, day |-> day, done |-> FALSE])]
        ELSE cases' = Escalated(o) /\ UNCHANGED refunds
  /\ session' = [session EXCEPT ![s] = Idle]
  /\ UNCHANGED day

\* The transaction rolls back.
Abort(s) ==
  /\ Busy(s)
  /\ session' = [session EXCEPT ![s] = Idle]
  /\ UNCHANGED <<cases, refunds, day>>

\* The refund is paid back (RefundExecution); until then it stays unresolved.
RefundSucceeds(o) ==
  /\ ~OrderLocked(o)
  /\ \E i \in DOMAIN refunds[o] :
       /\ ~refunds[o][i].done
       /\ refunds' = [refunds EXCEPT ![o][i].done = TRUE]
  /\ cases' = [cases EXCEPT ![o].status = "refunded"]
  /\ UNCHANGED <<day, session>>

NextDay ==
  /\ day < LastDay
  /\ day' = day + 1
  /\ UNCHANGED <<cases, refunds, session>>

Next ==
  \/ \E o \in Orders :
       \/ Intake(o) \/ StartReview(o) \/ Escalate(o) \/ RefundSucceeds(o)
       \/ \E u \in Staff : Reject(o, u) \/ \E s \in Sessions : BeginApproval(s, o, u)
  \/ \E s \in Sessions : Authorize(s) \/ Commit(s) \/ Abort(s)
  \/ NextDay

Spec == Init /\ [][Next]_vars

-----------------------------------------------------------------------------
(* Properties *)

\* An agent never creates more than the daily limit in refunds a day, over all
\* orders of both families and all of the agent's sessions; refunds that fail or
\* hang keep counting.
DailyLimitHolds ==
  \A u \in Agents, d \in 1..LastDay :
    FoldFunctionOnSet(+, 0, [o \in Orders |->
      Total(SelectSeq(refunds[o], LAMBDA r : r.operator = u /\ r.day = d))], Orders) <= Daily

\* No split of a refund over several cases or agents takes an order past its
\* limit without a supervisor.
SingleLimitHolds ==
  \A o \in Orders : \A i \in DOMAIN refunds[o] :
    refunds[o][i].operator \in Agents => Total(SubSeq(refunds[o], 1, i)) <= Single

\* The refunds of an order never exceed what was paid for it.
RefundsWithinPaid == \A o \in Orders : Total(refunds[o]) <= Paid

\* A case that was escalated, before or during its review, is decided by a supervisor.
EscalatedNeedsSupervisor ==
  \A o \in Orders : cases[o].escalated /\ cases[o].by # Nobody => cases[o].by \in Supervisors

\* An order has at most one refund that is not paid back, and then its case is approved.
OneOpenRefund ==
  \A o \in Orders : \A i \in DOMAIN refunds[o] :
    ~refunds[o][i].done => i = Len(refunds[o]) /\ cases[o].status = "approved"

=============================================================================
