-------------------------- MODULE ActivitySettlement --------------------------
(***************************************************************************)
(* After-sales and the settlement of one activity (activities/services.py  *)
(* from create_activity_after_sales_case on, the reviews of                *)
(* backoffice/services.py): who gets the money of the participants once    *)
(* the activity is completed.  Every participant has paid; before the      *)
(* start one may cancel, which keeps a part for the organizer, and until   *)
(* the settlement one may ask for after-sales.  Every operation locks the  *)
(* activity or its settlement; the gateway refunds on its own time and may *)
(* refuse.                                                                 *)
(***************************************************************************)
EXTENDS Integers, FiniteSetsExt

CONSTANTS
  Users,       \* participants
  Principal,   \* aa_principal_amount of everyone, the organizer included
  Fee,         \* platform_service_fee_amount of a participant
  MaxCases     \* after-sales cases one participant opens

SettlementAssumption ==
  Principal \in Nat \ {0} /\ Fee \in Nat /\ MaxCases \in Nat

VARIABLES
  time,        \* 0 before the start, 1 ended, 2 confirmation_deadline, 3 freeze_until
  completed,   \* the activity is COMPLETED
  seat,        \* "active" or "cancelled"
  refund,      \* refunds of a participant: the cancellation's, the after-sales one
  case,        \* the participant's latest after-sales case
  cases,       \* how many it has opened
  settlement   \* activity_settlement: status, dispute_source, settlement_amount, unallocated

vars == <<time, completed, seat, refund, case, cases, settlement>>

Keys == {"cancel", "sales"}

RefundStatuses == {"absent", "pending", "failed", "succeeded"}

NoRefund == [status |-> "absent", principal |-> 0, fee |-> 0, retained |-> 0]

NoSettlement == [status |-> "none", source |-> "", amount |-> 0, unallocated |-> 0]

Total == Principal * (Cardinality(Users) + 1)

TypeOK ==
  /\ time \in 0..3 /\ completed \in BOOLEAN
  /\ seat \in [Users -> {"active", "cancelled"}]
  /\ refund \in [Users -> [Keys -> [status: RefundStatuses, principal: 0..Principal,
                                    fee: 0..Fee, retained: 0..Principal]]]
  /\ case \in [Users -> {"none", "pending", "processing", "approved", "rejected"}]
  /\ cases \in [Users -> 0..MaxCases]
  /\ settlement \in [status: {"none", "confirming", "risk_frozen", "dispute_frozen", "settled"},
                     source: {"", "admin", "after_sales"},
                     amount: 0..Total, unallocated: 0..Total]

Init ==
  /\ time = 0 /\ completed = FALSE
  /\ seat = [u \in Users |-> "active"]
  /\ refund = [u \in Users |-> [k \in Keys |-> NoRefund]]
  /\ case = [u \in Users |-> "none"]
  /\ cases = [u \in Users |-> 0]
  /\ settlement = NoSettlement

-----------------------------------------------------------------------------
(* Amounts *)

Sum(f(_), S) == MapThenSumSet(f, S)

\* _reserved_refund_totals: refunds in every status keep their amount
ReservedPrincipal(u) == Sum(LAMBDA k : refund[u][k].principal, Keys)

ReservedFee(u) == Sum(LAMBDA k : refund[u][k].fee, Keys)

\* _succeeded_refund_totals
Succeeded(r, u) == {k \in Keys : r[u][k].status = "succeeded"}

Net(r, u) == Principal - Sum(LAMBDA k : r[u][k].principal, Succeeded(r, u))

\* What the succeeded refunds of a cancelled participant leave to the organizer
RetainedOf(r, u) ==
  LET declared == Sum(LAMBDA k : r[u][k].retained, Succeeded(r, u))
  IN  IF Net(r, u) <= declared THEN Net(r, u) ELSE declared

\* calculate_activity_settlement_amounts and _apply_settlement_calculation
Calculated(st, s, r) ==
  LET gone == {u \in Users : s[u] = "cancelled"}
  IN  [st EXCEPT
        !.amount = Principal + Sum(LAMBDA u : Net(r, u), Users \ gone)
                             + Sum(LAMBDA u : RetainedOf(r, u), gone),
        !.unallocated = Sum(LAMBDA u : Net(r, u) - RetainedOf(r, u), gone)]

\* _has_open_activity_after_sales: an approved case stays open until its refund
\* has succeeded.
OpenCase(c, r, u) ==
  \/ c[u] \in {"pending", "processing"}
  \/ c[u] = "approved" /\ r[u]["sales"].status # "succeeded"

\* Mutant: an approved case counts as closed.
HasOpenCase_NotApproved(c, r) == \E u \in Users : c[u] \in {"pending", "processing"}

HasOpenCase(c, r) == \E u \in Users : OpenCase(c, r, u)

\* PAID or PARTIALLY_REFUNDED
Refundable(u) ==
  Net(refund, u) + Fee > Sum(LAMBDA k : refund[u][k].fee, Succeeded(refund, u))

-----------------------------------------------------------------------------
(* The settlement's own steps *)

\* The status a settlement returns to when its dispute is over
Resumed == IF time < 2 THEN "confirming" ELSE "risk_frozen"

\* ensure_activity_settlement
Ensured(c, s, r) ==
  IF settlement.status = "settled" THEN settlement
  ELSE IF settlement.status # "none" THEN Calculated(settlement, s, r)
  ELSE Calculated([NoSettlement EXCEPT
                     !.status = IF HasOpenCase(c, r) THEN "dispute_frozen" ELSE "confirming",
                     !.source = IF HasOpenCase(c, r) THEN "after_sales" ELSE ""], s, r)

\* freeze_activity_settlement_for_after_sales
Frozen(c) ==
  LET st == IF completed THEN Ensured(c, seat, refund) ELSE settlement
  IN  IF st.status = "none" \/ st.source = "admin" THEN st
      ELSE [st EXCEPT !.status = "dispute_frozen", !.source = "after_sales"]

\* release_activity_settlement_after_sales
Released(c, s, r) ==
  IF \/ settlement.status \in {"none", "settled"}
     \/ settlement.source # "after_sales" \/ HasOpenCase(c, r)
  THEN settlement
  ELSE [Calculated(settlement, s, r) EXCEPT !.status = Resumed, !.source = ""]

\* advance_activity_settlement
Advanced(st) ==
  LET calm == IF st.source = "after_sales" THEN [st EXCEPT !.status = Resumed, !.source = ""]
              ELSE st
      now == Calculated(calm, seat, refund)
      confirmed == IF now.status = "confirming" /\ time >= 2 THEN "risk_frozen" ELSE now.status
  IN  IF st.status = "settled" THEN st
      ELSE IF HasOpenCase(case, refund)
      THEN IF st.source = "admin" THEN st
           ELSE [st EXCEPT !.status = "dispute_frozen", !.source = "after_sales"]
      ELSE IF st.source = "admin" THEN st
      ELSE [now EXCEPT !.status =
              IF confirmed = "risk_frozen" /\ time >= 3 THEN "settled" ELSE confirmed]

-----------------------------------------------------------------------------
(* Participants *)

\* cancel_activity_participation with the refund rules' percentages: nothing to
\* refund is a refund that has succeeded.
Cancel(u) ==
  /\ time = 0 /\ seat[u] = "active" /\ ~OpenCase(case, refund, u)
  /\ \E p \in 0..Principal, f \in {0, Fee} :
       refund' = [refund EXCEPT ![u]["cancel"] =
         [status |-> IF p + f = 0 THEN "succeeded" ELSE "pending",
          principal |-> p, fee |-> f, retained |-> Principal - p]]
  /\ seat' = [seat EXCEPT ![u] = "cancelled"]
  /\ UNCHANGED <<time, completed, case, cases, settlement>>

\* create_activity_after_sales_case; a further case after a refunded one is left out
CreateCase(u) ==
  /\ ~OpenCase(case, refund, u) /\ case[u] # "approved" /\ cases[u] < MaxCases
  /\ settlement.status # "settled" /\ Refundable(u)
  /\ ReservedPrincipal(u) + ReservedFee(u) < Principal + Fee
  /\ case' = [case EXCEPT ![u] = "pending"]
  /\ cases' = [cases EXCEPT ![u] = @ + 1]
  /\ settlement' = Frozen(case')
  /\ UNCHANGED <<time, completed, seat, refund>>

-----------------------------------------------------------------------------
(* review_activity_after_sales_case *)

StartReview(u) ==
  /\ case[u] = "pending"
  /\ case' = [case EXCEPT ![u] = "processing"]
  /\ UNCHANGED <<time, completed, seat, refund, cases, settlement>>

RejectCase(u) ==
  /\ case[u] \in {"pending", "processing"}
  /\ case' = [case EXCEPT ![u] = "rejected"]
  /\ settlement' = Released(case', seat, refund)
  /\ UNCHANGED <<time, completed, seat, refund, cases>>

\* What may be approved: no refund of the order is undecided, and each part is
\* within what is left.
Approvable(u, p, f) ==
  /\ p + f > 0
  /\ p <= Principal - ReservedPrincipal(u) /\ f <= Fee - ReservedFee(u)
  /\ \A k \in Keys : refund[u][k].status \in {"absent", "succeeded"}

ApproveCase(u) ==
  /\ case[u] \in {"pending", "processing"} /\ settlement.status # "settled"
  /\ \E p \in 0..Principal, f \in {0, Fee} :
       /\ Approvable(u, p, f)
       /\ refund' = [refund EXCEPT ![u]["sales"] =
                       [status |-> "pending", principal |-> p, fee |-> f, retained |-> 0]]
  /\ case' = [case EXCEPT ![u] = "approved"]
  /\ seat' = [seat EXCEPT ![u] = "cancelled"]
  /\ settlement' = Released(case', seat', refund')
  /\ UNCHANGED <<time, completed, cases>>

-----------------------------------------------------------------------------
(* Refunds *)

\* complete_activity_participation_refund
RefundSucceeds(u, k) ==
  /\ refund[u][k].status = "pending"
  /\ refund' = [refund EXCEPT ![u][k].status = "succeeded"]
  /\ settlement' = IF k = "sales" THEN Released(case, seat, refund') ELSE settlement
  /\ UNCHANGED <<time, completed, seat, case, cases>>

RefundFails(u, k) ==
  /\ refund[u][k].status = "pending"
  /\ refund' = [refund EXCEPT ![u][k].status = "failed"]
  /\ UNCHANGED <<time, completed, seat, case, cases, settlement>>

\* A failed refund is taken up again by hand.
RetryRefund(u, k) ==
  /\ refund[u][k].status = "failed"
  /\ refund' = [refund EXCEPT ![u][k].status = "pending"]
  /\ UNCHANGED <<time, completed, seat, case, cases, settlement>>

-----------------------------------------------------------------------------
(* Completion, the settlement task, and the back office *)

Complete ==
  /\ time >= 1 /\ ~completed
  /\ completed' = TRUE
  /\ settlement' = Ensured(case, seat, refund)
  /\ UNCHANGED <<time, seat, refund, case, cases>>

\* _execute_activity_settlement, and review_activity_settlement's advance
Advance ==
  /\ settlement.status \notin {"none", "settled"}
  /\ settlement' = Advanced(settlement)
  /\ UNCHANGED <<time, completed, seat, refund, case, cases>>

AdminFreeze ==
  /\ settlement.status \notin {"none", "settled"}
  /\ settlement' = [settlement EXCEPT !.status = "dispute_frozen", !.source = "admin"]
  /\ UNCHANGED <<time, completed, seat, refund, case, cases>>

\* review_activity_settlement, release_dispute: only undecided cases stop it, and
\* the settlement is advanced at once.
AdminRelease ==
  /\ settlement.source = "admin"
  /\ \A u \in Users : case[u] \notin {"pending", "processing"}
  /\ settlement' = Advanced([settlement EXCEPT !.status = Resumed, !.source = ""])
  /\ UNCHANGED <<time, completed, seat, refund, case, cases>>

Tick ==
  /\ time < 3 /\ time' = time + 1
  /\ UNCHANGED <<completed, seat, refund, case, cases, settlement>>

Next ==
  \/ \E u \in Users :
       \/ Cancel(u) \/ CreateCase(u) \/ StartReview(u) \/ RejectCase(u) \/ ApproveCase(u)
       \/ \E k \in Keys : RefundSucceeds(u, k) \/ RefundFails(u, k) \/ RetryRefund(u, k)
  \/ Complete \/ Advance \/ AdminFreeze \/ AdminRelease \/ Tick

Spec == Init /\ [][Next]_vars

\* Time passes and tasks run; staff decides every case, retries every failed
\* refund, releases its own freezes and stops freezing; the gateway does not
\* refuse for ever.
Fairness ==
  /\ WF_vars(Tick) /\ WF_vars(Complete) /\ WF_vars(Advance) /\ SF_vars(AdminRelease)
  /\ \A u \in Users :
       /\ WF_vars(RejectCase(u) \/ ApproveCase(u))
       /\ \A k \in Keys : SF_vars(RefundSucceeds(u, k)) /\ WF_vars(RetryRefund(u, k))
  /\ <>[][~AdminFreeze]_vars

LiveSpec == Spec /\ Fairness

-----------------------------------------------------------------------------
(* Properties *)

\* Money is settled only when no case is open: none undecided, and none approved
\* whose refund has not arrived.
SettledIsQuiet == settlement.status = "settled" =>
  \A u \in Users : ~OpenCase(case, refund, u)

\* The organizer is never credited with money that goes back to a participant,
\* even when that refund is still under way or failed at the settlement.
NothingPaidTwice ==
  settlement.status = "settled" =>
    settlement.amount + Sum(LAMBDA u : ReservedPrincipal(u), Users) <= Total

\* The refunds of one participant never exceed what it paid, in either part.
RefundsBounded ==
  \A u \in Users : ReservedPrincipal(u) <= Principal /\ ReservedFee(u) <= Fee

\* A settlement is disputed exactly while somebody answers for the dispute, and
\* an open case never leaves a settlement running towards its payout.
DisputeHasSource ==
  /\ settlement.status = "dispute_frozen" <=> settlement.source # ""
  /\ settlement.status \in {"confirming", "risk_frozen"} =>
       \A u \in Users : ~OpenCase(case, refund, u)

\* What is settled stays as it is, and nothing is refunded from it any more.
SettledIsFinal ==
  settlement.status = "settled" =>
    /\ settlement' = settlement
    /\ \A u \in Users, k \in Keys :
         refund[u][k].status = "absent" => refund'[u][k].status = "absent"

\* With cases decided and refunds retried the money of a completed activity is
\* settled in the end.
Settled == settlement.status = "settled"
EventuallySettled == completed ~> Settled

\* activities/models.py, retained_participant_principal_amount: "取消参与者归发起人本金
\* （分）", the principal of cancelled participants that belongs to the organizer.
OrganizerGetsRetained ==
  settlement.status = "settled" =>
    settlement.amount >= Principal
      + Sum(LAMBDA u : refund[u]["cancel"].retained - refund[u]["sales"].principal,
            {u \in Users : refund[u]["cancel"].status # "absent"})
=============================================================================
