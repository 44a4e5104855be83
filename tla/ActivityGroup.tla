---------------------------- MODULE ActivityGroup ----------------------------
(***************************************************************************)
(* The life of one activity and its participants (activities/services.py,  *)
(* backoffice/services.py, the lifecycle tasks of taskcenter/services.py): *)
(* review, joining within the capacity, formation, start, completion, and  *)
(* the three ways to end it early.                                         *)
(*                                                                         *)
(* Every operation locks the activity's row, so each is one action.  What  *)
(* is not under that lock is the gateway: a participant may have paid in   *)
(* time while the payment is recorded later (see ActivityPayment).         *)
(***************************************************************************)
EXTENDS Integers, FiniteSets

CONSTANTS
  Users,     \* those who may join
  Capacity,  \* activity.capacity
  Minimum,   \* activity.min_participants
  MaxJoins   \* how often one user orders a seat

ASSUME GroupAssumption ==
  /\ IsFiniteSet(Users)
  /\ Capacity \in Nat \ {0} /\ Minimum \in 1..Capacity /\ MaxJoins \in Nat

VARIABLES
  status,    \* activity.status
  time,      \* how far the clock is: open, deadline, start, end
  publish,   \* the publish order: paid, or with its refund registered
  seat,      \* activity_participation.status by user
  order,     \* the user's latest payment order
  lapsed,    \* its expires_at has passed
  charge,    \* what the gateway collected for it, not yet recorded
  joins,     \* orders the user has created
  settled    \* ensure_activity_settlement has run

vars == <<status, time, publish, seat, order, lapsed, charge, joins, settled>>

members == <<seat, order, lapsed, charge, joins>>

Open == {"recruiting", "formed"}

Over == {"rejected", "cancelled", "failed_to_form"}

Statuses == Open \cup Over \cup {"pending_review", "in_progress", "completed"}

TypeOK ==
  /\ status \in Statuses /\ time \in 0..3
  /\ publish \in {"paid", "refunded"} /\ settled \in BOOLEAN
  /\ seat \in [Users -> {"none", "pending", "active", "expired", "cancelled"}]
  /\ order \in [Users -> {"none", "pending", "closed", "paid", "refunded"}]
  /\ lapsed \in [Users -> BOOLEAN]
  /\ charge \in [Users -> {"no", "in_time", "late"}]
  /\ joins \in [Users -> 0..MaxJoins]

Init ==
  /\ status = "pending_review" /\ time = 0 /\ publish = "paid" /\ settled = FALSE
  /\ seat = [u \in Users |-> "none"]
  /\ order = [u \in Users |-> "none"]
  /\ lapsed = [u \in Users |-> FALSE]
  /\ charge = [u \in Users |-> "no"]
  /\ joins = [u \in Users |-> 0]

DeadlinePassed == time >= 1

\* _active_count
Active(s) == {u \in Users : s[u] = "active"}

\* _occupied_count
Occupied(s) == Active(s) \cup {u \in Users : s[u] = "pending" /\ ~lapsed[u]}

\* Mutant: an activity that lost a participant stays formed.
Formation_OnlyUp(s) ==
  IF status \in Open /\ Cardinality(Active(s)) >= Minimum THEN "formed" ELSE status

\* Mutant: the deadline is not looked at when a participant leaves.
Formation_AfterDeadline(s) ==
  IF status \notin Open THEN status
  ELSE IF Cardinality(Active(s)) >= Minimum THEN "formed" ELSE "recruiting"

\* sync_activity_formation_status
Formation(s) ==
  IF status \notin Open THEN status
  ELSE IF Cardinality(Active(s)) >= Minimum THEN "formed"
  ELSE IF status = "formed" /\ ~DeadlinePassed THEN "recruiting" ELSE status

-----------------------------------------------------------------------------
(* Review *)

\* review_activity: approval needs the dates to be in the future
Approve ==
  /\ status = "pending_review" /\ publish = "paid" /\ ~DeadlinePassed
  /\ status' = "recruiting"
  /\ UNCHANGED <<time, publish, members, settled>>

Reject ==
  /\ status = "pending_review" /\ publish = "paid"
  /\ status' = "rejected" /\ publish' = "refunded"
  /\ UNCHANGED <<time, members, settled>>

-----------------------------------------------------------------------------
(* Joining *)

\* Orders whose time is over, of whichever participant
Lapsed == {u \in Users : order[u] = "pending" /\ lapsed[u]}

CloseOf(S) == [u \in Users |-> IF u \in S THEN "closed" ELSE order[u]]

ExpireOf(S) == [u \in Users |-> IF u \in S /\ seat[u] = "pending" THEN "expired" ELSE seat[u]]

\* get_or_create_participation_order: lapsed orders of the whole activity are
\* closed before the seats are counted.
Join(u) ==
  LET s == ExpireOf(Lapsed)
      o == CloseOf(Lapsed)
  IN  /\ status \in Open /\ ~DeadlinePassed
      /\ s[u] # "active" /\ o[u] # "pending"
      /\ Cardinality(Occupied(s)) < Capacity
      /\ joins[u] < MaxJoins
      /\ seat' = [s EXCEPT ![u] = "pending"]
      /\ order' = [o EXCEPT ![u] = "pending"]
      /\ lapsed' = [lapsed EXCEPT ![u] = FALSE]
      /\ charge' = [charge EXCEPT ![u] = "no"]
      /\ joins' = [joins EXCEPT ![u] = @ + 1]
      /\ UNCHANGED <<status, time, publish, settled>>

\* The gateway collects the money; nothing is recorded yet.
Charge(u) ==
  /\ order[u] \in {"pending", "closed"} /\ charge[u] = "no"
  /\ charge' = [charge EXCEPT ![u] = IF lapsed[u] THEN "late" ELSE "in_time"]
  /\ UNCHANGED <<status, time, publish, seat, order, lapsed, joins, settled>>

\* _apply_participation_payment_success: too late is recorded and refunded,
\* otherwise the seat is active and the formation follows.
Record(u) ==
  LET late == order[u] = "closed" \/ charge[u] = "late" \/ seat[u] \in {"cancelled", "expired"}
  IN  /\ order[u] \in {"pending", "closed"} /\ charge[u] # "no"
      /\ order' = [order EXCEPT ![u] = IF late THEN "refunded" ELSE "paid"]
      /\ seat' = IF late THEN seat ELSE [seat EXCEPT ![u] = "active"]
      /\ status' = IF late THEN status ELSE Formation(seat')
      /\ UNCHANGED <<time, publish, lapsed, charge, joins, settled>>

\* The expiry task of the order, and expire_pending_participation_orders for all
\* of them; both pass over an order that is paid.
Expire(u) ==
  /\ u \in Lapsed
  /\ order' = CloseOf({u}) /\ seat' = ExpireOf({u})
  /\ UNCHANGED <<status, time, publish, lapsed, charge, joins, settled>>

\* cancel_activity_participation; once the activity has started only after-sales
\* is left.
Leave(u) ==
  /\ \/ /\ seat[u] = "pending"
        /\ order' = IF order[u] = "pending" THEN CloseOf({u}) ELSE order
     \/ /\ seat[u] = "active" /\ time < 2
        /\ order' = [order EXCEPT ![u] = "refunded"]
  /\ seat' = [seat EXCEPT ![u] = "cancelled"]
  /\ status' = IF seat[u] = "active" THEN Formation(seat') ELSE status
  /\ UNCHANGED <<time, publish, lapsed, charge, joins, settled>>

\* review_activity_after_sales_case, approve
ApproveAfterSales(u) ==
  /\ seat[u] = "active" /\ order[u] = "paid" /\ status # "pending_review"
  /\ order' = [order EXCEPT ![u] = "refunded"]
  /\ seat' = [seat EXCEPT ![u] = "cancelled"]
  /\ status' = Formation(seat')
  /\ UNCHANGED <<time, publish, lapsed, charge, joins, settled>>

-----------------------------------------------------------------------------
(* Ending the activity early *)

Members == {u \in Users : seat[u] \in {"pending", "active"}}

\* refund_all_activity_participations
RefundAll ==
  /\ \A u \in Active(seat) : order[u] = "paid"
  /\ seat' = [u \in Users |-> IF u \in Members THEN "cancelled" ELSE seat[u]]
  /\ order' = [u \in Users |->
                 IF seat[u] = "active" THEN "refunded"
                 ELSE IF seat[u] = "pending" /\ order[u] = "pending" THEN "closed" ELSE order[u]]

\* cancel_activity_by_organizer
CancelByOrganizer ==
  /\ status \in Open /\ time < 2 /\ publish = "paid"
  /\ RefundAll
  /\ publish' = "refunded" /\ status' = "cancelled"
  /\ UNCHANGED <<time, lapsed, charge, joins, settled>>

\* cancel_activity_by_admin has no limit in time.
CancelByAdmin ==
  /\ status \in Open /\ publish = "paid"
  /\ RefundAll
  /\ publish' = "refunded" /\ status' = "cancelled"
  /\ UNCHANGED <<time, lapsed, charge, joins, settled>>

-----------------------------------------------------------------------------
(* The lifecycle tasks *)

Unformed == status = "recruiting" /\ DeadlinePassed

\* fail_unformed_activity
FailUnformed ==
  IF Cardinality(Active(seat)) >= Minimum
  THEN status' = "formed" /\ UNCHANGED <<publish, members>>
  ELSE /\ publish = "paid" /\ RefundAll
       /\ publish' = "refunded" /\ status' = "failed_to_form"
       /\ UNCHANGED <<lapsed, charge, joins>>

\* _execute_activity_formation_deadline
FormationTask ==
  /\ Unformed /\ FailUnformed
  /\ UNCHANGED <<time, settled>>

\* _execute_activity_start resolves the formation first if that task is behind.
StartTask ==
  /\ time >= 2
  /\ \/ Unformed /\ FailUnformed
     \/ status = "formed" /\ status' = "in_progress" /\ UNCHANGED <<publish, members>>
  /\ UNCHANGED <<time, settled>>

\* _execute_activity_completion: formation, start, completion, and the settlement
CompletionTask ==
  /\ time = 3
  /\ \/ Unformed /\ FailUnformed /\ UNCHANGED settled
     \/ /\ status \in {"formed", "in_progress"} \/ (status = "completed" /\ ~settled)
        /\ status' = "completed" /\ settled' = TRUE
        /\ UNCHANGED <<publish, members>>
  /\ UNCHANGED time

\* process_activity_timeouts completes and settles in two transactions.
CompleteStarted ==
  /\ time = 3 /\ status = "in_progress"
  /\ status' = "completed"
  /\ UNCHANGED <<time, publish, members, settled>>

-----------------------------------------------------------------------------
(* Time *)

\* The deadlines of the activity, in the order Activity.clean asks for
Tick ==
  /\ time < 3 /\ time' = time + 1
  /\ UNCHANGED <<status, publish, members, settled>>

Lapse(u) ==
  /\ order[u] # "none" /\ ~lapsed[u]
  /\ lapsed' = [lapsed EXCEPT ![u] = TRUE]
  /\ UNCHANGED <<status, time, publish, seat, order, charge, joins, settled>>

Tasks == FormationTask \/ StartTask \/ CompletionTask

Next ==
  \/ Approve \/ Reject \/ CancelByOrganizer \/ CancelByAdmin
  \/ Tasks \/ CompleteStarted \/ Tick
  \/ \E u \in Users :
       \/ Join(u) \/ Charge(u) \/ Record(u) \/ Expire(u)
       \/ Leave(u) \/ ApproveAfterSales(u) \/ Lapse(u)

Spec == Init /\ [][Next]_vars

\* The review ends, time passes, and the task centre runs what is due.
Fairness ==
  /\ WF_vars(Approve \/ Reject) /\ WF_vars(Tick)
  /\ WF_vars(FormationTask) /\ WF_vars(StartTask) /\ WF_vars(CompletionTask)

LiveSpec == Spec /\ Fairness

-----------------------------------------------------------------------------
(* Properties *)

\* There are never more active participants than seats, although a seat that
\* nobody paid in time is offered again while its payment may still arrive.
ActiveWithinCapacity == Cardinality(Active(seat)) <= Capacity

\* When an activity is rejected, cancelled or not formed nobody stays in it: the
\* publish fee and every payment recorded for it are refunded, and what the
\* gateway still reports can only be refunded, never take a seat.
OverLeavesNobody ==
  status \in Over =>
    /\ publish = "refunded" /\ Members = {}
    /\ \A u \in Users : order[u] \notin {"paid", "pending"}

\* An active participant has exactly a paid, unrefunded order, and nobody else has.
ActiveIsPaid == \A u \in Users : seat[u] = "active" <=> order[u] = "paid"

\* Until the deadline "formed" says that enough participants are active now; an
\* activity that waits for participants never has enough.
FormationInSync ==
  /\ status = "formed" /\ ~DeadlinePassed => Cardinality(Active(seat)) >= Minimum
  /\ status = "recruiting" => Cardinality(Active(seat)) < Minimum

\* The group as a whole: seats are never oversold, an activity that is over holds nobody and
\* nobody's money, the active participants are the ones who paid, and the formation shown is
\* the one they make.
GroupInSync ==
  TypeOK /\ ActiveWithinCapacity /\ OverLeavesNobody /\ ActiveIsPaid /\ FormationInSync

\* The decision taken at the deadline is final, and so is every end.
DecidedStays ==
  /\ DeadlinePassed /\ status = "formed" => status' # "recruiting"
  /\ status \in Over \cup {"completed"} => status' = status
  /\ status = "in_progress" => status' \in {"in_progress", "completed"}

\* Every published activity comes to an end, whichever of its tasks runs first:
\* it is settled, or cancelled or failed with everybody refunded.
Recruiting == status = "recruiting"
Ended == status \in Over \/ settled
ActivityEnds == Recruiting ~> Ended
=============================================================================
