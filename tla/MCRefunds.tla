------------------------------ MODULE MCRefunds -------------------------------
(***************************************************************************)
(* Money going back: the execution of refunds at the channel               *)
(* (RefundExecution itself), refunds granted by the staff (StaffRefund),   *)
(* manual refunds after a payout (ManualRefund) and the recovery of stuck  *)
(* payments by the finance staff (FinanceRecovery), checked side by side:  *)
(* every behaviour is one of the component named by focus.  x1, x2, ...    *)
(* are the variables of the other components, which leave the execution at *)
(* rest.                                                                   *)
(***************************************************************************)
EXTENDS RefundExecution, TLC

CONSTANTS People, Receipts

VARIABLES
  focus,  \* the component this behaviour is of
  x1, x2, x3, x4, x5, x6  \* its variables; the ones it does not have are zero

slots == <<x1, x2, x3, x4, x5, x6>>
allVars == <<focus, vars, slots>>

\* Calls also stand for whatever the other components have two of: orders, cases.
S == INSTANCE StaffRefund WITH Orders <- Calls, Agents <- {"agent"}, Supervisors <- {"supervisor"},
     Sessions <- Receipts, Paid <- 3, Single <- 2, Daily <- 3, MaxRefunds <- 2, LastDay <- 2,
     cases <- x1, refunds <- x2, day <- x3, session <- x4
M == INSTANCE ManualRefund WITH Cases <- Calls, Staff <- People, Receipts <- Receipts, Paid <- 2,
     cases <- x1, automatic <- x2, distribution <- x3, seen <- x4
F == INSTANCE FinanceRecovery WITH Staff <- People, MaxRevision <- 3, MaxObservations <- 2,
     case <- x1, payment <- x2, pool <- x3, funds <- x4, seen <- x5, proc <- x6

ASSUME ComponentsAssumption ==
  /\ S!StaffRefundAssumption
  /\ M!ManualRefundAssumption
  /\ F!FinanceAssumption

-----------------------------------------------------------------------------
\* A state in which the execution rests while another component is in focus.
AtRest == Init /\ family = "provider" /\ external

InitAll ==
  \/ focus = "execution" /\ Init /\ x1 = 0 /\ x2 = 0 /\ x3 = 0 /\ x4 = 0 /\ x5 = 0 /\ x6 = 0
  \/ focus = "staff" /\ AtRest /\ S!Init /\ x5 = 0 /\ x6 = 0
  \/ focus = "manual" /\ AtRest /\ M!Init /\ x5 = 0 /\ x6 = 0
  \/ focus = "recovery" /\ AtRest /\ F!Init

NextAll ==
  \/ focus = "execution" /\ Next /\ UNCHANGED <<focus, slots>>
  \/ focus = "staff" /\ S!Next /\ UNCHANGED <<focus, vars, x5, x6>>
  \/ focus = "manual" /\ M!Next /\ UNCHANGED <<focus, vars, x5, x6>>
  \/ focus = "recovery" /\ F!Next /\ UNCHANGED <<focus, vars>>

SpecAll == InitAll /\ [][NextAll]_allVars

Symmetry == Permutations(People) \cup Permutations(Calls) \cup Permutations(Receipts)

-----------------------------------------------------------------------------
\* Staff: no agent passes the limit of a day or of one refund, refunds stay within the
\* payment, what is beyond an agent was decided by a supervisor, one refund is open at a time.
LimitsHold ==
  focus = "staff" =>
    /\ S!TypeOK /\ S!DailyLimitHolds /\ S!SingleLimitHolds /\ S!RefundsWithinPaid
    /\ S!EscalatedNeedsSupervisor /\ S!OneOpenRefund

\* Manual refunds: within the payment together with all other refunds, verified by someone
\* other than who paid, and no receipt serves two of them.
VerifiedIndependently ==
  focus = "manual" => M!TypeOK /\ M!WithinPayment /\ M!VerifiedIndependently /\ M!ReceiptsApart

\* What was proved stands: a refund that succeeded, a receipt, the kind of money that flows
\* back; a review decides on what the reviewer read; a hold of a payment is lifted only on
\* evidence of the present generation, and a recovery case is closed by someone other than who
\* observed it, under the lease of the closer.
RefundsStand ==
  [][/\ focus = "execution" => SucceededIsFinal
     /\ focus = "manual" => M!ReceiptsStand /\ M!OneKindOfMoney /\ M!ReviewedAsRead
     /\ focus = "recovery" =>
          F!LiftedOnEvidence /\ F!ClosedIndependently /\ F!OthersKeepTheirLease /\ F!ClosedUnderLease]_allVars
=============================================================================
