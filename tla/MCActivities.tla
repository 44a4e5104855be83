----------------------------- MODULE MCActivities -----------------------------
(***************************************************************************)
(* Activities and the tasks that drive them: the group that forms          *)
(* (ActivityGroup itself), the payments for taking part in an activity and *)
(* for publishing one (ActivityPayment, three times: two orders, one order *)
(* with two calls in flight, publishing), the settlement                   *)
(* (ActivitySettlement) and the registration of tasks (TaskSync, twice:    *)
(* payments, activities). The components are checked side by side: every   *)
(* behaviour is one of the component named by focus. x1, x2, ... are the   *)
(* variables of the other components, which leave the group at rest.       *)
(***************************************************************************)
EXTENDS ActivityGroup, TLC

CONSTANTS Workers

VARIABLES
  focus,  \* the component this behaviour is of
  x1, x2, x3, x4, x5, x6, x7, x8, x9  \* its variables; the ones it does not have are zero

slots == <<x1, x2, x3, x4, x5, x6, x7, x8, x9>>
allVars == <<focus, vars, slots>>

P == INSTANCE ActivityPayment WITH Kind <- "participation", Calls <- {"worker"}, MaxOrders <- 2,
     Payable <- 2, Shares <- {1}, seat <- x1, order <- x2, pay <- x3, alloc <- x4, refund <- x5,
     comp <- x6, notified <- x7, trade <- x8, call <- x9
O == INSTANCE ActivityPayment WITH Kind <- "participation", Calls <- Workers, MaxOrders <- 1,
     Payable <- 2, Shares <- {1}, seat <- x1, order <- x2, pay <- x3, alloc <- x4, refund <- x5,
     comp <- x6, notified <- x7, trade <- x8, call <- x9
Q == INSTANCE ActivityPayment WITH Kind <- "publish", Calls <- Workers, MaxOrders <- 2,
     Payable <- 2, Shares <- {1}, seat <- x1, order <- x2, pay <- x3, alloc <- x4, refund <- x5,
     comp <- x6, notified <- x7, trade <- x8, call <- x9
S == INSTANCE ActivitySettlement WITH Users <- Workers, Principal <- 2, Fee <- 1, MaxCases <- 1,
     time <- x1, completed <- x2, seat <- x3, refund <- x4, case <- x5, cases <- x6,
     settlement <- x7
T == INSTANCE TaskSync WITH Publish <- {1}, Participation <- {2}, Activities <- {}, Broken <- {},
     Batch <- 1, Runs <- Workers, MaxDeaths <- 1, phase <- x1, clock <- x2, row <- x3, run <- x4,
     deaths <- x5
U == INSTANCE TaskSync WITH Publish <- {}, Participation <- {}, Activities <- {1}, Broken <- {},
     Batch <- 1, Runs <- Workers, MaxDeaths <- 1, phase <- x1, clock <- x2, row <- x3, run <- x4,
     deaths <- x5

ASSUME ComponentsAssumption ==
  /\ P!ActivityPaymentAssumption
  /\ O!ActivityPaymentAssumption
  /\ Q!ActivityPaymentAssumption
  /\ S!SettlementAssumption
  /\ T!ThingsAssumption
  /\ U!ThingsAssumption

-----------------------------------------------------------------------------
InitAll ==
  /\ Init
  /\ \/ /\ focus = "group"
        /\ x1 = 0 /\ x2 = 0 /\ x3 = 0 /\ x4 = 0 /\ x5 = 0 /\ x6 = 0 /\ x7 = 0 /\ x8 = 0 /\ x9 = 0
     \/ focus = "participation" /\ P!Init
     \/ focus = "one_order" /\ O!Init
     \/ focus = "publication" /\ Q!Init
     \/ focus = "settlement" /\ S!Init /\ x8 = 0 /\ x9 = 0
     \/ focus = "payment_tasks" /\ T!Init /\ x6 = 0 /\ x7 = 0 /\ x8 = 0 /\ x9 = 0
     \/ focus = "activity_tasks" /\ U!Init /\ x6 = 0 /\ x7 = 0 /\ x8 = 0 /\ x9 = 0

NextAll ==
  \/ focus = "group" /\ Next /\ UNCHANGED <<focus, slots>>
  \/ focus = "participation" /\ P!Next /\ UNCHANGED <<focus, vars>>
  \/ focus = "one_order" /\ O!Next /\ UNCHANGED <<focus, vars>>
  \/ focus = "publication" /\ Q!Next /\ UNCHANGED <<focus, vars>>
  \/ focus = "settlement" /\ S!Next /\ UNCHANGED <<focus, vars, x8, x9>>
  \/ focus = "payment_tasks" /\ T!Next /\ UNCHANGED <<focus, vars, x6, x7, x8, x9>>
  \/ focus = "activity_tasks" /\ U!Next /\ UNCHANGED <<focus, vars, x6, x7, x8, x9>>

SpecAll == InitAll /\ [][NextAll]_allVars

Symmetry == Permutations(Users) \cup Permutations(Workers)

-----------------------------------------------------------------------------
\* Payments of activities: a seat is paid once, what is paid serves or goes back, refunds stay
\* within what was collected, money is held for open orders only, a closed order is followed up.
PaidServesOrReturns ==
  /\ focus = "participation" =>
       /\ P!TypeOK /\ P!SeatPaidOnce /\ P!PaidServesOrReturns /\ P!RefundsCovered
       /\ P!HeldOnlyForOpen /\ P!ClosedIsFollowed
  /\ focus = "one_order" =>
       /\ O!TypeOK /\ O!SeatPaidOnce /\ O!PaidServesOrReturns /\ O!RefundsCovered
       /\ O!HeldOnlyForOpen /\ O!ClosedIsFollowed
  /\ focus = "publication" =>
       /\ Q!SeatPaidOnce /\ Q!PaidServesOrReturns /\ Q!RefundsCovered /\ Q!HeldOnlyForOpen
       /\ Q!ClosedIsFollowed

\* Settlement of an activity: nothing is open when it settles, no principal is paid twice,
\* refunds are bounded by it, and a frozen settlement has a dispute behind it.
SettledIsQuiet ==
  focus = "settlement" =>
    /\ S!TypeOK /\ S!SettledIsQuiet /\ S!NothingPaidTwice /\ S!RefundsBounded
    /\ S!DisputeHasSource

\* What was decided stays decided: a settled payment, the end of a group, a settlement.
ActivitiesStand ==
  [][/\ focus = "participation" => P!SettledForward
     /\ focus = "one_order" => O!SettledForward
     /\ focus = "publication" => Q!SettledForward
     /\ focus = "group" => DecidedStays
     /\ focus = "settlement" => S!SettledIsFinal]_allVars

\* Registration: whatever needs a task has one, or a scan that will still register it.
NeverAbandoned ==
  /\ focus = "payment_tasks" => T!NeverAbandoned
  /\ focus = "activity_tasks" => U!NeverAbandoned
=============================================================================
