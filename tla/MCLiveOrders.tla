----------------------------- MODULE MCLiveOrders -----------------------------
(***************************************************************************)
(* Liveness of the components that carry something through: the completion *)
(* of a provider order (Settlement), its watchdogs (Fulfilment), an        *)
(* activity (ActivityGroup) and its settlement (ActivitySettlement), the   *)
(* task centre (TaskCenter) and the registration of its rows (TaskSync),   *)
(* the review of contents (Moderation), the verification of a name         *)
(* (ProviderIdentity) and the closure of an account (AccountClosure). The  *)
(* components are checked side by side: every behaviour is one of the      *)
(* component named by focus, and the variables x1, x2, ... are that        *)
(* component's. Each promise is checked under the fairness its own         *)
(* component justifies.                                                    *)
(***************************************************************************)
EXTENDS TLC

CONSTANTS NoInstant, Instants, Early, Workers, None, Typed

VARIABLES
  focus,  \* the component this behaviour is of
  x1, x2, x3, x4, x5, x6, x7, x8, x9, x10  \* its variables; the ones it does not have are zero

slots == <<x1, x2, x3, x4, x5, x6, x7, x8, x9, x10>>
vars == <<focus, slots>>

S == INSTANCE Settlement WITH Instants <- Early, NoInstant <- NoInstant, MaxAttempts <- 2,
     Cases <- {"case"}, Payable <- 2, Workers <- {"worker"}, AttemptCap <- 2, order <- x1,
     settlement <- x2, case <- x3, refund <- x4, row <- x5, exec <- x6
F == INSTANCE Fulfilment WITH Cases <- {}, Service <- 1, Transport <- 1, Other <- 1,
     Transit <- FALSE, TransitEarly <- 1, TransitLate <- 2, NoShow <- 1, ArrivedPercent <- 50,
     Penalty <- 2, MaxScore <- 2, Scores <- {2}, Interventions <- {"note"}, Deltas <- {},
     order <- x1, issues <- x2, passed <- x3, watch <- x4, case <- x5, refunds <- x6, settle <- x7,
     quotes <- x8, support <- x9, credit <- x10
G == INSTANCE ActivityGroup WITH Users <- {"first", "second"}, Capacity <- 2, Minimum <- 1,
     MaxJoins <- 1, status <- x1, time <- x2, publish <- x3, seat <- x4, order <- x5, lapsed <- x6,
     charge <- x7, joins <- x8, settled <- x9
A == INSTANCE ActivitySettlement WITH Users <- {"user"}, Principal <- 1, Fee <- 1, MaxCases <- 2,
     time <- x1, completed <- x2, seat <- x3, refund <- x4, case <- x5, cases <- x6,
     settlement <- x7
T == INSTANCE TaskCenter WITH Instants <- Instants, NoInstant <- NoInstant, MaxAttempts <- 1,
     Tasks <- {"task"}, Workers <- Workers, RefundTasks <- {}, BatchLimit <- 1, AttemptCap <- 2,
     row <- x1, phase <- x2, batch <- x3, current <- x4
R == INSTANCE TaskSync WITH Publish <- {}, Participation <- {1, 2}, Activities <- {}, Broken <- {},
     Batch <- 1, Runs <- {"run"}, MaxDeaths <- 1, phase <- x1, clock <- x2, row <- x3, run <- x4,
     deaths <- x5
M == INSTANCE Moderation WITH Workers <- Workers, Kinds <- {"revision"}, Contents <- {"video"},
     First <- "first", Default <- "default", None <- "none", WithVideo <- TRUE, MaxReviews <- 1,
     MaxAttempts <- 2, MaxCrashes <- 1, reviews <- x1, live <- x2, pending <- x3, nick <- x4,
     screen <- x5, work <- x6, calls <- x7, crashes <- x8
I == INSTANCE ProviderIdentity WITH Names <- {"name"}, Fronts <- {"front"}, Rests <- {"rest"},
     None <- None, Typed <- Typed, DailyLimit <- 2, profile <- x1, account <- x2, checks <- x3,
     calls <- x4, faceid <- x5
C == INSTANCE AccountClosure WITH MaxVersion <- 4, MaxRequests <- 1, MaxInFlight <- 2,
     MaxCrashes <- 1, user <- x1, requests <- x2, owes <- x3, passed <- x4, token <- x5,
     worker <- x6, crashes <- x7

ASSUME ComponentsAssumption ==
  /\ S!SettlementAssumption
  /\ F!FulfilmentAssumption
  /\ G!GroupAssumption
  /\ A!SettlementAssumption
  /\ R!ThingsAssumption
  /\ M!BoundsAssumption
  /\ I!DailyLimitAssumption
  /\ C!BoundsAssumption

-----------------------------------------------------------------------------
Init ==
  \/ focus = "settlement" /\ S!Init /\ x7 = 0 /\ x8 = 0 /\ x9 = 0 /\ x10 = 0
  \/ focus = "fulfilment" /\ F!Init
  \/ focus = "group" /\ G!Init /\ x10 = 0
  \/ focus = "activity" /\ A!Init /\ x8 = 0 /\ x9 = 0 /\ x10 = 0
  \/ focus = "tasks" /\ T!Init /\ x5 = 0 /\ x6 = 0 /\ x7 = 0 /\ x8 = 0 /\ x9 = 0 /\ x10 = 0
  \/ focus = "registration" /\ R!Init /\ x6 = 0 /\ x7 = 0 /\ x8 = 0 /\ x9 = 0 /\ x10 = 0
  \/ focus = "moderation" /\ M!Init /\ x9 = 0 /\ x10 = 0
  \/ focus = "identity" /\ I!Init /\ x6 = 0 /\ x7 = 0 /\ x8 = 0 /\ x9 = 0 /\ x10 = 0
  \/ focus = "closure" /\ C!Init /\ x8 = 0 /\ x9 = 0 /\ x10 = 0

Next ==
  \/ focus = "settlement" /\ S!Next /\ UNCHANGED <<focus, x7, x8, x9, x10>>
  \/ focus = "fulfilment" /\ F!Next /\ UNCHANGED <<focus>>
  \/ focus = "group" /\ G!Next /\ UNCHANGED <<focus, x10>>
  \/ focus = "activity" /\ A!Next /\ UNCHANGED <<focus, x8, x9, x10>>
  \/ focus = "tasks" /\ T!Next /\ UNCHANGED <<focus, x5, x6, x7, x8, x9, x10>>
  \/ focus = "registration" /\ R!Next /\ UNCHANGED <<focus, x6, x7, x8, x9, x10>>
  \/ focus = "moderation" /\ M!Next /\ UNCHANGED <<focus, x9, x10>>
  \/ focus = "identity" /\ I!Next /\ UNCHANGED <<focus, x6, x7, x8, x9, x10>>
  \/ focus = "closure" /\ C!Next /\ UNCHANGED <<focus, x8, x9, x10>>

Spec == Init /\ [][Next]_vars

-----------------------------------------------------------------------------
\* What a component does under its own fairness.  Each fairness condition is about actions of
\* behaviours of that component only.
settlement_vars == S!vars
fulfilment_vars == F!vars
group_vars == G!vars
activity_vars == A!vars
tasks_vars == T!vars
registration_vars == R!vars
moderation_vars == M!vars
identity_vars == I!vars
closure_vars == C!vars

SettlementFairness ==
  /\ WF_settlement_vars(focus = "settlement" /\ S!DeadlinePasses)
  /\ WF_settlement_vars(focus = "settlement" /\ S!FreezeEnds)
  /\ WF_settlement_vars(focus = "settlement" /\ S!ReleaseStaleTasks)
  /\ WF_settlement_vars(focus = "settlement" /\ S!SynchronizeProviderOrderTasks)
  /\ WF_settlement_vars(focus = "settlement" /\ S!Work("worker"))
  /\ \A j \in {"confirm", "settle"} :
       /\ WF_settlement_vars(focus = "settlement" /\ S!BecomeDue(j))
       /\ WF_settlement_vars(focus = "settlement" /\ S!LeaseTimeout(j))
       /\ SF_settlement_vars(focus = "settlement" /\ S!Claim("worker", j))

FulfilmentFairness ==
  /\ WF_fulfilment_vars(focus = "fulfilment" /\ F!WatchdogRuns)
  /\ \A d \in {"accept", "departure", "start", "completion", "wait"} :
       WF_fulfilment_vars(focus = "fulfilment" /\ F!DeadlinePasses(d))

GroupFairness ==
  /\ WF_group_vars(focus = "group" /\ (G!Approve \/ G!Reject))
  /\ WF_group_vars(focus = "group" /\ G!Tick)
  /\ WF_group_vars(focus = "group" /\ G!FormationTask)
  /\ WF_group_vars(focus = "group" /\ G!StartTask)
  /\ WF_group_vars(focus = "group" /\ G!CompletionTask)

ActivityFairness ==
  /\ WF_activity_vars(focus = "activity" /\ A!Tick)
  /\ WF_activity_vars(focus = "activity" /\ A!Complete)
  /\ WF_activity_vars(focus = "activity" /\ A!Advance)
  /\ SF_activity_vars(focus = "activity" /\ A!AdminRelease)
  /\ WF_activity_vars(focus = "activity" /\ (A!RejectCase("user") \/ A!ApproveCase("user")))
  /\ \A k \in A!Keys :
       /\ SF_activity_vars(focus = "activity" /\ A!RefundSucceeds("user", k))
       /\ WF_activity_vars(focus = "activity" /\ A!RetryRefund("user", k))
  /\ <>[][focus = "activity" => ~A!AdminFreeze]_activity_vars

completed == x2      \* of ActivitySettlement
task_row == x1["task"]  \* row["task"] of TaskCenter

TasksFairness ==
  /\ \A w \in Workers :
       /\ WF_tasks_vars(focus = "tasks" /\ T!ReleaseStaleTasks(w))
       /\ WF_tasks_vars(focus = "tasks" /\ T!ClaimDueTasks(w))
       /\ WF_tasks_vars(focus = "tasks" /\ \E l \in x3[w] : T!RunHandler(w, l))
       /\ WF_tasks_vars(focus = "tasks" /\ T!FinishTask(w))
  /\ WF_tasks_vars(focus = "tasks" /\ T!BecomeDue("task"))
  /\ WF_tasks_vars(focus = "tasks" /\ T!LeaseTimeout("task"))
  /\ SF_tasks_vars(focus = "tasks" /\ \E w \in Workers : T!Claim(w, {"task"}))

RegistrationFairness == WF_registration_vars(focus = "registration" /\ R!Synchronise("run"))

ModerationFairness ==
  /\ \A w \in Workers : WF_moderation_vars(focus = "moderation" /\ M!WorkerStep(w))
  /\ WF_moderation_vars(focus = "moderation" /\ M!LeaseEnds(1))

IdentityFairness == WF_identity_vars(focus = "identity" /\ I!Tick)

ClosureFairness ==
  /\ WF_closure_vars(focus = "closure" /\ C!Worker)
  /\ WF_closure_vars(focus = "closure" /\ C!Deadline(1))


\* Background work is done although workers die: a due row of the task centre is taken up and
\* a running one ends, a missing row is registered although others fill the page, a submission
\* is decided or handed to the staff, an attempt of a worker that died does not lock the
\* provider out, and a due closure closes the account or finds what it still owes.
WorkIsDone ==
  /\ TasksFairness =>
       /\ (focus = "tasks" /\ T!Claimable(task_row)) ~> (focus = "tasks" /\ ~T!Claimable(task_row))
       /\ (focus = "tasks" /\ task_row.status = "running") ~> (focus = "tasks" /\ task_row.status # "running")
  /\ RegistrationFairness =>
       \A x \in {1, 2} : (focus = "registration" /\ R!Unserved(x)) ~> (focus = "registration" /\ ~R!Unserved(x))
  /\ ModerationFairness => (focus = "moderation" /\ M!Waiting(1)) ~> (focus = "moderation" /\ ~M!Waiting(1))
  /\ IdentityFairness =>
       (focus = "identity" /\ ~I!ensure_not_checking) ~> (focus = "identity" /\ I!ensure_not_checking)
  /\ ClosureFairness => (focus = "closure" /\ C!Due) ~> (focus = "closure" /\ C!ClosedOrOwing)
=============================================================================
