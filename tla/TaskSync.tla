------------------------------ MODULE TaskSync ------------------------------
(***************************************************************************)
(* synchronize_activity_tasks: every three minutes, and by hand, the rows  *)
(* of the task centre that live activities, payments and refunds lack are  *)
(* created, a bounded page of each kind at a time.  A run reads a page and *)
(* then registers its members one transaction after another, while users   *)
(* and task handlers go on, other runs overlap and processes die.  Missing *)
(* rows belong to data older than the task centre.  The handlers' own      *)
(* work is modelled in ActivityPayment, ActivityGroup, ActivitySettlement  *)
(* and RefundExecution; here it moves a phase and ends its row.            *)
(***************************************************************************)
EXTENDS Naturals, FiniteSets, SequencesExt

CONSTANTS
    Publish,         \* publish payments, by id
    Participation,   \* participation payments, by id
    Activities,      \* activities, by id
    Broken,          \* activities whose settlement cannot be calculated
    Batch,           \* TASK_SYNC_BATCH_SIZE
    Runs,            \* synchronisations that may overlap
    MaxDeaths        \* runs whose process dies

Payments == Publish \union Participation
Things == Payments \union Activities

ThingsAssumption == Things \subseteq Nat /\ Broken \subseteq Activities /\ Batch \in Nat \ {0}

\* The scans of one run, in the order of the code.  "ensure" creates
\* settlements; every other scan registers tasks of its own name.
Scans == <<"publish_expiry", "participation_expiry", "publish_compensation",
           "participation_compensation", "participation_refund", "publish_refund",
           "formation", "start", "completion", "ensure", "settlement">>
Tasks == ToSet(Scans) \ {"ensure"}

VARIABLES
    phase,   \* what each payment or activity is waiting for
    clock,   \* 0..3: the formation deadline, start and end of an activity that passed
    row,     \* task -> thing -> absent, pending, ended or failed
    run,     \* what each synchronisation is doing
    deaths   \* runs that died so far

vars == <<phase, clock, row, run, deaths>>

PaymentPhases == {"pending", "closed", "closed_sent", "paid", "refunding", "refunded"}
ActivityPhases == {"recruiting", "formed", "in_progress", "completed", "settling", "settled", "over"}
Idle == [scan |-> 0, todo |-> <<>>]

-----------------------------------------------------------------------------
(* What the business transaction that enters a phase registers.            *)

Family(x, publish, participation) == IF x \in Publish THEN {publish} ELSE {participation}

PaymentTasks(x, p) ==
    CASE p = "pending"     -> Family(x, "publish_expiry", "participation_expiry")
      [] p = "closed_sent" -> Family(x, "publish_compensation", "participation_compensation")
      [] p = "refunding"   -> Family(x, "publish_refund", "participation_refund")
      [] OTHER             -> {}

\* register_activity_lifecycle_tasks: all three when the activity is approved.
LifecycleTasks == {"formation", "start", "completion"}

\* register_activity_settlement, with the settlement itself
SettlementTasks == {"settlement"}

\* The tasks an unfinished phase depends on.
Awaited(x, p) ==
    CASE x \in Payments      -> PaymentTasks(x, p)
      [] p = "recruiting"    -> LifecycleTasks
      [] p = "formed"        -> {"start", "completion"}
      [] p = "in_progress"   -> {"completion"}
      [] p = "settling"      -> SettlementTasks
      [] OTHER               -> {}

\* Old data has no rows at all; newer data has those of its phase.
Init ==
    /\ phase \in [Things -> PaymentPhases \union ActivityPhases]
    /\ \A x \in Things : phase[x] \in IF x \in Payments THEN PaymentPhases ELSE ActivityPhases
    /\ clock = [x \in Activities |->
                  CASE phase[x] \in {"recruiting", "formed"} -> 0 [] phase[x] = "in_progress" -> 2 [] OTHER -> 3]
    /\ \E Old \in SUBSET Things :
        row = [t \in Tasks |-> [x \in Things |->
                  IF x \notin Old /\ t \in Awaited(x, phase[x]) THEN "pending" ELSE "absent"]]
    /\ run = [r \in Runs |-> Idle] /\ deaths = 0

\* _register_task: an existing row at most moves its deadline.
Registered(R, T, x) ==
    [t \in Tasks |-> IF t \in T /\ R[t][x] = "absent" THEN [R[t] EXCEPT ![x] = "pending"] ELSE R[t]]

\* A business transaction enters a phase and registers its tasks.
Enter(x, p) ==
    /\ phase' = [phase EXCEPT ![x] = p]
    /\ row' = Registered(row, IF x \in Payments THEN PaymentTasks(x, p) ELSE {}, x)

-----------------------------------------------------------------------------
(* The synchronisation.                                                    *)

\* _activities_missing_task, and the Exists subqueries of the other scans
Missing(t, S) == {x \in S : row[t][x] = "absent"}

In(S, P) == {x \in S : phase[x] \in P}

PublishExpiry == Missing("publish_expiry", In(Publish, {"pending"}))
ParticipationExpiry == Missing("participation_expiry", In(Participation, {"pending"}))
PublishCompensation == Missing("publish_compensation", In(Publish, {"closed_sent"}))
ParticipationCompensation == Missing("participation_compensation", In(Participation, {"closed_sent"}))
ParticipationRefund == Missing("participation_refund", In(Participation, {"refunding"}))
PublishRefund == Missing("publish_refund", In(Publish, {"refunding"}))
Formation == Missing("formation", In(Activities, {"recruiting", "formed"}))
Start == Missing("start", In(Activities, {"recruiting", "formed", "in_progress"}))
Completion == Missing("completion", In(Activities, {"recruiting", "formed", "in_progress"}))
WithoutSettlement == In(Activities, {"completed"})
OpenSettlement == Missing("settlement", In(Activities, {"settling"}))

Selected(scan) ==
    CASE scan = "publish_expiry" -> PublishExpiry
      [] scan = "participation_expiry" -> ParticipationExpiry
      [] scan = "publish_compensation" -> PublishCompensation
      [] scan = "participation_compensation" -> ParticipationCompensation
      [] scan = "participation_refund" -> ParticipationRefund
      [] scan = "publish_refund" -> PublishRefund
      [] scan = "formation" -> Formation
      [] scan = "start" -> Start
      [] scan = "completion" -> Completion
      [] scan = "ensure" -> WithoutSettlement
      [] OTHER -> OpenSettlement

\* The first Batch members by id.
Page(S) == LET s == SetToSortSeq(S, <) IN SubSeq(s, 1, IF Len(s) < Batch THEN Len(s) ELSE Batch)

\* The next scan of a run reads its page; after the last the run is over.
ReadPage(r) ==
    /\ run[r].todo = <<>>
    /\ run' = [run EXCEPT ![r] =
                  IF @.scan = Len(Scans) THEN Idle
                  ELSE [scan |-> @.scan + 1, todo |-> Page(Selected(Scans[@.scan + 1]))]]
    /\ UNCHANGED <<phase, clock, row, deaths>>

RegisterNext(r) ==
    LET x == Head(run[r].todo) t == Scans[run[r].scan] IN
    /\ run[r].todo # <<>> /\ t # "ensure"
    /\ row' = Registered(row, {t}, x)
    /\ run' = [run EXCEPT ![r].todo = Tail(@)]
    /\ UNCHANGED <<phase, clock, deaths>>

\* A ValidationError of ensure_activity_settlement is skipped.
AfterError(r) == [run[r] EXCEPT !.todo = Tail(@)]

EnsureNext(r) ==
    LET x == Head(run[r].todo) IN
    /\ run[r].todo # <<>> /\ Scans[run[r].scan] = "ensure"
    /\ IF x \in Broken
       THEN run' = [run EXCEPT ![r] = AfterError(r)] /\ UNCHANGED <<phase, row>>
       ELSE /\ run' = [run EXCEPT ![r].todo = Tail(@)]
            /\ phase' = [phase EXCEPT ![x] = IF @ = "completed" THEN "settling" ELSE @]
            /\ row' = IF phase[x] = "settled" THEN row ELSE Registered(row, SettlementTasks, x)
    /\ UNCHANGED <<clock, deaths>>

RunDies(r) ==
    /\ run[r] # Idle /\ deaths < MaxDeaths
    /\ deaths' = deaths + 1
    /\ run' = [run EXCEPT ![r] = Idle]
    /\ UNCHANGED <<phase, clock, row>>

-----------------------------------------------------------------------------
(* Users, time and the task handlers.                                      *)

\* Customers and organizers pay, cancel and ask for refunds.
UserPays(x, p) ==
    /\ x \in Payments
    /\ <<phase[x], p>> \in {<<"pending", "paid">>, <<"pending", "closed">>, <<"pending", "closed_sent">>,
                            <<"paid", "refunding">>, <<"refunding", "refunded">>}
    /\ Enter(x, p)
    /\ UNCHANGED <<clock, run, deaths>>

\* A group forms before its deadline, or is called off before it starts.
GroupChanges(x, p) ==
    /\ x \in Activities
    /\ \/ phase[x] = "recruiting" /\ clock[x] = 0 /\ p = "formed"
       \/ phase[x] \in {"recruiting", "formed"} /\ clock[x] < 2 /\ p = "over"
    /\ Enter(x, p)
    /\ UNCHANGED <<clock, run, deaths>>

\* process_activity_timeouts, the emergency scan, completes without a task.
CompletedByScan(x) ==
    /\ x \in Activities /\ phase[x] = "in_progress" /\ clock[x] = 3
    /\ Enter(x, "completed")
    /\ UNCHANGED <<clock, run, deaths>>

TimePasses(x) ==
    /\ phase[x] \in {"recruiting", "formed", "in_progress"}
    /\ clock[x] < 3
    /\ clock' = [clock EXCEPT ![x] = @ + 1]
    /\ UNCHANGED <<phase, row, run, deaths>>

Ended(R, t, x) == [R EXCEPT ![t][x] = "ended"]

\* Mutant of Outcomes: a payment still being processed ends its task.
Outcomes_Processing(p) == CASE p = "pending" -> {"paid", "closed", "closed_sent", "pending"} [] p = "closed_sent" -> {"closed", "refunding"} [] OTHER -> {"refunded"}
\* What a task that succeeds has done; while the gateway is still processing,
\* or the deadline was moved, the row stays pending.
Outcomes(p) ==
    CASE p = "pending" -> {"paid", "closed", "closed_sent"} [] p = "closed_sent" -> {"closed", "refunding"} [] OTHER -> {"refunded"}

\* A payment, compensation or refund task moves its business on or finds that
\* someone else did; either ends its row.
ExecutePayment(t, x, p) ==
    /\ x \in Payments /\ row[t][x] = "pending"
    /\ IF t \in PaymentTasks(x, phase[x])
       THEN /\ p \in Outcomes(phase[x])
            /\ phase' = [phase EXCEPT ![x] = p]
            /\ row' = Ended(Registered(row, PaymentTasks(x, p), x), t, x)
       ELSE /\ p = phase[x] /\ UNCHANGED phase
            /\ row' = Ended(row, t, x)
    /\ UNCHANGED <<clock, run, deaths>>

\* _resolve_activity_formation: the phases a recruiting activity may be left in.
Resolved(x) ==
    IF phase[x] = "recruiting" /\ clock[x] >= 1 THEN {"formed", "over"} ELSE {phase[x]}

\* start_formed_activity
StartedFrom(x, p) == IF p = "formed" /\ clock[x] >= 2 THEN "in_progress" ELSE p

\* Tasks run in any order once their own time has come: each handler first does
\* what the tasks before it should have done, and waits while it is not due.
ExecuteFormation(x) ==
    /\ row["formation"][x] = "pending" /\ clock[x] >= 1
    /\ \E p \in Resolved(x) : phase' = [phase EXCEPT ![x] = p]
    /\ row' = Ended(row, "formation", x)
    /\ UNCHANGED <<clock, run, deaths>>

Startable(x) == Resolved(x)

ExecuteStart(x) ==
    /\ row["start"][x] = "pending" /\ clock[x] >= 2
    /\ \E p \in Startable(x) : phase' = [phase EXCEPT ![x] = StartedFrom(x, p)]
    /\ row' = Ended(row, "start", x)
    /\ UNCHANGED <<clock, run, deaths>>

\* The activity is completed in one transaction ...
ExecuteCompletion(x) ==
    /\ row["completion"][x] = "pending" /\ clock[x] >= 3 /\ phase[x] # "completed"
    /\ \E p \in Resolved(x) :
        LET q == IF StartedFrom(x, p) = "in_progress" THEN "completed" ELSE StartedFrom(x, p) IN
        /\ phase' = [phase EXCEPT ![x] = q]
        /\ row' = IF q = "completed" THEN row ELSE Ended(row, "completion", x)
    /\ UNCHANGED <<clock, run, deaths>>

\* ... and its settlement is created in the next; a crash between them leaves
\* the task to be claimed again, and a settlement that cannot be calculated
\* uses up its attempts.
ExecuteSettlementCreation(x) ==
    /\ row["completion"][x] = "pending" /\ phase[x] = "completed"
    /\ IF x \in Broken
       THEN row' = [row EXCEPT !["completion"][x] = "failed"] /\ UNCHANGED phase
       ELSE /\ phase' = [phase EXCEPT ![x] = "settling"]
            /\ row' = Ended(Registered(row, SettlementTasks, x), "completion", x)
    /\ UNCHANGED <<clock, run, deaths>>

ExecuteSettlement(x) ==
    /\ row["settlement"][x] = "pending" /\ phase[x] \in {"settling", "settled"}
    /\ phase' = [phase EXCEPT ![x] = "settled"]
    /\ row' = Ended(row, "settlement", x)
    /\ UNCHANGED <<clock, run, deaths>>

Synchronise(r) == ReadPage(r) \/ RegisterNext(r) \/ EnsureNext(r)

Next ==
    \/ \E r \in Runs : Synchronise(r) \/ RunDies(r)
    \/ \E x \in Payments, p \in PaymentPhases :
        UserPays(x, p) \/ \E t \in Tasks : ExecutePayment(t, x, p)
    \/ \E x \in Activities :
        \/ \E p \in ActivityPhases : GroupChanges(x, p)
        \/ CompletedByScan(x) \/ TimePasses(x) \/ ExecuteFormation(x) \/ ExecuteStart(x)
        \/ ExecuteCompletion(x) \/ ExecuteSettlementCreation(x) \/ ExecuteSettlement(x)

Spec == Init /\ [][Next]_vars

\* Beat starts a run every three minutes; only some of them die.
LiveSpec == Spec /\ \A r \in Runs : WF_vars(Synchronise(r))

-----------------------------------------------------------------------------
(* Properties.                                                             *)

\* Every variable has its type.
TypeOK ==
    /\ phase \in [Things -> PaymentPhases \union ActivityPhases]
    /\ clock \in [Activities -> 0..3]
    /\ row \in [Tasks -> [Things -> {"absent", "pending", "ended", "failed"}]]
    /\ deaths \in 0..MaxDeaths
    /\ \A r \in Runs : run[r].scan \in 0..Len(Scans) /\ Len(run[r].todo) <= Batch

\* The handlers' outcomes together with the scans, which never create a row a
\* second time: no activity, payment or refund is left in a phase whose task
\* has already ended, whatever the order of the tasks, however old the page a
\* row was registered from.
NeverAbandoned ==
    \A x \in Things : \A t \in Awaited(x, phase[x]) : row[t][x] # "ended"

\* synchronize_activity_tasks: what depends on tasks that have no row gets all of
\* them or no longer needs any, although pages are bounded and runs die.
Unserved(x) == \E t \in Awaited(x, phase[x]) : row[t][x] = "absent"
MissingIsCreated == \A x \in Things : Unserved(x) ~> ~Unserved(x)

\* A completed activity gets its settlement although others on the page cannot.
Completed(x) == phase[x] = "completed"
HasSettlement(x) == phase[x] \in {"settling", "settled"}
CompletedIsSettled == \A x \in Activities \ Broken : Completed(x) ~> HasSettlement(x)
=============================================================================
