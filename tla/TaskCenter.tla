----------------------------- MODULE TaskCenter -----------------------------
(***************************************************************************)
(* The task centre (taskcenter/services.py): business transactions         *)
(* register, cancel, suspend, reopen and complete rows of scheduled_task,  *)
(* while any number of Celery workers run process_due_tasks: release the   *)
(* stale leases, claim a batch, then run the handlers one after another    *)
(* and write each outcome back.                                            *)
(*                                                                         *)
(* A worker holds its batch in memory.  The lease of a row it has not      *)
(* reached yet may expire, be suspended, reopened or claimed by another    *)
(* worker; nothing checks it again before the handler runs.  Only the      *)
(* final write is fenced.                                                  *)
(***************************************************************************)
EXTENDS TaskRows, FiniteSets

CONSTANTS
  Tasks,         \* dedupe keys
  Workers,       \* Celery worker processes
  RefundTasks,   \* the tasks whose type is a refund
  BatchLimit,    \* the limit argument of process_due_tasks
  AttemptCap     \* bound: leases are lost and outcomes rescheduled only
                 \* below this many attempts

ASSUME TaskCenterAssumption ==
  /\ RefundTasks \subseteq Tasks
  /\ BatchLimit \in Nat \ {0}
  /\ AttemptCap \in Nat
  /\ AttemptCap >= MaxAttempts

VARIABLES
  row,      \* scheduled_task, by dedupe key
  phase,    \* where a worker is in process_due_tasks
  batch,    \* the leases it has claimed and not run yet
  current   \* the lease whose handler it has run and what that returned,
            \* none or one

vars == <<row, phase, batch, current>>

Leases == [task: Tasks, started: Instants, attempts: Nat]

\* The status a TaskExecutionOutcome carries, or an exception.
Outcomes == {"succeeded", "cancelled", "failed", "pending", "raised"}

Executions == [lease: Leases, outcome: Outcomes]

TypeOK ==
  /\ row \in [Tasks -> Rows]
  /\ phase \in [Workers -> {"idle", "claiming", "running"}]
  /\ batch \in [Workers -> SUBSET Leases]
  /\ current \in [Workers -> SUBSET Executions]

Init ==
  /\ row = [t \in Tasks |-> Absent]
  /\ phase = [w \in Workers |-> "idle"]
  /\ batch = [w \in Workers |-> {}]
  /\ current = [w \in Workers |-> {}]

Held(w) == batch[w] \cup {e.lease : e \in current[w]}

worker == <<phase, batch, current>>

Current(l) == LeaseCurrent(row[l.task], l.started, l.attempts)

-----------------------------------------------------------------------------
(* Business transactions.  A transaction that leaves the row as it is, is  *)
(* a stuttering step.                                                      *)

Write(t, r) == row' = [row EXCEPT ![t] = r] /\ UNCHANGED worker

Register(t) == \E due \in BOOLEAN : Write(t, Registered(row[t], due))

CancelBusinessTask(t) == Write(t, Cancelled(row[t]))

SuspendFulfillmentTask(t) == t \notin RefundTasks /\ Write(t, Suspended(row[t]))

Reopen(t) ==
  t \notin RefundTasks /\ \E due \in BOOLEAN : Write(t, Reopened(row[t], due))

MarkBusinessTaskSucceeded(t) ==
  t \notin RefundTasks /\ Write(t, MarkedSucceeded(row[t]))

MarkRefundTaskSucceeded(t) ==
  t \in RefundTasks /\ Write(t, RefundMarkedSucceeded(row[t]))

\* ScheduledTaskRetryView.post, under the lock of the row
RetryFailedTask(t) == row[t].status = "failed" /\ Write(t, Retried(row[t]))

-----------------------------------------------------------------------------
(* Time. *)

BecomeDue(t) ==
  /\ row[t].status = "pending" /\ ~row[t].due
  /\ Write(t, [row[t] EXCEPT !.due = TRUE])

LeaseTimeout(t) ==
  /\ row[t].status = "running" /\ ~row[t].expired
  /\ row[t].attempts < AttemptCap
  /\ Write(t, [row[t] EXCEPT !.expired = TRUE])

-----------------------------------------------------------------------------
(* process_due_tasks *)

\* Start of a poll: one UPDATE releases every stale lease.
ReleaseStaleTasks(w) ==
  /\ phase[w] = "idle"
  /\ row' = [t \in Tasks |-> IF Stale(row[t]) THEN Released(row[t]) ELSE row[t]]
  /\ phase' = [phase EXCEPT ![w] = "claiming"]
  /\ UNCHANGED <<batch, current>>

Due == {t \in Tasks : Claimable(row[t])}

\* timezone.now() has microseconds: two polls never read the same instant.
\* An instant that no row and no worker remembers may be read again.
UsedInstants ==
  {row[t].started : t \in Tasks} \cup
  UNION {{l.started : l \in Held(w)} : w \in Workers}

\* FOR UPDATE SKIP LOCKED: rows that another transaction has locked are left
\* to a later poll, so any batch of due rows may be claimed.
Claim(w, S) ==
  /\ phase[w] = "claiming"
  /\ S \subseteq Due /\ S # {} /\ Cardinality(S) <= BatchLimit
  /\ \E now \in Instants \ UsedInstants :
       /\ row' = [t \in Tasks |-> IF t \in S THEN Claimed(row[t], now) ELSE row[t]]
       /\ batch' = [batch EXCEPT ![w] =
            {[task |-> t, started |-> now, attempts |-> row[t].attempts + 1] : t \in S}]
  /\ phase' = [phase EXCEPT ![w] = "running"]
  /\ UNCHANGED current

\* Nothing is due, or others have locked all that is.
ClaimNothing(w) ==
  /\ phase[w] = "claiming"
  /\ phase' = [phase EXCEPT ![w] = "idle"]
  /\ UNCHANGED <<row, batch, current>>

ClaimDueTasks(w) == (\E S \in SUBSET Tasks : Claim(w, S)) \/ ClaimNothing(w)

\* TASK_HANDLERS[task.task_type](task, now): business transactions of its own.
\* What it decides is not written to the row before FinishTask.
RunHandler(w, l) ==
  /\ phase[w] = "running" /\ current[w] = {} /\ l \in batch[w]
  /\ batch' = [batch EXCEPT ![w] = @ \ {l}]
  /\ \E o \in Outcomes :
       /\ o = "pending" => l.attempts < AttemptCap
       /\ current' = [current EXCEPT ![w] = {[lease |-> l, outcome |-> o]}]
  /\ UNCHANGED <<row, phase>>

\* Mutant of Settled: an exception is written like an outcome.
Settled_Raises(r, o) == Finished(r, o, FALSE)

\* What the outcome makes of a row whose lease is still current.
Settled(r, o) == IF o = "raised" THEN Failed(r) ELSE Finished(r, o, FALSE)

\* _finish_task or _fail_task, then the next lease of the batch
FinishTask(w) ==
  \E e \in current[w] :
    /\ row' = [row EXCEPT ![e.lease.task] =
                 IF Current(e.lease) THEN Settled(@, e.outcome) ELSE @]
    /\ current' = [current EXCEPT ![w] = {}]
    /\ phase' = [phase EXCEPT ![w] = IF batch[w] = {} THEN "idle" ELSE "running"]
    /\ UNCHANGED batch

\* The worker is killed (docs/docker-production.md, graceful stop time) and
\* restarted: what it held in memory is gone.
Crash(w) ==
  /\ phase[w] # "idle"
  /\ \A l \in Held(w) : l.attempts < AttemptCap
  /\ phase' = [phase EXCEPT ![w] = "idle"]
  /\ batch' = [batch EXCEPT ![w] = {}]
  /\ current' = [current EXCEPT ![w] = {}]
  /\ UNCHANGED row

-----------------------------------------------------------------------------

Business(t) ==
  \/ Register(t)
  \/ CancelBusinessTask(t)
  \/ SuspendFulfillmentTask(t)
  \/ Reopen(t)
  \/ MarkBusinessTaskSucceeded(t)
  \/ MarkRefundTaskSucceeded(t)
  \/ RetryFailedTask(t)

Time(t) == BecomeDue(t) \/ LeaseTimeout(t)

ProcessDueTasks(w) ==
  \/ ReleaseStaleTasks(w)
  \/ ClaimDueTasks(w)
  \/ \E l \in batch[w] : RunHandler(w, l)
  \/ FinishTask(w)

Next ==
  \/ \E t \in Tasks : Business(t) \/ Time(t)
  \/ \E w \in Workers : ProcessDueTasks(w) \/ Crash(w)

Spec == Init /\ [][Next]_vars

\* Beat dispatches a poll every ten seconds and a worker that is not killed
\* goes on with its batch; clocks advance.  Rows are claimed in the order of
\* available_at, so a row that stays claimable is not passed over for ever:
\* that is strong fairness of the claims that include it.
Fairness ==
  /\ \A w \in Workers :
       /\ WF_vars(ReleaseStaleTasks(w))
       /\ WF_vars(ClaimDueTasks(w))
       /\ WF_vars(\E l \in batch[w] : RunHandler(w, l))
       /\ WF_vars(FinishTask(w))
  /\ \A t \in Tasks :
       /\ WF_vars(BecomeDue(t))
       /\ WF_vars(LeaseTimeout(t))
       /\ SF_vars(\E w \in Workers : \E S \in SUBSET Tasks : t \in S /\ Claim(w, S))

LiveSpec == Spec /\ Fairness

-----------------------------------------------------------------------------
(* Properties *)

\* At most one worker holds a lease that _finish_task would still accept: a
\* worker whose lease expired, or was suspended and reopened under it, can
\* never be taken for the worker that claimed the row afterwards.
ExclusiveLease ==
  \A w1, w2 \in Workers : \A l1 \in Held(w1), l2 \in Held(w2) :
    (l1.task = l2.task /\ Current(l1) /\ Current(l2)) => (w1 = w2 /\ l1 = l2)

\* Why ExclusiveLease holds: a worker holds leases only while it runs its
\* batch, no two workers hold leases of the same instant, and a batch holds
\* at most one lease of a task.
LeaseInv ==
  /\ \A w \in Workers : phase[w] # "running" => Held(w) = {}
  /\ \A w1, w2 \in Workers : \A l1 \in Held(w1), l2 \in Held(w2) :
       /\ l1.started = l2.started => w1 = w2
       /\ (w1 = w2 /\ l1.task = l2.task) => l1 = l2

ConsistentRow(r) ==
  /\ r.finished <=> r.status \in Terminal
  /\ r.status = "running" => r.started # NoInstant
  /\ r.status = "pending" => r.started = NoInstant

\* finished_at is set exactly on the rows in a terminal status, a running row
\* has a lease instant and a pending row has none, whichever of the ten
\* writers touched the row last.
RowConsistent == \A t \in Tasks : ConsistentRow(row[t])

LegalSteps ==
  {<<"absent", "pending">>,
   <<"pending", "running">>, <<"pending", "cancelled">>, <<"pending", "succeeded">>,
   <<"running", "pending">>, <<"running", "succeeded">>,
   <<"running", "failed">>, <<"running", "cancelled">>,
   <<"cancelled", "pending">>, <<"failed", "pending">>, <<"failed", "succeeded">>}

\* A late worker never moves a row it no longer holds: a row that succeeded
\* keeps that status, a reopened or retried row leaves pending only by a claim
\* or a business decision, and a cancelled row only by being reopened.
LegalTransitions ==
  [][\A t \in Tasks : row[t].status # row'[t].status =>
       <<row[t].status, row'[t].status>> \in LegalSteps]_vars

\* A due row does not stay due for ever: a worker claims it, or a business
\* transaction decides the row or moves its deadline, however many leases
\* were lost before.
DueServed ==
  \A t \in Tasks : Claimable(row[t]) ~> ~Claimable(row[t])

\* No row stays running for ever, even when the worker that claimed it died.
RunningResolved ==
  \A t \in Tasks : row[t].status = "running" ~> row[t].status # "running"

\* ScheduledTask.max_attempts is labelled "maximum number of executions"
\* (taskcenter/models.py) and attempt_count "number of executions".
AttemptsWithinMaximum == \A t \in Tasks : row[t].attempts <= MaxAttempts
=============================================================================
