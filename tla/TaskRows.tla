------------------------------ MODULE TaskRows ------------------------------
(***************************************************************************)
(* One row of the table scheduled_task (taskcenter/models.py) and the      *)
(* statements of taskcenter/services.py that write it.  Every operator     *)
(* maps the row before a transaction to the row after it, so that a module *)
(* that composes the task centre with business code can reuse it.          *)
(*                                                                         *)
(* Time is abstracted to what the guards compare: `due' says that          *)
(* available_at has passed, `expired' that started_at is older than the    *)
(* lease timeout.  started_at itself is kept as an identity, because       *)
(* _finish_task and _fail_task compare it for equality.                    *)
(***************************************************************************)
EXTENDS Integers

CONSTANTS
  Instants,      \* values timezone.now() can give to started_at
  NoInstant,     \* NULL
  MaxAttempts    \* ScheduledTask.max_attempts

ASSUME InstantAssumption == NoInstant \notin Instants

ASSUME AttemptAssumption == MaxAttempts \in Nat \ {0}

Terminal == {"succeeded", "failed", "cancelled"}

Statuses == {"pending", "running"} \cup Terminal

\* A lease is the snapshot of (started_at, attempt_count) that
\* process_due_tasks takes when it claims a row.
Rows == [status: Statuses \cup {"absent"}, due: BOOLEAN, expired: BOOLEAN,
         started: Instants \cup {NoInstant}, attempts: Nat, finished: BOOLEAN]

Absent == [status |-> "absent", due |-> FALSE, expired |-> FALSE,
           started |-> NoInstant, attempts |-> 0, finished |-> FALSE]

-----------------------------------------------------------------------------
(* Registration and the updates business transactions make. *)

\* The row once it has reached a terminal status: finished_at is set and the
\* age of the lease no longer matters.
Closed(r, status) ==
  [r EXCEPT !.status = status, !.expired = FALSE, !.finished = TRUE]

\* _register_task: get_or_create on the dedupe key.  An existing row only
\* moves its deadline, and only while it is still pending.
Registered(r, due) ==
  CASE r.status = "absent"  -> [Absent EXCEPT !.status = "pending", !.due = due]
    [] r.status = "pending" -> [r EXCEPT !.due = due]
    [] OTHER                -> r

\* cancel_business_task: an UPDATE guarded by status = pending.
Cancelled(r) ==
  IF r.status = "pending"
  THEN Closed(r, "cancelled") ELSE r

\* suspend_fulfillment_tasks: like a cancellation, but a claimed row too.
Suspended(r) ==
  IF r.status \in {"pending", "running"}
  THEN Closed(r, "cancelled") ELSE r

\* reopen_provider_order_settlement, reopen_provider_order_confirmation_timeout
Reopened(r, due) ==
  IF r.status = "cancelled"
  THEN [Absent EXCEPT !.status = "pending", !.due = due]
  ELSE Registered(r, due)

\* mark_business_task_succeeded
MarkedSucceeded(r) ==
  IF r.status \in {"pending", "running"}
  THEN Closed(r, "succeeded") ELSE r

\* _mark_refund_task_succeeded: a pending row or one that already failed.
RefundMarkedSucceeded(r) ==
  IF r.status \in {"pending", "failed"}
  THEN Closed(r, "succeeded") ELSE r

\* retry_failed_task, called with the row locked by ScheduledTaskRetryView
Retried(r) == [Absent EXCEPT !.status = "pending", !.due = TRUE]

-----------------------------------------------------------------------------
(* The updates process_due_tasks makes. *)

\* _release_stale_tasks
Stale(r) == r.status = "running" /\ r.expired

\* Mutant of Released: the release leaves started_at behind.
Released_KeepsStart(r) ==
  [r EXCEPT !.status = "pending", !.due = TRUE, !.expired = FALSE]

Released(r) == [r EXCEPT !.status = "pending", !.due = TRUE,
                         !.expired = FALSE, !.started = NoInstant]

\* _claim_due_tasks
Claimable(r) == r.status = "pending" /\ r.due

Claimed(r, now) == [r EXCEPT !.status = "running", !.started = now,
                             !.expired = FALSE, !.finished = FALSE,
                             !.attempts = @ + 1]

\* Mutant of LeaseCurrent: a fence on the attempt counter alone.
LeaseCurrent_NoStart(r, started, attempts) ==
  r.status = "running" /\ r.attempts = attempts

\* Mutant of LeaseCurrent: a fence that forgets the status.
LeaseCurrent_NoStatus(r, started, attempts) ==
  r.started = started /\ r.attempts = attempts

\* The fence of _finish_task and _fail_task.
LeaseCurrent(r, started, attempts) ==
  /\ r.status = "running"
  /\ r.started = started
  /\ r.attempts = attempts

\* _finish_task once the fence has been passed: the handler's outcome is a
\* terminal status, or pending with a later available_at.
Finished(r, status, due) ==
  IF status = "pending"
  THEN [r EXCEPT !.status = "pending", !.due = due, !.expired = FALSE,
                 !.started = NoInstant, !.finished = FALSE]
  ELSE Closed(r, status)

\* _fail_task once the fence has been passed: exponential back-off until the
\* attempts are used up.
Failed(r) ==
  IF r.attempts >= MaxAttempts
  THEN [Closed(r, "failed") EXCEPT !.started = NoInstant]
  ELSE [r EXCEPT !.status = "pending", !.due = FALSE, !.expired = FALSE,
                 !.started = NoInstant, !.finished = FALSE]
=============================================================================
