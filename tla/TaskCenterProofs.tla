-------------------------- MODULE TaskCenterProofs --------------------------
(***************************************************************************)
(* The safety properties of TaskCenter, for any set of tasks and workers,  *)
(* any batch limit and any number of attempts.                             *)
(***************************************************************************)
EXTENDS TaskCenter, TLAPS

\* A write to a row is legal when it leaves a well-formed row behind and
\* moves its status along LegalSteps.
LegalWrite(r, s) ==
  /\ s \in Rows
  /\ ConsistentRow(s)
  /\ r.status # s.status => <<r.status, s.status>> \in LegalSteps

\* Every writer that business transactions use is legal on every row.
LEMMA BusinessWrites ==
  ASSUME NEW r \in Rows, ConsistentRow(r), NEW due \in BOOLEAN
  PROVE  /\ LegalWrite(r, r)
         /\ LegalWrite(r, Registered(r, due))
         /\ LegalWrite(r, Cancelled(r))
         /\ LegalWrite(r, Suspended(r))
         /\ LegalWrite(r, Reopened(r, due))
         /\ LegalWrite(r, MarkedSucceeded(r))
         /\ LegalWrite(r, RefundMarkedSucceeded(r))
         /\ r.status = "failed" => LegalWrite(r, Retried(r))
<1> USE DEF Rows, ConsistentRow, LegalWrite, LegalSteps, Terminal, Statuses, Absent
<1>1. LegalWrite(r, r)
  OBVIOUS
<1>2. LegalWrite(r, Registered(r, due))
  BY DEF Registered
<1>3. LegalWrite(r, Cancelled(r)) /\ LegalWrite(r, Suspended(r))
  BY DEF Cancelled, Suspended, Closed
<1>4. LegalWrite(r, Reopened(r, due))
  BY <1>2 DEF Reopened
<1>5. LegalWrite(r, MarkedSucceeded(r)) /\ LegalWrite(r, RefundMarkedSucceeded(r))
  BY DEF MarkedSucceeded, RefundMarkedSucceeded, Closed
<1>6. r.status = "failed" => LegalWrite(r, Retried(r))
  BY DEF Retried
<1>7. QED
  BY <1>1, <1>2, <1>3, <1>4, <1>5, <1>6

\* Every writer of process_due_tasks is legal on the rows its guard admits.
LEMMA WorkerWrites ==
  ASSUME NEW r \in Rows, ConsistentRow(r)
  PROVE  /\ Stale(r) => LegalWrite(r, Released(r))
         /\ \A now \in Instants : Claimable(r) => LegalWrite(r, Claimed(r, now))
         /\ \A o \in Outcomes : r.status = "running" => LegalWrite(r, Settled(r, o))
<1> USE AttemptAssumption, InstantAssumption
    DEF Rows, ConsistentRow, LegalWrite, LegalSteps, Terminal, Statuses
<1>1. Stale(r) => LegalWrite(r, Released(r))
  BY DEF Stale, Released
<1>2. ASSUME NEW now \in Instants, Claimable(r)
      PROVE  LegalWrite(r, Claimed(r, now))
  <2>1. r.attempts + 1 \in Nat
    OBVIOUS
  <2> DEFINE s == Claimed(r, now)
  <2>2. s \in Rows
    BY <2>1 DEF Claimed
  <2>3. s.status = "running" /\ s.started = now /\ s.finished = FALSE
    BY DEF Claimed
  <2>4. ConsistentRow(s)
    BY <2>3
  <2>5. r.status = "pending"
    BY <1>2 DEF Claimable
  <2>6. <<r.status, s.status>> \in LegalSteps
    BY <2>3, <2>5
  <2>7. QED
    BY <2>2, <2>4, <2>6
<1>3. ASSUME NEW o \in Outcomes, r.status = "running"
      PROVE  LegalWrite(r, Settled(r, o))
  <2>1. CASE o = "raised"
    BY <1>3, <2>1 DEF Settled, Failed, Closed
  <2>2. CASE o # "raised"
    BY <1>3, <2>2 DEF Settled, Finished, Closed, Outcomes
  <2>3. QED
    BY <2>1, <2>2
<1>4. QED
  BY <1>1, <1>2, <1>3

-----------------------------------------------------------------------------
(* The rows: type, consistency and transitions in one pass over Next. *)

RowInv == TypeOK /\ RowConsistent

LegalRows == \A t \in Tasks : LegalWrite(row[t], row'[t])

\* A business transaction or the passing of time changes one row legally and
\* no worker.
LEMMA WriteLegal ==
  ASSUME RowInv, NEW t \in Tasks, Business(t) \/ Time(t)
  PROVE  LegalRows /\ UNCHANGED worker /\ row' \in [Tasks -> Rows]
<1>1. row[t] \in Rows /\ ConsistentRow(row[t])
  BY DEF RowInv, TypeOK, RowConsistent
<1>2. ASSUME NEW s, Write(t, s), LegalWrite(row[t], s)
      PROVE  LegalRows /\ UNCHANGED worker /\ row' \in [Tasks -> Rows]
  <2>1. \A u \in Tasks : LegalWrite(row[u], row[u])
    BY BusinessWrites DEF RowInv, TypeOK, RowConsistent
  <2>2. row' = [row EXCEPT ![t] = s] /\ UNCHANGED worker
    BY <1>2 DEF Write
  <2>3. \A u \in Tasks : row'[u] = IF u = t THEN s ELSE row[u]
    BY <2>2 DEF RowInv, TypeOK
  <2>4. LegalRows
    BY <1>2, <2>1, <2>3 DEF LegalRows
  <2>5. row' \in [Tasks -> Rows]
    BY <1>2, <2>2 DEF RowInv, TypeOK, LegalWrite
  <2>6. QED
    BY <2>2, <2>4, <2>5
<1>3. CASE Register(t)
  BY <1>1, <1>2, <1>3, BusinessWrites DEF Register
<1>4. CASE CancelBusinessTask(t)
  BY <1>1, <1>2, <1>4, BusinessWrites DEF CancelBusinessTask
<1>5. CASE SuspendFulfillmentTask(t)
  BY <1>1, <1>2, <1>5, BusinessWrites DEF SuspendFulfillmentTask
<1>6. CASE Reopen(t)
  BY <1>1, <1>2, <1>6, BusinessWrites DEF Reopen
<1>7. CASE MarkBusinessTaskSucceeded(t)
  BY <1>1, <1>2, <1>7, BusinessWrites DEF MarkBusinessTaskSucceeded
<1>8. CASE MarkRefundTaskSucceeded(t)
  BY <1>1, <1>2, <1>8, BusinessWrites DEF MarkRefundTaskSucceeded
<1>9. CASE RetryFailedTask(t)
  BY <1>1, <1>2, <1>9, BusinessWrites DEF RetryFailedTask
<1>10. CASE Time(t)
  <2>1. LegalWrite(row[t], [row[t] EXCEPT !.due = TRUE])
    BY <1>1 DEF LegalWrite, ConsistentRow, Rows
  <2>2. LegalWrite(row[t], [row[t] EXCEPT !.expired = TRUE])
    BY <1>1 DEF LegalWrite, ConsistentRow, Rows
  <2>3. CASE BecomeDue(t)
    BY <1>2, <2>1, <2>3 DEF BecomeDue
  <2>4. CASE LeaseTimeout(t)
    BY <1>2, <2>2, <2>4 DEF LeaseTimeout
  <2>5. QED
    BY <1>10, <2>3, <2>4 DEF Time
<1>11. QED
  BY <1>3, <1>4, <1>5, <1>6, <1>7, <1>8, <1>9, <1>10 DEF Business

\* A step of process_due_tasks, or the death of a worker, writes rows legally.
LEMMA WorkerLegal ==
  ASSUME RowInv, NEW w \in Workers, ProcessDueTasks(w) \/ Crash(w)
  PROVE  LegalRows /\ row' \in [Tasks -> Rows]
<1>1. \A u \in Tasks : row[u] \in Rows /\ ConsistentRow(row[u])
  BY DEF RowInv, TypeOK, RowConsistent
<1>2. \A u \in Tasks : LegalWrite(row[u], row[u])
  BY <1>1, BusinessWrites
<1>3. CASE row' = row
  BY <1>1, <1>2, <1>3 DEF LegalRows, RowInv, TypeOK
<1>4. CASE ReleaseStaleTasks(w)
  <2>1. \A u \in Tasks : LegalWrite(row[u], IF Stale(row[u]) THEN Released(row[u]) ELSE row[u])
    BY <1>1, <1>2, WorkerWrites
  <2>2. row' = [u \in Tasks |-> IF Stale(row[u]) THEN Released(row[u]) ELSE row[u]]
    BY <1>4 DEF ReleaseStaleTasks
  <2>3. QED
    BY <2>1, <2>2 DEF LegalRows, LegalWrite
<1>5. ASSUME NEW S \in SUBSET Tasks, Claim(w, S)
      PROVE  LegalRows /\ row' \in [Tasks -> Rows]
  <2>1. PICK now \in Instants :
          row' = [u \in Tasks |-> IF u \in S THEN Claimed(row[u], now) ELSE row[u]]
    BY <1>5 DEF Claim
  <2>2. \A u \in S : Claimable(row[u])
    BY <1>5 DEF Claim, Due
  <2>3. \A u \in Tasks : LegalWrite(row[u], IF u \in S THEN Claimed(row[u], now) ELSE row[u])
    BY <1>1, <1>2, <2>2, WorkerWrites
  <2>4. QED
    BY <2>1, <2>3 DEF LegalRows, LegalWrite
<1>6. CASE FinishTask(w)
  <2>1. PICK e \in current[w] :
          row' = [row EXCEPT ![e.lease.task] =
                    IF Current(e.lease) THEN Settled(@, e.outcome) ELSE @]
    BY <1>6 DEF FinishTask
  <2>2. e \in Executions
    BY DEF RowInv, TypeOK
  <2>3. e.lease.task \in Tasks /\ e.outcome \in Outcomes
    BY <2>2 DEF Executions, Leases
  <2> DEFINE t == e.lease.task
             s == IF Current(e.lease) THEN Settled(row[t], e.outcome) ELSE row[t]
  <2>4. LegalWrite(row[t], s)
    <3>1. CASE Current(e.lease)
      <4>1. row[t].status = "running"
        BY <3>1 DEF Current, LeaseCurrent
      <4>2. QED
        BY <1>1, <2>3, <3>1, <4>1, WorkerWrites
    <3>2. CASE ~Current(e.lease)
      BY <1>2, <2>3, <3>2
    <3>3. QED
      BY <3>1, <3>2
  <2>5. row \in [Tasks -> Rows]
    BY DEF RowInv, TypeOK
  <2>6. row' = [row EXCEPT ![t] = s]
    BY <2>1
  <2>7. s \in Rows
    BY <2>4 DEF LegalWrite
  <2> HIDE DEF t, s
  <2>8. row' \in [Tasks -> Rows] /\ \A u \in Tasks : row'[u] = IF u = t THEN s ELSE row[u]
    BY <2>5, <2>6, <2>7
  <2>9. QED
    BY <1>2, <2>4, <2>8 DEF LegalRows
<1>7. CASE Crash(w)
  BY <1>3, <1>7 DEF Crash
<1>8. CASE ClaimNothing(w)
  BY <1>3, <1>8 DEF ClaimNothing
<1>9. CASE \E l \in batch[w] : RunHandler(w, l)
  BY <1>3, <1>9 DEF RunHandler
<1>10. QED
  BY <1>4, <1>5, <1>6, <1>7, <1>8, <1>9 DEF ProcessDueTasks, ClaimDueTasks

LEMMA NextLegal ==
  ASSUME RowInv, [Next]_vars
  PROVE  LegalRows /\ row' \in [Tasks -> Rows]
<1>1. CASE Next
  BY <1>1, WriteLegal, WorkerLegal DEF Next
<1>2. CASE UNCHANGED vars
  <2>1. row' = row
    BY <1>2 DEF vars
  <2>2. \A u \in Tasks : LegalWrite(row[u], row[u])
    BY BusinessWrites DEF RowInv, TypeOK, RowConsistent
  <2>3. QED
    BY <2>1, <2>2 DEF LegalRows, RowInv, TypeOK
<1>3. QED
  BY <1>1, <1>2

-----------------------------------------------------------------------------
(* The workers' memory. *)

WorkerTypeOK ==
  /\ phase \in [Workers -> {"idle", "claiming", "running"}]
  /\ batch \in [Workers -> SUBSET Leases]
  /\ current \in [Workers -> SUBSET Executions]

LEMMA WorkerTypePreserved ==
  ASSUME RowInv, [Next]_vars
  PROVE  WorkerTypeOK'
<1> USE DEF WorkerTypeOK
<1>1. WorkerTypeOK
  BY DEF RowInv, TypeOK
<1>2. CASE UNCHANGED worker
  BY <1>1, <1>2 DEF worker
<1>3. ASSUME NEW w \in Workers, ProcessDueTasks(w) \/ Crash(w)
      PROVE  WorkerTypeOK'
  <2>1. CASE ReleaseStaleTasks(w)
    BY <1>1, <2>1 DEF ReleaseStaleTasks
  <2>2. ASSUME NEW S \in SUBSET Tasks, Claim(w, S)
        PROVE  WorkerTypeOK'
    <3>1. PICK now \in Instants :
            batch' = [batch EXCEPT ![w] =
              {[task |-> t, started |-> now, attempts |-> row[t].attempts + 1] : t \in S}]
      BY <2>2 DEF Claim
    <3>2. \A t \in S : row[t].attempts + 1 \in Nat
      BY DEF RowInv, TypeOK, Rows
    <3>3. {[task |-> t, started |-> now, attempts |-> row[t].attempts + 1] : t \in S}
            \in SUBSET Leases
      BY <3>2 DEF Leases
    <3>4. QED
      BY <1>1, <2>2, <3>1, <3>3 DEF Claim
  <2>3. CASE ClaimNothing(w)
    BY <1>1, <2>3 DEF ClaimNothing
  <2>4. ASSUME NEW l \in batch[w], RunHandler(w, l)
        PROVE  WorkerTypeOK'
    <3>1. l \in Leases
      BY <1>1
    <3>2. PICK o \in Outcomes :
            current' = [current EXCEPT ![w] = {[lease |-> l, outcome |-> o]}]
      BY <2>4 DEF RunHandler
    <3>3. {[lease |-> l, outcome |-> o]} \in SUBSET Executions
      BY <3>1 DEF Executions
    <3>4. QED
      BY <1>1, <2>4, <3>2, <3>3 DEF RunHandler
  <2>5. CASE FinishTask(w)
    BY <1>1, <2>5 DEF FinishTask
  <2>6. CASE Crash(w)
    BY <1>1, <2>6 DEF Crash
  <2>7. QED
    BY <1>3, <2>1, <2>2, <2>3, <2>4, <2>5, <2>6 DEF ProcessDueTasks, ClaimDueTasks
<1>4. QED
  BY <1>2, <1>3, WriteLegal DEF Next, vars, worker

\* Type correctness and consistency of the rows hold in every behaviour.
THEOREM TypeCorrect == Spec => [](TypeOK /\ RowConsistent)
<1>1. Init => RowInv
  BY InstantAssumption DEF Init, RowInv, TypeOK, RowConsistent, ConsistentRow, Absent,
     Rows, Statuses, Terminal
<1>2. RowInv /\ [Next]_vars => RowInv'
  <2> SUFFICES ASSUME RowInv, [Next]_vars PROVE RowInv'
    OBVIOUS
  <2>1. LegalRows /\ row' \in [Tasks -> Rows]
    BY NextLegal
  <2>2. WorkerTypeOK'
    BY WorkerTypePreserved
  <2>3. RowConsistent'
    BY <2>1 DEF LegalRows, LegalWrite, RowConsistent
  <2>4. QED
    BY <2>1, <2>2, <2>3 DEF RowInv, TypeOK, WorkerTypeOK
<1>3. QED
  BY <1>1, <1>2, PTL DEF Spec, RowInv

\* What workers hold and execute is well typed whatever a lost lease leaves behind.
THEOREM Typed == Spec => []TypeOK
BY TypeCorrect, PTL

\* No late worker moves a row it no longer holds: every step of every
\* behaviour moves the status of every row along LegalSteps.
THEOREM TransitionsLegal == Spec => LegalTransitions
<1>1. RowInv /\ [Next]_vars =>
        [\A t \in Tasks : row[t].status # row'[t].status =>
            <<row[t].status, row'[t].status>> \in LegalSteps]_vars
  BY NextLegal DEF LegalRows, LegalWrite
<1>2. QED
  BY <1>1, TypeCorrect, PTL DEF Spec, RowInv, LegalTransitions

-----------------------------------------------------------------------------
(* Leases. *)

\* Every step but a claim leaves a worker with leases it held before.
LEMMA LeasesShrink ==
  ASSUME TypeOK, LeaseInv,
         \A w \in Workers : Held(w)' \subseteq Held(w),
         \A w \in Workers : phase'[w] # "running" => Held(w)' = {}
  PROVE  LeaseInv'
BY DEF LeaseInv

LEMMA LeaseStep ==
  ASSUME TypeOK, LeaseInv, [Next]_vars
  PROVE  LeaseInv'
<1>1. CASE UNCHANGED worker
  BY <1>1 DEF worker, LeaseInv, Held
<1>2. ASSUME NEW w \in Workers, ProcessDueTasks(w) \/ Crash(w)
      PROVE  LeaseInv'
  <2>1. CASE ReleaseStaleTasks(w)
    <3>1. Held(w) = {}
      BY <2>1 DEF ReleaseStaleTasks, LeaseInv
    <3>2. \A v \in Workers : Held(v)' = Held(v)
      BY <2>1 DEF ReleaseStaleTasks, Held
    <3>3. \A v \in Workers : v # w => phase'[v] = phase[v]
      BY <2>1 DEF ReleaseStaleTasks, TypeOK
    <3>4. QED
      BY <3>1, <3>2, <3>3, LeasesShrink DEF LeaseInv
  <2>2. ASSUME NEW S \in SUBSET Tasks, Claim(w, S)
        PROVE  LeaseInv'
    <3>1. PICK now \in Instants \ UsedInstants :
            batch' = [batch EXCEPT ![w] =
              {[task |-> t, started |-> now, attempts |-> row[t].attempts + 1] : t \in S}]
      BY <2>2 DEF Claim
    <3>2. Held(w) = {} /\ current[w] = {}
      BY <2>2 DEF Claim, LeaseInv, Held
    <3>3. current' = current /\ phase' = [phase EXCEPT ![w] = "running"]
      BY <2>2 DEF Claim
    <3>4. \A v \in Workers : v # w => Held(v)' = Held(v) /\ phase'[v] = phase[v]
      BY <3>1, <3>3 DEF Held, TypeOK
    <3>5. batch'[w] = {[task |-> t, started |-> now, attempts |-> row[t].attempts + 1] : t \in S}
      BY <3>1 DEF TypeOK
    <3>6. Held(w)' = batch'[w]
      BY <3>2, <3>3 DEF Held
    <3>7. \A l \in Held(w)' : l.started = now
      BY <3>5, <3>6
    <3>8. \A l1, l2 \in Held(w)' : l1.task = l2.task => l1 = l2
      BY <3>5, <3>6
    <3>9. \A v \in Workers : \A l \in Held(v) : l.started # now
      BY <3>1 DEF UsedInstants
    <3>10. phase'[w] = "running"
      BY <3>3 DEF TypeOK
    <3> HIDE DEF Held
    <3>11. QED
      BY <3>4, <3>7, <3>8, <3>9, <3>10 DEF LeaseInv
  <2>3. CASE ClaimNothing(w)
    <3>1. Held(w) = {}
      BY <2>3 DEF ClaimNothing, LeaseInv
    <3>2. \A v \in Workers : Held(v)' = Held(v)
      BY <2>3 DEF ClaimNothing, Held
    <3>3. \A v \in Workers : v # w => phase'[v] = phase[v]
      BY <2>3 DEF ClaimNothing, TypeOK
    <3>4. QED
      BY <3>1, <3>2, <3>3, LeasesShrink DEF LeaseInv
  <2>4. ASSUME NEW l \in batch[w], RunHandler(w, l)
        PROVE  LeaseInv'
    <3>1. PICK o \in Outcomes :
            current' = [current EXCEPT ![w] = {[lease |-> l, outcome |-> o]}]
      BY <2>4 DEF RunHandler
    <3>2. batch' = [batch EXCEPT ![w] = @ \ {l}] /\ phase' = phase /\ phase[w] = "running"
      BY <2>4 DEF RunHandler
    <3>3. \A v \in Workers : v # w => batch'[v] = batch[v] /\ current'[v] = current[v]
      BY <3>1, <3>2 DEF TypeOK
    <3>4. batch'[w] = batch[w] \ {l} /\ current'[w] = {[lease |-> l, outcome |-> o]}
      BY <3>1, <3>2 DEF TypeOK
    <3>5. Held(w)' \subseteq Held(w)
      BY <3>4 DEF Held
    <3>6. \A v \in Workers : v # w => Held(v)' = Held(v)
      BY <3>3 DEF Held
    <3>7. QED
      BY <3>2, <3>5, <3>6, LeasesShrink DEF LeaseInv
  <2>5. CASE FinishTask(w)
    <3>1. batch' = batch /\ current' = [current EXCEPT ![w] = {}]
          /\ phase' = [phase EXCEPT ![w] = IF batch[w] = {} THEN "idle" ELSE "running"]
      BY <2>5 DEF FinishTask
    <3>2. \A v \in Workers : v # w => Held(v)' = Held(v) /\ phase'[v] = phase[v]
      BY <3>1 DEF Held, TypeOK
    <3>3. Held(w)' = batch[w] /\ (phase'[w] # "running" => batch[w] = {})
      BY <3>1 DEF Held, TypeOK
    <3>4. Held(w)' \subseteq Held(w)
      BY <3>3 DEF Held
    <3>5. QED
      BY <3>2, <3>3, <3>4, LeasesShrink DEF LeaseInv
  <2>6. CASE Crash(w)
    <3>1. \A v \in Workers : v # w => Held(v)' = Held(v) /\ phase'[v] = phase[v]
      BY <2>6 DEF Crash, Held, TypeOK
    <3>2. Held(w)' = {}
      BY <2>6 DEF Crash, Held, TypeOK
    <3>3. QED
      BY <3>1, <3>2, LeasesShrink DEF LeaseInv
  <2>7. QED
    BY <1>2, <2>1, <2>2, <2>3, <2>4, <2>5, <2>6 DEF ProcessDueTasks, ClaimDueTasks
<1>3. CASE \E t \in Tasks : Business(t) \/ Time(t)
  <2>1. UNCHANGED worker
    BY <1>3 DEF Business, Time, Register, CancelBusinessTask, SuspendFulfillmentTask, Reopen,
       MarkBusinessTaskSucceeded, MarkRefundTaskSucceeded, RetryFailedTask, BecomeDue,
       LeaseTimeout, Write
  <2>2. QED
    BY <1>1, <2>1
<1>4. QED
  BY <1>1, <1>2, <1>3 DEF Next, vars, worker

\* At most one worker holds a lease that the fence of _finish_task and
\* _fail_task still accepts, in every behaviour.
THEOREM LeaseExclusive == Spec => []ExclusiveLease
<1>1. Init => LeaseInv
  BY DEF Init, LeaseInv, Held
<1>2. LeaseInv => ExclusiveLease
  BY DEF LeaseInv, ExclusiveLease, Current, LeaseCurrent
<1>3. TypeOK /\ LeaseInv /\ [Next]_vars => LeaseInv'
  BY LeaseStep
<1>4. QED
  BY <1>1, <1>2, <1>3, TypeCorrect, PTL DEF Spec
=============================================================================
