--------------------------- MODULE RefundExecution ---------------------------
(***************************************************************************)
(* Paying one refund back (orders/services.py, activities/huifu.py and the *)
(* handlers of taskcenter/services.py): the task, an operator's retry and  *)
(* the gateway's notifications submit the refund, query it and apply what  *)
(* the query says.  Provider orders and activities run the same protocol;  *)
(* `family' tells the places apart where they differ.                      *)
(*                                                                         *)
(* The gateway is called outside all transactions; an answer may be lost   *)
(* after the gateway registered the request.  It knows a request by        *)
(* <<req_date, req_seq_id>>; req_seq_id is the refund's number, so a       *)
(* request is known here by its date.  It refuses a request it has already *)
(* (code 20000000) and reports every status it reaches, repeatedly.        *)
(***************************************************************************)
EXTENDS Integers, FiniteSets

CONSTANTS
  Calls,    \* task handlers, retries and notification requests in flight
  LastDay   \* bound: days that pass while the refund is open

ASSUME RefundAssumption == LastDay \in Nat \ {0}

VARIABLES
  family,   \* "provider" or "activity"
  external, \* external_refund_amount > 0
  day,      \* today, as req_date would record it
  refund,   \* the refund row: status, req_date, whether an answer was stored
  credits,  \* completions of the wallet's part (complete_wallet_refund)
  task,     \* the refund's scheduled task, and the call that holds its lease
  notice,   \* the stored notification of each trans_stat
  gateway,  \* status of the request of each date
  call      \* what each call is doing

vars == <<family, external, day, refund, credits, task, notice, gateway, call>>

NoDay == 0

Days == 1..LastDay

RefundStatuses == {"pending", "processing", "succeeded", "failed"}

Idle == [kind |-> "none", stage |-> "idle", answer |-> "none"]

TypeOK ==
  /\ family \in {"provider", "activity"}
  /\ external \in BOOLEAN
  /\ day \in Days
  /\ refund \in [status: RefundStatuses, req_date: {NoDay} \cup Days, answered: BOOLEAN]
  /\ credits \in Nat
  /\ task \in [status: {"pending", "running", "succeeded", "failed"}, runner: Calls \cup {"none"}]
  /\ notice \in [{"P", "S", "F"} -> {"unsent", "received", "processed"}]
  /\ gateway \in [Days -> {"none", "P", "S", "F"}]
  /\ call \in [Calls -> {Idle} \cup
       [kind: {"task", "retry", "P", "S", "F"},
        stage: {"submit", "save", "query", "record", "apply", "ack"},
        answer: {"none", "P", "S", "F"}]]

Init ==
  /\ family \in {"provider", "activity"}
  /\ external \in BOOLEAN
  /\ day = 1
  /\ refund = [status |-> "pending", req_date |-> NoDay, answered |-> FALSE]
  /\ credits = 0
  /\ task = [status |-> "pending", runner |-> "none"]
  /\ notice = [s \in {"P", "S", "F"} |-> "unsent"]
  /\ gateway = [d \in Days |-> "none"]
  /\ call = [c \in Calls |-> Idle]

-----------------------------------------------------------------------------
(* The task around a call.  Only the holder of the lease writes the        *)
(* outcome; whether the attempts are used up is left open.                 *)

\* The handler's outcome for the refund status it is left with.
Outcomes(status) ==
  CASE status = "processing" -> {"pending"} \cup (IF family = "provider" THEN {"failed"} ELSE {})
    [] status = "failed" /\ family = "provider" -> {"failed"}
    [] OTHER -> {"succeeded"}

Released(status) == [status |-> status, runner |-> "none"]

\* The call returns a refund whose status is `status'.
Return(c, status, t) ==
  /\ IF t.runner = c
     THEN \E s \in Outcomes(status) : task' = Released(s)
     ELSE task' = t
  /\ call' = [call EXCEPT ![c] = Idle]

\* The call raises: a task is retried until its attempts are used up.
Raise(c) ==
  /\ IF task.runner = c
     THEN \E s \in {"pending", "failed"} : task' = Released(s)
     ELSE UNCHANGED task
  /\ call' = [call EXCEPT ![c] = Idle]

\* HuifuRefundTerminalError: the provider handler fails the task at once.
RaiseTerminal(c) ==
  /\ IF task.runner = c
     THEN \E s \in {"failed"} \cup (IF family = "activity" THEN {"pending"} ELSE {}) :
            task' = Released(s)
     ELSE UNCHANGED task
  /\ call' = [call EXCEPT ![c] = Idle]

Goto(c, stage, answer) == call' = [call EXCEPT ![c].stage = stage, ![c].answer = answer]

-----------------------------------------------------------------------------
(* Completing: one transaction under the order's (the activity's) lock.    *)

\* _complete_provider_order_refund, complete_activity_participation_refund
Completed ==
  IF refund.status = "succeeded"
  THEN UNCHANGED <<refund, credits>>
  ELSE /\ refund' = [refund EXCEPT !.status = "succeeded"]
       /\ credits' = credits + 1

\* _mark_refund_task_succeeded: a running task is left to its runner.
MarkedTask == IF task.status \in {"pending", "failed"} THEN Released("succeeded") ELSE task

CompleteAndReturn(c) ==
  /\ Completed
  /\ Return(c, "succeeded", IF refund.status = "succeeded" THEN task ELSE MarkedTask)

-----------------------------------------------------------------------------
(* Calls begin.                                                            *)

\* Mutant: every attempt carries today's date.
Located_Today(r) == [r EXCEPT !.req_date = day, !.status = "processing"]

\* The request is located once, before it is first sent.
Located(r) ==
  [r EXCEPT !.req_date = IF @ = NoDay THEN day ELSE @, !.status = "processing"]

\* A refund is sent as long as no answer about it was ever stored.
NextStage == IF refund.answered THEN "query" ELSE "submit"

\* process_provider_order_refund / _process_refund, up to the end of its transaction
Process(c, kind, t) ==
  IF refund.status = "succeeded" \/ ~external
  THEN /\ Completed
       /\ IF kind = "task"
          THEN task' = Released("succeeded")
          ELSE task' = IF refund.status = "succeeded" THEN task ELSE MarkedTask
       /\ UNCHANGED call
  ELSE /\ refund' = Located(refund)
       /\ call' = [call EXCEPT ![c] = [kind |-> kind, stage |-> NextStage, answer |-> "none"]]
       /\ task' = t
       /\ UNCHANGED credits

RunTask(c) ==
  /\ call[c] = Idle
  /\ task.status = "pending"
  /\ Process(c, "task", [status |-> "running", runner |-> c])
  /\ UNCHANGED <<family, external, day, notice, gateway>>

\* provider_order_refund_can_retry and its activity twin: a `processing' refund
\* only when it has not been touched for a while, which the model leaves open.
CanRetry == refund.status # "succeeded"

Retry(c) ==
  /\ call[c] = Idle
  /\ CanRetry
  /\ Process(c, "retry", task)
  /\ UNCHANGED <<family, external, day, notice, gateway>>

\* An operator retries a refund from the list of refunds of its family.
RetryProviderRefund(c) == family = "provider" /\ Retry(c)

RetryActivityRefund(c) == family = "activity" /\ Retry(c)

\* retry_failed_task, by an operator
RetryTask ==
  /\ task.status = "failed"
  /\ task' = Released("pending")
  /\ UNCHANGED <<family, external, day, refund, credits, notice, gateway, call>>

Received(s) == [notice EXCEPT ![s] = IF @ = "processed" THEN @ ELSE "received"]

\* A notification of a request the gateway has: stored, then answered by a query.
Notify(c, s) ==
  /\ call[c] = Idle
  /\ refund.req_date # NoDay
  /\ gateway[refund.req_date] # "none"
  /\ s \in {"P", gateway[refund.req_date]}
  /\ notice[s] # "processed"
  /\ notice' = Received(s)
  /\ call' = [call EXCEPT ![c] = [kind |-> s, stage |-> "query", answer |-> "none"]]
  /\ UNCHANGED <<family, external, day, refund, credits, task, gateway>>

-----------------------------------------------------------------------------
(* The calls' further steps.                                               *)

\* gateway.refund_payment: registered and answered, registered and the
\* answer lost, or refused (as a duplicate too) or never arrived.
Submit(c) ==
  /\ call[c].stage = "submit"
  /\ \/ /\ gateway[refund.req_date] = "none"
        /\ gateway' = [gateway EXCEPT ![refund.req_date] = "P"]
        /\ \/ Goto(c, "save", "none") /\ UNCHANGED task
           \/ Raise(c)
     \/ Raise(c) /\ UNCHANGED gateway
  /\ UNCHANGED <<family, external, day, refund, credits, notice>>

Save(c) ==
  /\ call[c].stage = "save"
  /\ refund' = [refund EXCEPT !.answered = TRUE]
  /\ Goto(c, "query", "none")
  /\ UNCHANGED <<family, external, day, credits, task, notice, gateway>>

\* gateway.query_refund; a request the gateway does not know is an error
Query(c) ==
  /\ call[c].stage = "query"
  /\ \/ gateway[refund.req_date] # "none" /\ Goto(c, "record", gateway[refund.req_date]) /\ UNCHANGED task
     \/ Raise(c)
  /\ UNCHANGED <<family, external, day, refund, credits, notice, gateway>>

Record(c) ==
  /\ call[c].stage = "record"
  /\ refund' = [refund EXCEPT !.answered = TRUE]
  /\ Goto(c, "apply", call[c].answer)
  /\ UNCHANGED <<family, external, day, credits, task, notice, gateway>>

IsNotice(c) == call[c].kind \in {"P", "S", "F"}

ApplySuccess(c) ==
  /\ call[c].stage = "apply"
  /\ call[c].answer = "S"
  /\ IF IsNotice(c)
     THEN /\ Completed
          /\ Goto(c, "ack", "none")
          /\ task' = IF refund.status = "succeeded" THEN task ELSE MarkedTask
     ELSE CompleteAndReturn(c)
  /\ UNCHANGED <<family, external, day, notice, gateway>>

\* F is written without looking at the row.
ApplyFailure(c) ==
  /\ call[c].stage = "apply"
  /\ call[c].answer = "F"
  /\ refund' = [refund EXCEPT !.status = "failed"]
  /\ IF IsNotice(c) THEN Goto(c, "ack", "none") /\ UNCHANGED task ELSE RaiseTerminal(c)
  /\ UNCHANGED <<family, external, day, credits, notice, gateway>>

\* Nothing decided: the caller gets the row as it now is.
ApplyPending(c) ==
  /\ call[c].stage = "apply"
  /\ call[c].answer = "P"
  /\ IF IsNotice(c) THEN Goto(c, "ack", "none") /\ UNCHANGED task ELSE Return(c, refund.status, task)
  /\ UNCHANGED <<family, external, day, refund, credits, notice, gateway>>

Acknowledge(c) ==
  /\ call[c].stage = "ack"
  /\ notice' = [notice EXCEPT ![call[c].kind] = "processed"]
  /\ call' = [call EXCEPT ![c] = Idle]
  /\ UNCHANGED <<family, external, day, refund, credits, task, gateway>>

\* The process of a call dies; its task's lease runs out later.
CutOff(c) ==
  /\ call[c] # Idle
  /\ call' = [call EXCEPT ![c] = Idle]
  /\ UNCHANGED <<family, external, day, refund, credits, task, notice, gateway>>

\* A lease runs out, whether or not its holder still works.
ExpireLease ==
  /\ task.status = "running"
  /\ task' = Released("pending")
  /\ UNCHANGED <<family, external, day, refund, credits, notice, gateway, call>>

Decide(d) ==
  /\ gateway[d] = "P"
  /\ \E s \in {"S", "F"} : gateway' = [gateway EXCEPT ![d] = s]
  /\ UNCHANGED <<family, external, day, refund, credits, task, notice, call>>

NewDay ==
  /\ day < LastDay
  /\ day' = day + 1
  /\ UNCHANGED <<family, external, refund, credits, task, notice, gateway, call>>

Step(c) ==
  \/ Submit(c) \/ Save(c) \/ Query(c) \/ Record(c)
  \/ ApplySuccess(c) \/ ApplyFailure(c) \/ ApplyPending(c) \/ Acknowledge(c)

Next ==
  \/ \E c \in Calls :
       \/ RunTask(c) \/ RetryProviderRefund(c) \/ RetryActivityRefund(c)
       \/ Step(c) \/ CutOff(c)
       \/ \E s \in {"P", "S", "F"} : Notify(c, s)
  \/ RetryTask \/ ExpireLease \/ NewDay
  \/ \E d \in Days : Decide(d)

Spec == Init /\ [][Next]_vars

\* A query whose answer is lost, or a call cut off.
Unlucky(c) == CutOff(c) \/ (Query(c) /\ call'[c] = Idle)

\* Calls go on, the gateway decides and repeats its notification until it is
\* answered, and from some time on no call dies and no query is lost.
LiveSpec ==
  /\ Spec
  /\ \A c \in Calls : WF_vars(Step(c))
  /\ \A d \in Days : WF_vars(Decide(d))
  /\ \A s \in {"S", "F"} : SF_vars(\E c \in Calls : Notify(c, s))
  /\ <>[][\A c \in Calls : ~Unlucky(c)]_vars

-----------------------------------------------------------------------------
(* Properties *)

\* However often a refund is sent, after lost answers and on later days, the
\* gateway has one request for it: it pays back once.
SentOnce == Cardinality({d \in Days : gateway[d] # "none"}) <= 1

\* A refund is completed only when the gateway has paid its part back.
SucceededIsPaidBack ==
  refund.status = "succeeded" /\ external =>
    refund.req_date # NoDay /\ gateway[refund.req_date] = "S"

\* The task, a retry and a notification that all see S complete the refund
\* once: the wallet's part is credited exactly when the refund succeeded.
CreditedOnce == credits = IF refund.status = "succeeded" THEN 1 ELSE 0

\* A succeeded refund stays so, whatever stale answer a slow call still holds.
SucceededIsFinal == refund.status = "succeeded" => refund'.status = "succeeded"

\* The task of a provider refund does not report success for a refund that
\* did not succeed.
TaskDoneIsPaidBack ==
  family = "provider" /\ task.status = "succeeded" => refund.status = "succeeded"

\* What the execution of a refund promises in every state.
PaidBackOnce ==
  TypeOK /\ SentOnce /\ SucceededIsPaidBack /\ CreditedOnce /\ TaskDoneIsPaidBack

\* Money the gateway has paid back is recorded in the end, even when the
\* answer to the submission was lost and no retry gets past the duplicate.
PaidBack == \E d \in Days : gateway[d] = "S"
Recorded == refund.status = "succeeded"
PaidBackIsRecorded == PaidBack ~> Recorded

\* What the failure message of a refund promises: retrying it after the
\* channel said F asks the channel to refund again.
RetryAsksAgain ==
  [][\A c \in Calls : refund.status = "failed" /\ call[c] = Idle /\ call'[c].kind = "retry"
                        => call'[c].stage = "submit"]_vars

=============================================================================
