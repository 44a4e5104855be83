----------------------------- MODULE RefundProofs -----------------------------
(***************************************************************************)
(* Proofs about RefundExecution, for any calls in flight and any number of *)
(* days.  That a refund is paid back once and recorded as the channel      *)
(* decided it rests on what the calls under way may rely on: the request   *)
(* has been located before any of them starts, its date never changes, and *)
(* a decision one of them has heard is the channel's for good.             *)
(***************************************************************************)
EXTENDS RefundExecution, FiniteSetTheorems, TLAPS

\* A located refund is one the channel has a part in, and it has been tried.
Dated == refund.req_date # NoDay => external /\ refund.status # "pending"

\* Nobody works on a refund that is not located.
Begun == \A c \in Calls : call[c] # Idle => refund.req_date # NoDay

\* A decision a call has heard is the channel's decision about the request.
HeardIsTrue ==
  \A c \in Calls : call[c].answer \in {"S", "F"} => gateway[refund.req_date] = call[c].answer

\* The channel knows no request but the one of the recorded date.
OneRequest == \A d \in Days : gateway[d] # "none" => d = refund.req_date

Inv ==
  /\ TypeOK /\ Dated /\ Begun /\ HeardIsTrue /\ OneRequest
  /\ SucceededIsPaidBack /\ CreditedOnce /\ TaskDoneIsPaidBack

-----------------------------------------------------------------------------
(* The types by name *)

Refunds == [status: RefundStatuses, req_date: {NoDay} \cup Days, answered: BOOLEAN]

Tasks == [status: {"pending", "running", "succeeded", "failed"}, runner: Calls \cup {"none"}]

Notices == [{"P", "S", "F"} -> {"unsent", "received", "processed"}]

Gateways == [Days -> {"none", "P", "S", "F"}]

Active ==
  [kind: {"task", "retry", "P", "S", "F"},
   stage: {"submit", "save", "query", "record", "apply", "ack"},
   answer: {"none", "P", "S", "F"}]

\* TypeOK, with the types by name.
LEMMA Types ==
  TypeOK <=>
    /\ family \in {"provider", "activity"} /\ external \in BOOLEAN /\ day \in Days
    /\ refund \in Refunds /\ credits \in Nat /\ task \in Tasks /\ notice \in Notices
    /\ gateway \in Gateways /\ call \in [Calls -> {Idle} \cup Active]
BY DEF TypeOK, Refunds, Tasks, Notices, Gateways, Active

LEMMA TypesNext ==
  TypeOK' <=>
    /\ family' \in {"provider", "activity"} /\ external' \in BOOLEAN /\ day' \in Days
    /\ refund' \in Refunds /\ credits' \in Nat /\ task' \in Tasks /\ notice' \in Notices
    /\ gateway' \in Gateways /\ call' \in [Calls -> {Idle} \cup Active]
BY DEF TypeOK, Refunds, Tasks, Notices, Gateways, Active

\* A call at a stage of its own is not idle.
LEMMA Working ==
  ASSUME Inv, NEW c \in Calls, call[c].stage # "idle"
  PROVE  /\ call[c] \in Active /\ refund.req_date \in Days /\ refund.req_date # NoDay
         /\ external /\ refund.status # "pending"
<1>1. call[c] # Idle
  BY DEF Idle
<1>2. QED
  BY <1>1, Types DEF Inv, Begun, Dated, Refunds

LEMMA InitInv == Init => Inv
<1> SUFFICES ASSUME Init PROVE Inv
  OBVIOUS
<1>1. TypeOK
  BY RefundAssumption, Types DEF Init, Refunds, Tasks, Notices, Gateways, RefundStatuses, Days, NoDay
<1>2. QED
  BY <1>1 DEF Init, Inv, Dated, Begun, HeardIsTrue, OneRequest, SucceededIsPaidBack,
     CreditedOnce, TaskDoneIsPaidBack, Idle, NoDay, Days

-----------------------------------------------------------------------------
(* Steps that leave the refund's status and the channel alone *)

\* What a step that decides nothing has to respect.
Quiet ==
  /\ UNCHANGED <<family, external, credits, gateway>>
  /\ day' \in Days /\ notice' \in Notices /\ task' \in Tasks /\ refund' \in Refunds
  /\ refund'.status = refund.status /\ refund'.req_date = refund.req_date
  /\ family = "provider" /\ task'.status = "succeeded" => refund.status = "succeeded"
  /\ call' \in [Calls -> {Idle} \cup Active]
  /\ \A c \in Calls : call'[c] # call[c] /\ call'[c] # Idle =>
       /\ refund.req_date # NoDay
       /\ call'[c].answer \in {"S", "F"} => gateway[refund.req_date] = call'[c].answer

LEMMA QuietStep == ASSUME Inv, Quiet PROVE Inv'
<1>1. TypeOK'
  BY Types, TypesNext DEF Inv, Quiet
<1>2. Dated' /\ OneRequest' /\ SucceededIsPaidBack' /\ CreditedOnce' /\ TaskDoneIsPaidBack'
  BY DEF Quiet, Inv, Dated, OneRequest, SucceededIsPaidBack, CreditedOnce, TaskDoneIsPaidBack
<1>3. Begun'
  BY DEF Quiet, Inv, Begun
<1>4. HeardIsTrue'
  BY DEF Quiet, Inv, HeardIsTrue, Idle
<1>5. QED
  BY <1>1, <1>2, <1>3, <1>4 DEF Inv

\* The outcome of a task says success only of a refund that succeeded.
LEMMA OutcomeOfTask ==
  ASSUME Inv, NEW c \in Calls, NEW s \in RefundStatuses, s # "pending", NEW t \in Tasks,
         family = "provider" /\ t.status = "succeeded" => s = "succeeded",
         Return(c, s, t)
  PROVE  /\ task' \in Tasks
         /\ family = "provider" /\ task'.status = "succeeded" => s = "succeeded"
<1>1. \A x \in Outcomes(s) : /\ Released(x) \in Tasks /\ Released(x).status = x
                             /\ family = "provider" /\ x = "succeeded" => s = "succeeded"
  BY DEF Outcomes, Released, Tasks, RefundStatuses
<1>2. QED
  BY <1>1 DEF Return

LEMMA RaisedTask ==
  ASSUME Inv, NEW c \in Calls, Raise(c) \/ RaiseTerminal(c)
  PROVE  task' \in Tasks /\ (task' = task \/ task'.status # "succeeded")
<1>1. \A x \in {"pending", "failed"} : Released(x) \in Tasks /\ Released(x).status = x
  BY DEF Released, Tasks
<1>2. task \in Tasks
  BY Types DEF Inv
<1>3. QED
  BY <1>1, <1>2 DEF Raise, RaiseTerminal

\* A call goes on with an answer, or ends.
LEMMA GoOn ==
  ASSUME Inv, NEW c \in Calls, call[c].stage # "idle",
         NEW g \in {"submit", "save", "query", "record", "apply", "ack"},
         NEW a \in {"none", "P", "S", "F"}, Goto(c, g, a)
  PROVE  /\ call' \in [Calls -> {Idle} \cup Active]
         /\ call'[c].answer = a /\ \A e \in Calls \ {c} : call'[e] = call[e]
<1>1. call[c] \in Active /\ call \in [Calls -> {Idle} \cup Active]
  BY Working, Types DEF Inv
<1>2. [[call[c] EXCEPT !.stage = g] EXCEPT !.answer = a] \in Active
  BY <1>1 DEF Active
<1>3. call' = [call EXCEPT ![c] = [[call[c] EXCEPT !.stage = g] EXCEPT !.answer = a]]
  BY <1>1 DEF Goto
<1>4. QED
  BY <1>1, <1>2, <1>3 DEF Active

LEMMA Ended ==
  ASSUME Inv, NEW c \in Calls, call' = [call EXCEPT ![c] = Idle]
  PROVE  /\ call' \in [Calls -> {Idle} \cup Active]
         /\ call'[c] = Idle /\ \A e \in Calls \ {c} : call'[e] = call[e]
BY Types DEF Inv

-----------------------------------------------------------------------------
(* The calls' steps *)

LEMMA SubmitStep == ASSUME Inv, NEW c \in Calls, Submit(c) PROVE Inv'
<1>0. /\ call[c].stage # "idle" /\ UNCHANGED <<family, external, day, refund, credits, notice>>
      /\ refund.req_date \in Days /\ refund.req_date # NoDay /\ refund \in Refunds /\ task \in Tasks
      /\ day \in Days /\ notice \in Notices /\ gateway \in Gateways
  BY Working, Types DEF Submit, Inv
<1>1. /\ task' \in Tasks /\ (task' = task \/ task'.status # "succeeded")
      /\ call' \in [Calls -> {Idle} \cup Active]
      /\ call'[c].answer = "none" /\ \A e \in Calls \ {c} : call'[e] = call[e]
  <2>1. CASE Raise(c)
    BY <2>1, RaisedTask, Ended DEF Raise, Idle
  <2>2. CASE Goto(c, "save", "none") /\ UNCHANGED task
    BY <1>0, <2>2, GoOn
  <2>3. QED
    BY <2>1, <2>2 DEF Submit
<1>2. CASE UNCHANGED gateway
  <2>1. Quiet
    BY <1>0, <1>1, <1>2 DEF Quiet, Inv, TaskDoneIsPaidBack
  <2>2. QED
    BY <2>1, QuietStep
<1>3. CASE gateway[refund.req_date] = "none" /\ gateway' = [gateway EXCEPT ![refund.req_date] = "P"]
  <2>1. gateway' \in Gateways /\ \A d \in Days : gateway'[d] # gateway[d] => d = refund.req_date
    BY <1>0, <1>3 DEF Gateways
  <2>2. TypeOK'
    BY <1>0, <1>1, <2>1, Types, TypesNext DEF Inv
  <2>3. \A e \in Calls : call[e].answer \notin {"S", "F"}
    BY <1>3 DEF Inv, HeardIsTrue
  <2>4. HeardIsTrue' /\ Begun' /\ Dated'
    BY <1>0, <1>1, <2>3 DEF HeardIsTrue, Begun, Dated, Inv
  <2>5. OneRequest'
    BY <1>0, <2>1 DEF OneRequest, Inv
  <2>6. SucceededIsPaidBack' /\ CreditedOnce' /\ TaskDoneIsPaidBack'
    BY <1>0, <1>1, <1>3 DEF Inv, SucceededIsPaidBack, CreditedOnce, TaskDoneIsPaidBack
  <2>7. QED
    BY <2>2, <2>4, <2>5, <2>6 DEF Inv
<1>4. QED
  BY <1>2, <1>3 DEF Submit

\* An answer is stored, whatever it says.
LEMMA StoredStep == ASSUME Inv, NEW c \in Calls, Save(c) \/ Record(c) PROVE Inv'
<1>1. /\ call[c].stage # "idle" /\ call[c] \in Active /\ refund.req_date # NoDay
      /\ refund \in Refunds /\ task \in Tasks /\ day \in Days /\ notice \in Notices
  BY Working, Types DEF Save, Record, Inv
<1>2. refund' = [refund EXCEPT !.answered = TRUE] /\ UNCHANGED <<family, external, day, credits, task, notice, gateway>>
  BY DEF Save, Record
<1>3. refund' \in Refunds /\ refund'.status = refund.status /\ refund'.req_date = refund.req_date
  BY <1>1, <1>2 DEF Refunds
<1>4. PICK a \in {"none", call[c].answer} :
        /\ call' \in [Calls -> {Idle} \cup Active]
        /\ call'[c].answer = a /\ \A e \in Calls \ {c} : call'[e] = call[e]
  <2>1. call[c].answer \in {"none", "P", "S", "F"}
    BY <1>1 DEF Active
  <2>2. CASE Save(c)
    BY <1>1, <2>2, GoOn DEF Save
  <2>3. CASE Record(c)
    BY <1>1, <2>1, <2>3, GoOn DEF Record
  <2>4. QED
    BY <2>2, <2>3
<1>5. Quiet
  BY <1>1, <1>2, <1>3, <1>4 DEF Quiet, Inv, TaskDoneIsPaidBack, HeardIsTrue
<1>6. QED
  BY <1>5, QuietStep

LEMMA QueryStep == ASSUME Inv, NEW c \in Calls, Query(c) PROVE Inv'
<1>1. /\ call[c].stage # "idle" /\ refund.req_date # NoDay /\ refund.req_date \in Days
      /\ refund \in Refunds /\ task \in Tasks /\ day \in Days /\ notice \in Notices
      /\ gateway \in Gateways
  BY Working, Types DEF Query, Inv
<1>2. UNCHANGED <<family, external, day, refund, credits, notice, gateway>>
  BY DEF Query
<1>3. /\ task' \in Tasks /\ (task' = task \/ task'.status # "succeeded")
      /\ call' \in [Calls -> {Idle} \cup Active]
      /\ call'[c].answer \in {"none", gateway[refund.req_date]}
      /\ \A e \in Calls \ {c} : call'[e] = call[e]
  <2>1. CASE Raise(c)
    BY <2>1, RaisedTask, Ended DEF Raise, Idle
  <2>2. CASE Goto(c, "record", gateway[refund.req_date]) /\ UNCHANGED task
    <3>1. gateway[refund.req_date] \in {"none", "P", "S", "F"}
      BY <1>1 DEF Gateways
    <3>2. QED
      BY <1>1, <2>2, <3>1, GoOn
  <2>3. QED
    BY <2>1, <2>2 DEF Query
<1>4. Quiet
  BY <1>1, <1>2, <1>3 DEF Quiet, Inv, TaskDoneIsPaidBack
<1>5. QED
  BY <1>4, QuietStep

\* The steps that leave the row as it is and end the call or acknowledge its notification.
LEMMA LeavingStep ==
  ASSUME Inv, NEW c \in Calls, ApplyPending(c) \/ Acknowledge(c) \/ CutOff(c) PROVE Inv'
<1>1. /\ call[c] \in {Idle} \cup Active /\ refund \in Refunds /\ task \in Tasks /\ day \in Days
      /\ notice \in Notices
  BY Types DEF Inv
<1>2. UNCHANGED <<family, external, day, refund, credits, gateway>>
  BY DEF ApplyPending, Acknowledge, CutOff
<1>3. notice' \in Notices
  <2>1. CASE Acknowledge(c)
    BY <1>1, <2>1 DEF Acknowledge, Notices
  <2>2. QED
    BY <1>1, <2>1 DEF ApplyPending, CutOff
<1>4. /\ task' \in Tasks
      /\ family = "provider" /\ task'.status = "succeeded" => refund.status = "succeeded"
      /\ call' \in [Calls -> {Idle} \cup Active]
      /\ call'[c].answer = "none" /\ \A e \in Calls \ {c} : call'[e] = call[e]
      /\ call'[c] # Idle => refund.req_date # NoDay
  <2>0. family = "provider" /\ task.status = "succeeded" => refund.status = "succeeded"
    BY DEF Inv, TaskDoneIsPaidBack
  <2>1. CASE Acknowledge(c) \/ CutOff(c)
    BY <1>1, <2>0, <2>1, Ended DEF Acknowledge, CutOff, Idle
  <2>2. CASE ApplyPending(c)
    <3>1. call[c].stage # "idle" /\ refund.req_date # NoDay /\ refund.status # "pending"
      BY <2>2, Working DEF ApplyPending
    <3>2. CASE Goto(c, "ack", "none") /\ UNCHANGED task
      BY <1>1, <2>0, <3>1, <3>2, GoOn
    <3>3. CASE Return(c, refund.status, task)
      <4>1. refund.status \in RefundStatuses
        BY <1>1 DEF Refunds
      <4>2. call' = [call EXCEPT ![c] = Idle]
        BY <3>3 DEF Return
      <4>3. QED
        BY <1>1, <2>0, <3>1, <3>3, <4>1, <4>2, OutcomeOfTask, Ended DEF Idle
    <3>4. QED
      BY <2>2, <3>2, <3>3 DEF ApplyPending
  <2>3. QED
    BY <2>1, <2>2
<1>5. Quiet
  BY <1>1, <1>2, <1>3, <1>4 DEF Quiet
<1>6. QED
  BY <1>5, QuietStep
-----------------------------------------------------------------------------
(* Decisions about the refund *)

\* A completion: the wallet is credited only if it was not before.
LEMMA CompletionStep ==
  ASSUME Inv, Completed, UNCHANGED <<family, external, day, notice, gateway>>,
         task' \in Tasks, call' \in [Calls -> {Idle} \cup Active],
         \A c \in Calls : call'[c] # call[c] /\ call'[c] # Idle =>
           refund.req_date # NoDay /\ call'[c].answer = "none",
         external => refund.req_date # NoDay /\ gateway[refund.req_date] = "S"
  PROVE  Inv'
<1>1. refund \in Refunds /\ credits = IF refund.status = "succeeded" THEN 1 ELSE 0
  BY Types DEF Inv, CreditedOnce
<1>2. /\ refund' \in Refunds /\ refund'.status = "succeeded" /\ refund'.req_date = refund.req_date
      /\ credits' = 1
  BY <1>1 DEF Completed, Refunds, RefundStatuses
<1>3. TypeOK'
  BY <1>2, Types, TypesNext DEF Inv
<1>4. Dated' /\ SucceededIsPaidBack' /\ CreditedOnce' /\ TaskDoneIsPaidBack'
  BY <1>2 DEF Inv, Dated, SucceededIsPaidBack, CreditedOnce, TaskDoneIsPaidBack
<1>5. OneRequest'
  BY <1>2 DEF Inv, OneRequest
<1>6. Begun'
  BY <1>2 DEF Inv, Begun
<1>7. HeardIsTrue'
  BY <1>2 DEF Inv, HeardIsTrue, Idle
<1>8. QED
  BY <1>3, <1>4, <1>5, <1>6, <1>7 DEF Inv

LEMMA MarkedIsTask == ASSUME Inv PROVE task \in Tasks /\ MarkedTask \in Tasks
BY Types DEF Inv, MarkedTask, Released, Tasks

LEMMA SuccessStep == ASSUME Inv, NEW c \in Calls, ApplySuccess(c) PROVE Inv'
<1>1. /\ call[c].stage # "idle" /\ refund.req_date # NoDay /\ gateway[refund.req_date] = "S"
      /\ UNCHANGED <<family, external, day, notice, gateway>> /\ Completed
  BY Working DEF ApplySuccess, CompleteAndReturn, Inv, HeardIsTrue
<1>2. /\ task' \in Tasks /\ call' \in [Calls -> {Idle} \cup Active]
      /\ call'[c].answer = "none" /\ \A e \in Calls \ {c} : call'[e] = call[e]
  <2>1. CASE IsNotice(c)
    BY <1>1, <2>1, GoOn, MarkedIsTask DEF ApplySuccess
  <2>2. CASE ~IsNotice(c)
    <3> DEFINE t == IF refund.status = "succeeded" THEN task ELSE MarkedTask
    <3>1. t \in Tasks /\ Return(c, "succeeded", t)
      BY <2>2, MarkedIsTask DEF ApplySuccess, CompleteAndReturn
    <3>2. task' \in Tasks
      <4> HIDE DEF t
      <4>1. "succeeded" \in RefundStatuses
        BY DEF RefundStatuses
      <4>2. QED
        BY <3>1, <4>1, OutcomeOfTask
    <3>3. call' = [call EXCEPT ![c] = Idle]
      BY <3>1 DEF Return
    <3>4. QED
      BY <3>2, <3>3, Ended DEF Idle
  <2>3. QED
    BY <2>1, <2>2
<1>3. QED
  BY <1>1, <1>2, CompletionStep

LEMMA FailureStep == ASSUME Inv, NEW c \in Calls, ApplyFailure(c) PROVE Inv'
<1>1. /\ call[c].stage # "idle" /\ refund.req_date # NoDay /\ gateway[refund.req_date] = "F" /\ external
      /\ UNCHANGED <<family, external, day, credits, notice, gateway>>
      /\ refund' = [refund EXCEPT !.status = "failed"]
  BY Working DEF ApplyFailure, Inv, HeardIsTrue
<1>2. refund.status # "succeeded" /\ credits = 0 /\ refund \in Refunds /\ task \in Tasks
  BY <1>1, Types DEF Inv, SucceededIsPaidBack, CreditedOnce
<1>3. refund' \in Refunds /\ refund'.status = "failed" /\ refund'.req_date = refund.req_date
  BY <1>1, <1>2 DEF Refunds, RefundStatuses
<1>4. /\ task' \in Tasks /\ (task' = task \/ task'.status # "succeeded")
      /\ call' \in [Calls -> {Idle} \cup Active]
      /\ call'[c].answer = "none" /\ \A e \in Calls \ {c} : call'[e] = call[e]
  <2>1. CASE IsNotice(c)
    BY <1>1, <1>2, <2>1, GoOn DEF ApplyFailure
  <2>2. CASE ~IsNotice(c)
    <3>1. RaiseTerminal(c) /\ call' = [call EXCEPT ![c] = Idle]
      BY <2>2 DEF ApplyFailure, RaiseTerminal
    <3>2. QED
      BY <3>1, RaisedTask, Ended DEF Idle
  <2>3. QED
    BY <2>1, <2>2
<1>5. TypeOK'
  BY <1>1, <1>3, <1>4, Types, TypesNext DEF Inv
<1>6. Dated' /\ SucceededIsPaidBack' /\ CreditedOnce' /\ TaskDoneIsPaidBack'
  BY <1>1, <1>2, <1>3, <1>4 DEF Inv, Dated, SucceededIsPaidBack, CreditedOnce, TaskDoneIsPaidBack
<1>7. OneRequest' /\ Begun'
  BY <1>1, <1>3 DEF Inv, OneRequest, Begun
<1>8. HeardIsTrue'
  BY <1>1, <1>3, <1>4 DEF Inv, HeardIsTrue
<1>9. QED
  BY <1>5, <1>6, <1>7, <1>8 DEF Inv

\* A task or a retry takes the refund up: it is done, or located for good.
LEMMA ProcessStep ==
  ASSUME Inv, NEW c \in Calls, call[c] = Idle, NEW kind \in {"task", "retry"}, NEW t \in Tasks,
         t = task \/ t.status # "succeeded", Process(c, kind, t),
         UNCHANGED <<family, external, day, notice, gateway>>
  PROVE  Inv'
<1>1. refund \in Refunds /\ day \in Days /\ call \in [Calls -> {Idle} \cup Active] /\ external \in BOOLEAN
  BY Types DEF Inv
<1>2. CASE refund.status = "succeeded" \/ ~external
  <2>1. Completed /\ UNCHANGED call
    BY <1>2 DEF Process
  <2>2. task' \in Tasks
    <3>1. Released("succeeded") \in Tasks
      BY DEF Released, Tasks
    <3>2. QED
      BY <1>2, <3>1, MarkedIsTask DEF Process
  <2>3. external => refund.req_date # NoDay /\ gateway[refund.req_date] = "S"
    BY <1>2 DEF Inv, SucceededIsPaidBack
  <2>4. QED
    BY <1>1, <2>1, <2>2, <2>3, CompletionStep
<1>3. CASE refund.status # "succeeded" /\ external
  <2>1. /\ refund' = Located(refund) /\ task' = t /\ UNCHANGED credits
        /\ call' = [call EXCEPT ![c] = [kind |-> kind, stage |-> NextStage, answer |-> "none"]]
    BY <1>3 DEF Process
  <2>2. /\ refund' \in Refunds /\ refund'.status = "processing"
        /\ refund'.req_date = IF refund.req_date = NoDay THEN day ELSE refund.req_date
    BY <1>1, <2>1 DEF Located, Refunds, RefundStatuses
  <2>3. refund'.req_date # NoDay
    BY <1>1, <2>2 DEF Days, NoDay
  <2>4. /\ [kind |-> kind, stage |-> NextStage, answer |-> "none"] \in Active
        /\ call'[c].answer = "none" /\ \A e \in Calls \ {c} : call'[e] = call[e]
    BY <1>1, <2>1 DEF NextStage, Active
  <2>5. TypeOK'
    BY <1>1, <2>1, <2>2, <2>4, Types, TypesNext DEF Inv
  <2>6. Dated' /\ Begun'
    BY <1>3, <2>2, <2>3 DEF Dated, Begun
  <2>7. OneRequest'
    <3>1. refund.req_date = NoDay => \A d \in Days : gateway[d] = "none"
      BY DEF Inv, OneRequest, Days, NoDay
    <3>2. QED
      BY <2>2, <3>1 DEF Inv, OneRequest
  <2>8. HeardIsTrue'
    <3>1. \A e \in Calls : call'[e].answer \in {"S", "F"} => call[e] # Idle /\ call'[e] = call[e]
      BY <2>4 DEF Idle
    <3>2. QED
      BY <2>2, <3>1 DEF Inv, HeardIsTrue, Begun
  <2>9. SucceededIsPaidBack' /\ CreditedOnce'
    BY <1>3, <2>1, <2>2 DEF Inv, SucceededIsPaidBack, CreditedOnce
  <2>10. TaskDoneIsPaidBack'
    BY <1>3, <2>1 DEF Inv, TaskDoneIsPaidBack
  <2>11. QED
    BY <2>5, <2>6, <2>7, <2>8, <2>9, <2>10 DEF Inv
<1>4. QED
  BY <1>1, <1>2, <1>3

LEMMA TakenUpStep == ASSUME Inv, NEW c \in Calls, RunTask(c) \/ Retry(c) PROVE Inv'
<1>1. [status |-> "running", runner |-> c] \in Tasks /\ task \in Tasks
  BY Types DEF Inv, Tasks
<1>2. CASE RunTask(c)
  BY <1>1, <1>2, ProcessStep DEF RunTask
<1>3. CASE Retry(c)
  BY <1>1, <1>3, ProcessStep DEF Retry
<1>4. QED
  BY <1>2, <1>3

LEMMA NotifyStep == ASSUME Inv, NEW c \in Calls, NEW s \in {"P", "S", "F"}, Notify(c, s) PROVE Inv'
<1>1. /\ call \in [Calls -> {Idle} \cup Active] /\ refund \in Refunds /\ task \in Tasks
      /\ day \in Days /\ notice \in Notices /\ refund.req_date # NoDay
      /\ call' = [call EXCEPT ![c] = [kind |-> s, stage |-> "query", answer |-> "none"]]
      /\ UNCHANGED <<family, external, day, refund, credits, task, gateway>>
  BY Types DEF Inv, Notify
<1>2. [kind |-> s, stage |-> "query", answer |-> "none"] \in Active
  BY DEF Active
<1>3. notice' \in Notices
  BY <1>1 DEF Notify, Received, Notices
<1>4. Quiet
  BY <1>1, <1>2, <1>3 DEF Quiet, Inv, TaskDoneIsPaidBack
<1>5. QED
  BY <1>4, QuietStep

\* The operators, the lease and the calendar.
LEMMA OutsideStep == ASSUME Inv, RetryTask \/ ExpireLease \/ NewDay PROVE Inv'
<1>1. /\ call \in [Calls -> {Idle} \cup Active] /\ refund \in Refunds /\ task \in Tasks
      /\ day \in Days /\ notice \in Notices
      /\ UNCHANGED <<family, external, refund, credits, notice, gateway, call>>
  BY Types DEF Inv, RetryTask, ExpireLease, NewDay
<1>2. /\ task' \in Tasks /\ (task' = task \/ task'.status # "succeeded")
  BY <1>1 DEF RetryTask, ExpireLease, NewDay, Released, Tasks
<1>3. day' \in Days
  BY <1>1, RefundAssumption DEF RetryTask, ExpireLease, NewDay, Days
<1>4. Quiet
  BY <1>1, <1>2, <1>3 DEF Quiet, Inv, TaskDoneIsPaidBack
<1>5. QED
  BY <1>4, QuietStep

LEMMA DecideStep == ASSUME Inv, NEW d \in Days, Decide(d) PROVE Inv'
<1>1. PICK s \in {"S", "F"} : gateway' = [gateway EXCEPT ![d] = s]
  BY DEF Decide
<1>2. /\ gateway[d] = "P" /\ gateway \in Gateways
      /\ UNCHANGED <<family, external, day, refund, credits, task, notice, call>>
  BY Types DEF Decide, Inv
<1>3. gateway' \in Gateways /\ \A e \in Days : e # d => gateway'[e] = gateway[e]
  BY <1>1, <1>2 DEF Gateways
<1>4. TypeOK'
  BY <1>2, <1>3, Types, TypesNext DEF Inv
<1>5. refund.req_date \in {NoDay} \cup Days
  BY Types DEF Inv, Refunds
<1>6. Dated' /\ Begun' /\ CreditedOnce' /\ TaskDoneIsPaidBack'
  BY <1>2 DEF Inv, Dated, Begun, CreditedOnce, TaskDoneIsPaidBack
<1>7. OneRequest'
  BY <1>2, <1>3 DEF Inv, OneRequest
<1>8. HeardIsTrue'
  <2>1. ASSUME NEW c \in Calls, call[c].answer \in {"S", "F"}
        PROVE  refund.req_date \in Days /\ refund.req_date # d
    BY <1>2, <1>5, <2>1 DEF Inv, HeardIsTrue, Begun, Idle
  <2>2. QED
    BY <1>2, <1>3, <2>1 DEF Inv, HeardIsTrue
<1>9. SucceededIsPaidBack'
  BY <1>2, <1>3, <1>5 DEF Inv, SucceededIsPaidBack
<1>10. QED
  BY <1>4, <1>6, <1>7, <1>8, <1>9 DEF Inv

LEMMA StutterStep == ASSUME Inv, UNCHANGED vars PROVE Inv'
BY DEF vars, Inv, TypeOK, Dated, Begun, HeardIsTrue, OneRequest, SucceededIsPaidBack,
   CreditedOnce, TaskDoneIsPaidBack

LEMMA NextInv == Inv /\ [Next]_vars => Inv'
<1> SUFFICES ASSUME Inv, [Next]_vars PROVE Inv'
  OBVIOUS
<1>1. ASSUME NEW c \in Calls, RunTask(c) \/ RetryProviderRefund(c) \/ RetryActivityRefund(c) PROVE Inv'
  BY <1>1, TakenUpStep DEF RetryProviderRefund, RetryActivityRefund
<1>2. ASSUME NEW c \in Calls, Step(c) PROVE Inv'
  BY <1>2, SubmitStep, StoredStep, QueryStep, SuccessStep, FailureStep, LeavingStep DEF Step
<1>3. ASSUME NEW c \in Calls, CutOff(c) PROVE Inv'
  BY <1>3, LeavingStep
<1>4. ASSUME NEW c \in Calls, NEW s \in {"P", "S", "F"}, Notify(c, s) PROVE Inv'
  BY <1>4, NotifyStep
<1>5. QED
  BY <1>1, <1>2, <1>3, <1>4, OutsideStep, DecideStep, StutterStep DEF Next

-----------------------------------------------------------------------------
(* Results *)

\* In every reachable state the calls under way know the channel's decision, and the refund
\* is recorded as it was decided.
THEOREM Safe == Spec => []Inv
BY InitInv, NextInv, PTL DEF Spec

\* However often a refund is sent, by tasks, retries and notifications, over lost answers,
\* dead processes and changes of the day, the channel has one request for it, and it is
\* recorded as succeeded, its wallet part credited and its task reported done only when that
\* request was paid.
THEOREM PaidBackAtMostOnce == Spec => []PaidBackOnce
<1>1. ASSUME Inv PROVE SentOnce
  <2> DEFINE Known == {d \in Days : gateway[d] # "none"}
  <2>1. Known \subseteq {refund.req_date}
    BY <1>1 DEF Inv, OneRequest
  <2>2. IsFiniteSet({refund.req_date}) /\ Cardinality({refund.req_date}) = 1
    BY FS_Singleton
  <2>3. Cardinality(Known) <= 1
    BY <2>1, <2>2, FS_Subset
  <2>4. QED
    BY <2>3 DEF SentOnce
<1>2. Inv => PaidBackOnce
  BY <1>1 DEF Inv, PaidBackOnce
<1>3. QED
  BY <1>2, Safe, PTL

\* A refund that succeeded stays so, whatever answer a slow call still holds.
THEOREM SucceededStands == Spec => [][SucceededIsFinal]_vars
<1>1. ASSUME Inv, [Next]_vars PROVE SucceededIsFinal
  <2> SUFFICES ASSUME refund.status = "succeeded" PROVE refund'.status = "succeeded"
    BY DEF SucceededIsFinal
  <2>1. refund \in Refunds
    BY <1>1, Types DEF Inv
  <2>2. ASSUME NEW c \in Calls, ApplyFailure(c) PROVE FALSE
    BY <1>1, <2>2, Working DEF ApplyFailure, Inv, HeardIsTrue, SucceededIsPaidBack
  <2>3. ASSUME NEW c \in Calls, RunTask(c) \/ RetryProviderRefund(c) \/ RetryActivityRefund(c)
        PROVE  refund' = refund
    BY <2>3 DEF RunTask, RetryProviderRefund, RetryActivityRefund, Retry, Process, Completed
  <2>4. ASSUME NEW c \in Calls, Step(c) PROVE refund'.status = refund.status
    BY <2>1, <2>2, <2>4 DEF Step, Submit, Save, Query, Record, ApplySuccess, ApplyPending,
       Acknowledge, CompleteAndReturn, Completed, Refunds
  <2>5. CASE Next
    BY <2>3, <2>4, <2>5 DEF Next, CutOff, Notify, RetryTask, ExpireLease, NewDay, Decide
  <2>6. QED
    BY <1>1, <2>5 DEF vars
<1>2. QED
  BY <1>1, Safe, PTL DEF Spec
=============================================================================
