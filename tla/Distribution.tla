---------------------------- MODULE Distribution ----------------------------
(***************************************************************************)
(* Paying out settled orders: the delayed split of an external payment     *)
(* (orders/distributions.py) and the payment from the platform's balance   *)
(* for orders paid from a wallet (orders/wallet_distributions.py), the     *)
(* jobs that drive them (providers/tasks.py), the provider's income ledger *)
(* (providers/income_wallet.py) and what shuts them out: refunds before    *)
(* settlement and manual refunds after it (backoffice/manual_refunds.py).  *)
(*                                                                         *)
(* A job works outside of transactions between its two locked steps: it    *)
(* collects proofs, registers the one request an order ever gets, sends    *)
(* it, and saves the answer. Any job may stop at any point.                *)
(***************************************************************************)
EXTENDS Integers

CONSTANTS
  Orders,      \* orders of one provider
  Jobs,        \* workers of process_income_transfers
  Amount,      \* provider_amount
  FeeReserve,  \* HUIFU_PROVIDER_BALANCE_PAYMENT_FEE_RESERVE_CENTS
  MaxBank,     \* bound: available amount of the platform's account
  MaxGen       \* bound: generations of the pool

ASSUME DistributionAssumption == {Amount, FeeReserve, MaxBank, MaxGen} \subseteq Nat

VARIABLES
  route,      \* funding of the order: delayed split or payment from the balance
  facts,      \* what the plan reads: settled, automatic refund, manual refund
  row,        \* ProviderOrderDistribution
  preflight,  \* ProviderOrderDistributionPreflight
  pool,       \* ProviderBalancePaymentPool
  income,     \* ProviderIncomeWallet: credits per order, hold_reason
  job,        \* calls in flight
  sent,       \* requests the channel has received for an order
  channel,    \* the channel's state of the request
  bank        \* the channel's available amount of the platform's account

vars == <<route, facts, row, preflight, pool, income, job, sent, channel, bank>>

Terminal == {"succeeded", "failed"}

Unsettled == {"submitting", "processing", "unknown"}

NoRow == [status |-> "none", conflict |-> FALSE, released |-> FALSE, reviewed |-> FALSE]

Idle == [stage |-> "idle"]

Need == Amount + FeeReserve

TypeOK ==
  /\ route \in [Orders -> {"delayed", "balance"}]
  /\ facts \in [Orders -> [settled: BOOLEAN, refund: {"none", "open", "done"},
                           manual: {"none", "open", "completed"}]]
  /\ row \in [Orders -> [status: {"none"} \cup Unsettled \cup Terminal, conflict: BOOLEAN,
                         released: BOOLEAN, reviewed: BOOLEAN]]
  /\ preflight \in [Orders -> {"none", "deferred", "blocked", "registered"}]
  /\ pool \in [generation: 0..MaxGen + 3, hold: BOOLEAN]
  /\ income \in [credits: [Orders -> Nat], hold: BOOLEAN]
  /\ DOMAIN job = Jobs
  /\ sent \in [Orders -> Nat]
  /\ channel \in [Orders -> {"none", "accepted", "paid", "failed", "reversed"}]
  /\ bank \in 0..MaxBank

Init ==
  /\ route \in [Orders -> {"delayed", "balance"}]
  /\ facts = [o \in Orders |-> [settled |-> FALSE, refund |-> "none", manual |-> "none"]]
  /\ row = [o \in Orders |-> NoRow]
  /\ preflight = [o \in Orders |-> "none"]
  /\ pool = [generation |-> 0, hold |-> FALSE]
  /\ income = [credits |-> [o \in Orders |-> 0], hold |-> FALSE]
  /\ job = [j \in Jobs |-> Idle]
  /\ sent = [o \in Orders |-> 0]
  /\ channel = [o \in Orders |-> "none"]
  /\ bank = MaxBank

-----------------------------------------------------------------------------
(* What the plan and the snapshot read, under the order's lock. *)

Registered(o) == row[o].status # "none"

\* assert_refund_not_distributed
RefundAllowed(o) == ~Registered(o) /\ facts[o].manual = "none"

StartRefund(o) ==
  /\ ~facts[o].settled
  /\ facts[o].refund = "none"
  /\ RefundAllowed(o)
  /\ facts' = [facts EXCEPT ![o].refund = "open"]
  /\ UNCHANGED <<route, row, preflight, pool, income, job, sent, channel, bank>>

FinishRefund(o) ==
  /\ facts[o].refund = "open"
  /\ facts' = [facts EXCEPT ![o].refund = "done"]
  /\ UNCHANGED <<route, row, preflight, pool, income, job, sent, channel, bank>>

\* The frozen period is over and nothing is open (Settlement).
Settle(o) ==
  /\ ~facts[o].settled
  /\ facts[o].refund # "open"
  /\ facts' = [facts EXCEPT ![o].settled = TRUE]
  /\ UNCHANGED <<route, row, preflight, pool, income, job, sent, channel, bank>>

OpenManual(o) ==
  /\ facts[o].settled \/ Registered(o)
  /\ facts[o].manual = "none"
  /\ facts[o].refund # "open"
  /\ facts' = [facts EXCEPT ![o].manual = "open"]
  /\ UNCHANGED <<route, row, preflight, pool, income, job, sent, channel, bank>>

\* assert_distribution_verified
DistributionVerified(o) ==
  Registered(o) => row[o].status \in Terminal /\ ~row[o].conflict

CloseManual(o) ==
  /\ facts[o].manual = "open"
  /\ \/ facts' = [facts EXCEPT ![o].manual = "none"]
     \/ DistributionVerified(o) /\ facts' = [facts EXCEPT ![o].manual = "completed"]
  /\ UNCHANGED <<route, row, preflight, pool, income, job, sent, channel, bank>>

\* sync_provider_settlement_plan leaves no blocker, nothing was refunded:
\* the condition of _snapshot (the receiver's verification may fail any time).
Ready(o) ==
  /\ facts[o].settled
  /\ facts[o].refund = "none"
  /\ facts[o].manual = "none"

\* _locked_pool
PoolFree == ~pool.hold /\ ~\E o \in Orders : route[o] = "balance" /\ Registered(o) /\ ~row[o].released

-----------------------------------------------------------------------------
(* Executing a distribution *)

Candidate(o) == facts[o].settled /\ ~Registered(o) /\ preflight[o] # "blocked"

Failing(j, o) == [job EXCEPT ![j] = [stage |-> "failed", order |-> o, blocked |-> facts[o].refund = "done"]]

\* First transaction: the snapshot, and the pool's generation.
Begin(j, o) ==
  /\ job[j] = Idle
  /\ Candidate(o)
  /\ pool.generation < MaxGen
  /\ \/ /\ Ready(o) /\ (route[o] = "balance" => PoolFree)
        /\ job' = [job EXCEPT ![j] = [stage |-> "proof", order |-> o, generation |-> pool.generation]]
     \/ job' = Failing(j, o)
  /\ UNCHANGED <<route, facts, row, preflight, pool, income, sent, channel, bank>>

\* Proofs of the payment or its sources, then the platform's balance; no lock is held.
Prove(j) ==
  /\ job[j].stage = "proof"
  /\ \/ job' = [job EXCEPT ![j] = [stage |-> "register", order |-> @.order,
                                   generation |-> @.generation, funds |-> bank]]
     \/ job' = Failing(j, job[j].order)
  /\ UNCHANGED <<route, facts, row, preflight, pool, income, sent, channel, bank>>

\* The snapshot is taken again and must be the same.
StillReady(o) == Ready(o)

\* The pool is free and unchanged since before the balance was read.
Fresh(j) == PoolFree /\ pool.generation = job[j].generation /\ job[j].funds >= Need

\* Mutant: the second transaction does not look for a row.
Absent_Unchecked(o) == TRUE

Absent(o) == ~Registered(o)

\* Second transaction: the one row of the settlement is created. Otherwise, and when
\* the receiver's verification was lost, the snapshot has changed.
Register(j) ==
  /\ job[j].stage = "register"
  /\ LET o == job[j].order
     IN \/ /\ Absent(o) /\ StillReady(o) /\ (route[o] = "balance" => Fresh(j))
           /\ row' = [row EXCEPT ![o] = [NoRow EXCEPT !.status = "submitting"]]
           /\ pool' = IF route[o] = "balance" THEN [pool EXCEPT !.generation = @ + 1] ELSE pool
           /\ preflight' = [preflight EXCEPT ![o] = "registered"]
           /\ job' = [job EXCEPT ![j] = [stage |-> "submit", order |-> o]]
        \/ /\ job' = IF Registered(o) THEN [job EXCEPT ![j] = Idle] ELSE Failing(j, o)
           /\ UNCHANGED <<row, pool, preflight>>
  /\ UNCHANGED <<route, facts, income, sent, channel, bank>>

\* record_preflight_failure: a registration always wins
FailurePreflight(j) ==
  IF Registered(job[j].order) THEN preflight
  ELSE [preflight EXCEPT ![job[j].order] = IF job[j].blocked THEN "blocked" ELSE "deferred"]

RecordFailure(j) ==
  /\ job[j].stage = "failed"
  /\ preflight' = FailurePreflight(j)
  /\ job' = [job EXCEPT ![j] = Idle]
  /\ UNCHANGED <<route, facts, row, pool, income, sent, channel, bank>>

Answered(j, o, a, queried) ==
  job' = [job EXCEPT ![j] = [stage |-> "save", order |-> o, answer |-> a, queried |-> queried]]

\* confirm / pay: accepted, accepted with the answer lost or contradictory, or never there
Submit(j) ==
  /\ job[j].stage = "submit"
  /\ LET o == job[j].order
     IN \/ /\ sent' = [sent EXCEPT ![o] = @ + 1]
           /\ channel' = [channel EXCEPT ![o] = "accepted"]
           /\ \E a \in {"processing", "unknown"} \cup (IF route[o] = "balance" THEN {"conflict"} ELSE {}) :
                Answered(j, o, a, FALSE)
        \/ Answered(j, o, "unknown", FALSE) /\ UNCHANGED <<sent, channel>>
  /\ UNCHANGED <<route, facts, row, preflight, pool, income, bank>>

QueryAnswers(o) ==
  CASE channel[o] = "none" -> {"unknown"}
    [] channel[o] = "accepted" -> {"processing"}
    [] channel[o] = "paid" -> {"succeeded"}
    [] OTHER -> {"failed"}

\* Mutant: an unknown result is left to a human.
Due_Known(o) == row[o].status \in {"submitting", "processing", "succeeded"}

\* The rows the periodic job and a recovery case query.
Due(o) == row[o].status \in Unsettled \cup {"succeeded"}

Query(j, o) ==
  /\ job[j] = Idle
  /\ Due(o)
  /\ \E a \in QueryAnswers(o) : Answered(j, o, a, TRUE)
  /\ UNCHANGED <<route, facts, row, preflight, pool, income, sent, channel, bank>>

\* The query fails, or its evidence does not fit the request.
QueryUnclear(j, o) ==
  /\ job[j] = Idle
  /\ Due(o)
  /\ \E a \in {"unknown"} \cup (IF channel[o] = "none" THEN {} ELSE {"conflict"}) : Answered(j, o, a, TRUE)
  /\ UNCHANGED <<route, facts, row, preflight, pool, income, sent, channel, bank>>

Crash(j) ==
  /\ job[j] # Idle
  /\ job' = [job EXCEPT ![j] = Idle]
  /\ UNCHANGED <<route, facts, row, preflight, pool, income, sent, channel, bank>>

-----------------------------------------------------------------------------
(* _save_result, under the row's lock *)

Conflicting(r, a, queried) ==
  \/ a = "conflict"
  \/ queried /\ r.status \in Terminal /\ a \in Terminal /\ a # r.status

\* Mutant: a normal answer clears the dispute.
Resulting_Clears(r, a, queried) ==
  IF Conflicting(r, a, queried)
  THEN [r EXCEPT !.conflict = TRUE, !.status = IF r.status \in Terminal THEN @ ELSE "unknown"]
  ELSE IF r.status \notin Terminal THEN [r EXCEPT !.status = a, !.conflict = FALSE] ELSE r

Resulting(r, a, queried) ==
  IF Conflicting(r, a, queried)
  THEN [r EXCEPT !.conflict = TRUE, !.status = IF r.status \in Terminal THEN @ ELSE "unknown"]
  ELSE IF ~r.conflict /\ r.status \notin Terminal THEN [r EXCEPT !.status = a] ELSE r

\* reconcile_pool: what stops all further payments from the balance
Holding(r) == r.conflict \/ (r.status = "failed" /\ ~r.reviewed)

ReconciledPool(r) ==
  IF Holding(r)
  THEN IF pool.hold THEN pool ELSE [generation |-> pool.generation + 1, hold |-> TRUE]
  ELSE IF r.status = "succeeded" /\ ~r.released THEN [pool EXCEPT !.generation = @ + 1] ELSE pool

\* credit_distribution, once per source_key
Credited(o, r, a, queried) ==
  queried /\ r.status = "succeeded" /\ a = "succeeded" /\ income.credits[o] = 0

IncomeAfter(o, r, a, queried) ==
  IF r.conflict THEN [income EXCEPT !.hold = TRUE]
  ELSE IF Credited(o, r, a, queried) THEN [income EXCEPT !.credits[o] = @ + 1] ELSE income

Save(j) ==
  /\ job[j].stage = "save"
  /\ LET o == job[j].order
         a == job[j].answer
         r == Resulting(row[o], a, job[j].queried)
         balance == route[o] = "balance"
     IN /\ row' = [row EXCEPT ![o] =
             [r EXCEPT !.released = @ \/ (balance /\ r.status = "succeeded" /\ ~r.conflict)]]
        /\ pool' = IF balance THEN ReconciledPool(r) ELSE pool
        /\ income' = IncomeAfter(o, r, a, job[j].queried)
  /\ job' = [job EXCEPT ![j] = Idle]
  /\ UNCHANGED <<route, facts, preflight, sent, channel, bank>>

\* pool_candidate: only a plain failure, of the only payment in flight
Releasable(o) ==
  /\ pool.hold
  /\ row[o].status = "failed" /\ ~row[o].released /\ ~row[o].conflict
  /\ ~\E p \in Orders : route[p] = "balance" /\ row[p].conflict

\* An approved recovery case (FinanceRecovery) with a fresh answer F and a sufficient balance.
ReleasePool(o) ==
  /\ route[o] = "balance"
  /\ Releasable(o)
  /\ channel[o] \in {"failed", "reversed"}
  /\ bank >= Need
  /\ pool.generation < MaxGen + 2
  /\ row' = [row EXCEPT ![o].released = TRUE, ![o].reviewed = TRUE]
  /\ pool' = [generation |-> pool.generation + 1, hold |-> FALSE]
  /\ UNCHANGED <<route, facts, preflight, income, job, sent, channel, bank>>

-----------------------------------------------------------------------------
(* External: the channel *)

Pay(o) ==
  /\ channel[o] = "accepted"
  /\ channel' = [channel EXCEPT ![o] = "paid"]
  /\ IF route[o] = "delayed" THEN UNCHANGED bank
     ELSE \E fee \in 0..FeeReserve : bank >= Amount + fee /\ bank' = bank - Amount - fee
  /\ UNCHANGED <<route, facts, row, preflight, pool, income, job, sent>>

Refuse(o) ==
  /\ channel[o] = "accepted"
  /\ channel' = [channel EXCEPT ![o] = "failed"]
  /\ UNCHANGED <<route, facts, row, preflight, pool, income, job, sent, bank>>

\* Money that had arrived is sent back; later queries answer F.
Return(o) ==
  /\ channel[o] = "paid"
  /\ channel' = [channel EXCEPT ![o] = "reversed"]
  /\ UNCHANGED <<route, facts, row, preflight, pool, income, job, sent, bank>>

TopUp ==
  /\ bank < MaxBank
  /\ bank' = MaxBank
  /\ UNCHANGED <<route, facts, row, preflight, pool, income, job, sent, channel>>

Next ==
  \/ TopUp
  \/ \E o \in Orders :
       \/ StartRefund(o) \/ FinishRefund(o) \/ Settle(o) \/ OpenManual(o) \/ CloseManual(o)
       \/ ReleasePool(o) \/ Pay(o) \/ Refuse(o) \/ Return(o)
       \/ \E j \in Jobs : Begin(j, o) \/ Query(j, o) \/ QueryUnclear(j, o)
  \/ \E j \in Jobs : Prove(j) \/ Register(j) \/ RecordFailure(j) \/ Submit(j) \/ Save(j) \/ Crash(j)

Spec == Init /\ [][Next]_vars

SaveResult(j) == Save(j) /\ job[j].answer \in Terminal

\* The periodic job runs again and again and rotates over the rows; its queries are answered
\* from time to time, and a result that was answered is saved from time to time; a job that
\* runs goes on.
LiveSpec ==
  /\ Spec
  /\ \A o \in Orders : SF_vars(\E j \in Jobs : Query(j, o))
  /\ \A j \in Jobs : /\ SF_vars(SaveResult(j))
                     /\ WF_vars(Prove(j) \/ Register(j) \/ RecordFailure(j) \/ Submit(j) \/ Save(j))

-----------------------------------------------------------------------------
(* Properties *)

\* The channel gets at most one request to pay out an order, whatever crashes,
\* lost answers and concurrent jobs there are.
SentOnce == \A o \in Orders : sent[o] <= 1

\* Income is credited at most once per order, and only for money the channel paid.
CreditIsPaid ==
  \A o \in Orders :
    /\ income.credits[o] <= 1
    /\ income.credits[o] = 1 => channel[o] \in {"paid", "reversed"}

\* An order that was refunded, in part or while the refund runs, is not paid out.
RefundedIsNotPaidOut == \A o \in Orders : facts[o].refund # "none" => ~Registered(o)

\* The platform's account covers a payment that is registered and not yet decided.
FundsCovered ==
  \A o \in Orders :
    route[o] = "balance" /\ Registered(o) /\ ~row[o].released /\ channel[o] \in {"none", "accepted"}
      => bank >= Need

\* A dispute holds the provider's income, and the pool when it paid; nothing lifts it.
DisputeHolds ==
  \A o \in Orders : row[o].conflict => income.hold /\ (route[o] = "balance" => pool.hold)

\* What the operator sees of a registered order never says that it was deferred.
RegisteredIsShown == \A o \in Orders : Registered(o) => preflight[o] = "registered"

\* Paying out a provider: all of the above.
PaidOutOnce ==
  SentOnce /\ CreditIsPaid /\ RefundedIsNotPaidOut /\ FundsCovered /\ DisputeHolds /\ RegisteredIsShown

\* Answers that come late or out of order never change a verified result.
ResultIsFinal ==
  \A o \in Orders : row[o].status \in Terminal => row'[o].status = row[o].status

\* A dispute is never cleared by a later answer, and a disputed payout is not credited.
DisputeIsSticky ==
  \A o \in Orders : row[o].conflict => row'[o].conflict /\ income'.credits[o] = income.credits[o]

\* A payout is never registered while a manual refund is open or completed, also
\* when the case was opened while the proofs were collected.
ManualRefundShutsPayout ==
  \A o \in Orders : ~Registered(o) /\ row'[o].status # "none" => facts[o].manual = "none"

\* What is decided stands, whatever the order of answers and cases: all of the above.
DecisionsStand == ResultIsFinal /\ DisputeIsSticky /\ ManualRefundShutsPayout
ResultsStand == [][DecisionsStand]_vars

\* What the channel paid is credited in the end, or disputed for a human to settle.
PaidOut(o) == channel[o] = "paid"
CreditedOrDisputed(o) == income.credits[o] = 1 \/ row[o].conflict \/ channel[o] = "reversed"
PaidIsCredited == \A o \in Orders : PaidOut(o) ~> CreditedOrDisputed(o)

=============================================================================
