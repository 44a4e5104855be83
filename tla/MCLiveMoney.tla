----------------------------- MODULE MCLiveMoney ------------------------------
(***************************************************************************)
(* Liveness of the components that move money: the payment of a provider   *)
(* order (ProviderPayment), the execution of refunds (RefundExecution),    *)
(* the payment to the provider (Distribution), withdrawals (Withdrawal)    *)
(* and recharges (Recharge). The components are checked side by side:      *)
(* every behaviour is one of the component named by focus, and the         *)
(* variables x1, x2, ... are that component's. Each promise is checked     *)
(* under the fairness its own component justifies.                         *)
(***************************************************************************)
EXTENDS TLC

CONSTANTS Calls

VARIABLES
  focus,  \* the component this behaviour is of
  x1, x2, x3, x4, x5, x6, x7, x8, x9, x10, x11, x12, x13, x14  \* its variables; the ones it does not have are zero

slots == <<x1, x2, x3, x4, x5, x6, x7, x8, x9, x10, x11, x12, x13, x14>>
vars == <<focus, slots>>

P == INSTANCE ProviderPayment WITH Calls <- Calls, Payable <- 2, Shares <- {1},
     Notices <- {"trade"}, order <- x1, expired <- x2, payment <- x3, alloc <- x4, coupon <- x5,
     refund <- x6, task <- x7, notice <- x8, trade <- x9, call <- x10
E == INSTANCE RefundExecution WITH Calls <- Calls, LastDay <- 1, family <- x1, external <- x2,
     day <- x3, refund <- x4, credits <- x5, task <- x6, notice <- x7, gateway <- x8, call <- x9
D == INSTANCE Distribution WITH Orders <- {"order"}, Jobs <- {"job"}, Amount <- 1, FeeReserve <- 1,
     MaxBank <- 2, MaxGen <- 3, route <- x1, facts <- x2, row <- x3, preflight <- x4, pool <- x5,
     income <- x6, job <- x7, sent <- x8, channel <- x9, bank <- x10
W == INSTANCE Withdrawal WITH Keys <- {"key"}, Procs <- {"process"}, Cards <- {"card"},
     Incomes <- {"first", "second"}, MaxAmount <- 1, CreditLag <- TRUE, wallet <- x1, rows <- x2,
     account <- x3, income <- x4, bank <- x5, proc <- x6
R == INSTANCE Recharge WITH Orders <- {"sound", "stuck"}, Requests <- {"request"}, Payers <- {},
     MaxQuantity <- 1, Rates <- {}, MaxPatches <- 1, MaxCrashes <- 0, Signals <- {},
     Stuck <- {"stuck"}, campaign <- x1, patches <- x2, crashes <- x3, order <- x4, unseen <- x5,
     seen <- x6, balance <- x7, lots <- x8, note <- x9, request <- x10, wire <- x11, trade <- x12,
     creates <- x13, invoked <- x14

ASSUME ComponentsAssumption ==
  /\ P!PaymentAssumption
  /\ E!RefundAssumption
  /\ D!DistributionAssumption
  /\ W!WithdrawalAssumption

-----------------------------------------------------------------------------
Init ==
  \/ focus = "payment" /\ P!Init /\ x11 = 0 /\ x12 = 0 /\ x13 = 0 /\ x14 = 0
  \/ focus = "refund" /\ E!Init /\ x10 = 0 /\ x11 = 0 /\ x12 = 0 /\ x13 = 0 /\ x14 = 0
  \/ focus = "distribution" /\ D!Init /\ x11 = 0 /\ x12 = 0 /\ x13 = 0 /\ x14 = 0
  \/ focus = "withdrawal" /\ W!Init
     /\ x7 = 0 /\ x8 = 0 /\ x9 = 0 /\ x10 = 0 /\ x11 = 0 /\ x12 = 0 /\ x13 = 0 /\ x14 = 0
  \/ focus = "recharge" /\ R!Init

Next ==
  \/ focus = "payment" /\ P!Next /\ UNCHANGED <<focus, x11, x12, x13, x14>>
  \/ focus = "refund" /\ E!Next /\ UNCHANGED <<focus, x10, x11, x12, x13, x14>>
  \/ focus = "distribution" /\ D!Next /\ UNCHANGED <<focus, x11, x12, x13, x14>>
  \/ focus = "withdrawal" /\ W!Next /\ UNCHANGED <<focus, x7, x8, x9, x10, x11, x12, x13, x14>>
  \/ focus = "recharge" /\ R!Next /\ UNCHANGED <<focus>>

Spec == Init /\ [][Next]_vars

-----------------------------------------------------------------------------
\* What a component does under its own fairness.  Each fairness condition is about actions of
\* behaviours of that component only.
payment_vars == P!vars
refund_vars == E!vars
distribution_vars == D!vars
withdrawal_vars == W!vars
recharge_vars == R!vars

PaymentFairness ==
  /\ WF_payment_vars(focus = "payment" /\ (P!CustomerPays \/ P!TradeFails))
  /\ WF_payment_vars(focus = "payment" /\ P!CompensationSettled)
  /\ SF_payment_vars(focus = "payment" /\ \E c \in Calls : P!CompensationTask(c))
  /\ SF_payment_vars(focus = "payment" /\ \E c \in Calls : P!ReceiveNotice(c, "trade"))
  /\ \A c \in Calls : WF_payment_vars(focus = "payment" /\ P!CallStep(c))
  /\ <>[][focus = "payment" => \A c \in Calls : ~P!CutOff(c)]_payment_vars

RefundFairness ==
  /\ \A c \in Calls : WF_refund_vars(focus = "refund" /\ E!Step(c))
  /\ \A d \in E!Days : WF_refund_vars(focus = "refund" /\ E!Decide(d))
  /\ \A s \in {"S", "F"} : SF_refund_vars(focus = "refund" /\ \E c \in Calls : E!Notify(c, s))
  /\ <>[][focus = "refund" => \A c \in Calls : ~E!Unlucky(c)]_refund_vars

DistributionFairness ==
  /\ SF_distribution_vars(focus = "distribution" /\ D!Query("job", "order"))
  /\ SF_distribution_vars(focus = "distribution" /\ D!SaveResult("job"))
  /\ WF_distribution_vars(focus = "distribution" /\
       (D!Prove("job") \/ D!Register("job") \/ D!RecordFailure("job") \/ D!Submit("job") \/ D!Save("job")))

WithdrawalFairness ==
  /\ WF_withdrawal_vars(focus = "withdrawal" /\ W!BankReturns("key"))
  /\ WF_withdrawal_vars(focus = "withdrawal" /\ W!Progress("process"))
  /\ SF_withdrawal_vars(focus = "withdrawal" /\ W!ProveFailure("process"))
  /\ SF_withdrawal_vars(focus = "withdrawal" /\ W!SaveDecided("process"))
  /\ SF_withdrawal_vars(focus = "withdrawal" /\ W!QueryWithdrawal("process", "key"))

RechargeFairness ==
  /\ SF_recharge_vars(focus = "recharge" /\ R!Reconcile(R!Worker))
  /\ WF_recharge_vars(focus = "recharge" /\ R!Step("request"))
  /\ SF_recharge_vars(focus = "recharge" /\ R!QueryAnswers(R!Worker, "S") /\ R!AsksFor(R!Worker, "sound"))


\* What the channel paid out is recorded: a refund, a payment to the provider (or a dispute
\* about it), a withdrawal the bank has decided.
PaidOutIsRecorded ==
  /\ RefundFairness => (focus = "refund" /\ E!PaidBack) ~> (focus = "refund" /\ E!Recorded)
  /\ DistributionFairness =>
       (focus = "distribution" /\ D!PaidOut("order")) ~> (focus = "distribution" /\ D!CreditedOrDisputed("order"))
  /\ WithdrawalFairness => (focus = "withdrawal" /\ W!DecidedAtBank("key")) ~> (focus = "withdrawal" /\ W!InWallet("key"))
=============================================================================
