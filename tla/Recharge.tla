------------------------------ MODULE Recharge ------------------------------
(***************************************************************************)
(* Buying wallet balance.  A recharge order is priced from the campaign    *)
(* and paid through Huifu.  Requests run concurrently: sessions that ask   *)
(* for payment parameters, polls of the client, notifications of the       *)
(* gateway and the periodic reconciliation.  Each of them reads the order, *)
(* leaves the transaction, asks the gateway and applies the answer later.  *)
(* Time is two facts of an order: its deadline has passed, and its last    *)
(* create request is older than PAYMENT_SESSION_STALE_AFTER.               *)
(***************************************************************************)
EXTENDS Naturals, FiniteSets, FiniteSetsExt, SequencesExt

CONSTANTS
    Orders,        \* recharge orders of one customer
    Requests,      \* processes that may be serving the orders at one time
    Payers,        \* WeChat identities that may pay in the official account
    MaxQuantity,   \* the largest number of vouchers an order may buy
    Rates,         \* discount rates of the tiers, below FullRate
    MaxPatches,    \* changes of the campaign
    MaxCrashes,    \* processes that die while serving a request
    Signals,       \* what reaches the server: "poll" of the client, "notification"
    Stuck          \* orders whose queries never pass validation

NoPayer == "no payer"
FullRate == 10000

VARIABLES
    campaign,   \* [enabled, max, tiers]: tiers maps first quantities to rates
    patches,    \* changes of the campaign so far
    crashes,    \* processes that died so far
    order,      \* the WalletRechargeOrder rows
    unseen,     \* orders never queried, oldest first
    seen,       \* queried orders, least recently queried first
    balance,    \* available_balance of the wallet
    lots,       \* the WalletBalanceLot rows, as [order, amount, rate]
    note,       \* the WalletRechargeNotification row of each order and result
    request,    \* what each process is doing
    wire,       \* orders whose create request has not reached the gateway
    trade,      \* the gateway's transactions
    creates,    \* create requests sent for each order
    invoked     \* payers that were handed the payment parameters of an order

admin == <<campaign, patches>>
rows == <<order, unseen, seen, balance, lots, note>>
gateway == <<wire, trade, creates>>
vars == <<admin, rows, request, gateway, invoked, crashes>>

Results == {"S", "F"}
Scenes == {"app", "official_account"}
Idle == [pc |-> "idle"]
NoTrade == [stat |-> "none", amount |-> 0, payer |-> NoPayer]
NoOrder == [status |-> "none", pre |-> "not_started", seq |-> FALSE,
            scene |-> "", payer |-> NoPayer, attempts |-> 0, payload |-> FALSE,
            expired |-> FALSE, stale |-> FALSE,
            credited |-> 0, payable |-> 0, rate |-> FullRate]
Campaigns == UNION {[enabled : BOOLEAN, max : {n}, tiers : UNION {[D -> Rates] : D \in SUBSET (1..n)}]
                    : n \in 1..MaxQuantity}

Init ==
    /\ campaign = [enabled |-> FALSE, max |-> MaxQuantity, tiers |-> <<>>]
    /\ patches = 0 /\ crashes = 0
    /\ order = [o \in Orders |-> NoOrder]
    /\ unseen = <<>> /\ seen = <<>>
    /\ balance = 0 /\ lots = {}
    /\ note = [o \in Orders |-> [s \in Results |-> "none"]]
    /\ request = [r \in Requests |-> Idle]
    /\ wire = {} /\ trade = [o \in Orders |-> NoTrade] /\ creates = [o \in Orders |-> 0]
    /\ invoked = [o \in Orders |-> {}]

-----------------------------------------------------------------------------
(* The campaign and the price of an order.                                 *)

\* The staff replaces the campaign; tiers stay within the new maximum.
PatchCampaign ==
    /\ patches < MaxPatches
    /\ patches' = patches + 1
    /\ campaign' \in Campaigns
    /\ UNCHANGED <<crashes, rows, request, gateway, invoked>>

\* The tier with the largest first quantity that the purchase reaches.
TierRate(c, q) ==
    LET D == {n \in DOMAIN c.tiers : n <= q}
    IN IF D = {} THEN FullRate ELSE c.tiers[Max(D)]

\* recharge_pricing: the rate discounts what the balance buys, not the recharge.
Priced(c, q) ==
    [NoOrder EXCEPT !.status = "pending_payment", !.credited = q, !.payable = q,
                    !.rate = TierRate(c, q)]

CreateRechargeOrder(o, q) ==
    /\ order[o].status = "none"
    /\ campaign.enabled
    /\ q \in 1..campaign.max
    /\ order' = [order EXCEPT ![o] = Priced(campaign, q)]
    /\ unseen' = Append(unseen, o)
    /\ UNCHANGED <<crashes, admin, seen, balance, lots, note, request, gateway, invoked>>

-----------------------------------------------------------------------------
(* Sessions: one create request per order, only queries afterwards.        *)

PayerAllowed(x, scene, p) ==
    IF scene = "app" THEN p = NoPayer
    ELSE p # NoPayer /\ (x.seq => x.payer = p)

MaySession(o, scene, p) ==
    /\ order[o].status = "pending_payment"
    /\ ~order[o].expired
    /\ PayerAllowed(order[o], scene, p)

Replayable(x, scene) == x.pre = "ready" /\ x.scene = scene /\ x.payload

\* A finished preorder of the same scene is handed out again.
ReplaySession(o, scene, p) ==
    /\ MaySession(o, scene, p)
    /\ Replayable(order[o], scene)
    /\ invoked' = [invoked EXCEPT ![o] = @ \union {p}]
    /\ UNCHANGED <<crashes, admin, rows, request, gateway>>

\* Not while another create is under way, and only in the order's own scene.
MayProceed(o, scene, p) ==
    /\ MaySession(o, scene, p)
    /\ ~Replayable(order[o], scene)
    /\ ~(order[o].pre = "submitting" /\ ~order[o].stale)
    /\ order[o].scene \in {"", scene}

FirstRequest(x) == ~x.seq

\* The request is persisted first, then the create leaves for the gateway.
RegisterSession(r, o, scene, p) ==
    /\ request[r] = Idle
    /\ MayProceed(o, scene, p)
    /\ FirstRequest(order[o])
    /\ order' = [order EXCEPT ![o].seq = TRUE, ![o].scene = scene, ![o].payer = p,
                              ![o].pre = "submitting", ![o].stale = FALSE,
                              ![o].attempts = @ + 1, ![o].payload = FALSE]
    /\ request' = [request EXCEPT ![r] =
                      [pc |-> "calling", kind |-> "session", o |-> o, payer |-> p,
                       attempt |-> order[o].attempts + 1]]
    /\ wire' = wire \union {o}
    /\ creates' = [creates EXCEPT ![o] = @ + 1]
    /\ UNCHANGED <<crashes, admin, unseen, seen, balance, lots, note, trade, invoked>>

Asking(kind, o, p) == [pc |-> "query", kind |-> kind, o |-> o, payer |-> p]

RecoverSession(r, o, scene, p) ==
    /\ request[r] = Idle
    /\ MayProceed(o, scene, p)
    /\ ~FirstRequest(order[o])
    /\ request' = [request EXCEPT ![r] = Asking("session", o, p)]
    /\ UNCHANGED <<crashes, admin, rows, gateway, invoked>>

StillSubmitting(r) ==
    LET x == order[request[r].o]
    IN x.pre = "submitting" /\ x.attempts = request[r].attempt

\* The gateway refuses with a code, or nobody knows what it did: then the
\* request turns into a recovery of the same order.
CreateError(r) ==
    /\ request[r].pc = "calling"
    /\ order' = IF StillSubmitting(r) THEN [order EXCEPT ![request[r].o].pre = "failed"] ELSE order
    /\ \/ /\ request[r].o \in wire
          /\ wire' = wire \ {request[r].o}
          /\ request' = [request EXCEPT ![r] = Idle]
       \/ /\ request' = [request EXCEPT ![r] = Asking("session", @.o, @.payer)]
          /\ UNCHANGED wire
    /\ UNCHANGED <<crashes, admin, unseen, seen, balance, lots, note, trade, creates, invoked>>

\* The answer is stored under the order's lock; only a transaction that waits
\* for its customer and came with parameters opens a session.
CreateAnswer(r) ==
    LET o == request[r].o IN
    /\ request[r].pc = "calling"
    /\ trade[o].stat # "none"
    /\ \/ /\ ~StillSubmitting(r)
          /\ request' = [request EXCEPT ![r] = Asking("session", o, @.payer)]
          /\ UNCHANGED <<order, invoked>>
       \/ /\ StillSubmitting(r)
          /\ order' = [order EXCEPT ![o].pre = "ready", ![o].payload = TRUE]
          /\ request' = [request EXCEPT ![r] = Idle]
          /\ invoked' = [invoked EXCEPT ![o] = @ \union {request[r].payer}]
       \/ /\ StillSubmitting(r)
          /\ \E info \in BOOLEAN : order' = [order EXCEPT ![o].pre = "failed", ![o].payload = info]
          /\ request' = [request EXCEPT ![r] = Asking("session", o, @.payer)]
          /\ UNCHANGED invoked
    /\ UNCHANGED <<crashes, admin, unseen, seen, balance, lots, note, gateway>>

-----------------------------------------------------------------------------
(* Confirming: the client's poll, the reconciliation and notifications.    *)

Poll(r, o) ==
    /\ "poll" \in Signals
    /\ request[r] = Idle
    /\ order[o].status # "none"
    /\ request' = [request EXCEPT ![r] = [pc |-> "read", kind |-> "poll", o |-> o, payer |-> NoPayer]]
    /\ UNCHANGED <<crashes, admin, rows, gateway, invoked>>

\* Orders still unpaid, the least recently queried first.
Pending == SelectSeq(unseen \o seen, LAMBDA o : order[o].status = "pending_payment")

Reconcile(r) ==
    /\ request[r] = Idle
    /\ Pending # <<>>
    /\ request' = [request EXCEPT ![r] =
                      [pc |-> "read", kind |-> "reconcile", o |-> Head(Pending), payer |-> NoPayer]]
    /\ UNCHANGED <<crashes, admin, rows, gateway, invoked>>

\* A signed notification of a final result; the event row is kept by its key.
NotificationArrives(r, o, s) ==
    /\ "notification" \in Signals
    /\ request[r] = Idle
    /\ trade[o].stat = s
    /\ note[o][s] # "processed"
    /\ note' = [note EXCEPT ![o][s] = "received"]
    /\ request' = [request EXCEPT ![r] = [pc |-> "read", kind |-> s, o |-> o, payer |-> NoPayer]]
    /\ UNCHANGED <<crashes, admin, order, unseen, seen, balance, lots, gateway, invoked>>

Others(s, o) == SelectSeq(s, LAMBDA p : p # o)

\* gateway_last_queried_at = now
Touch(o) == unseen' = Others(unseen, o) /\ seen' = Append(Others(seen, o), o)
KeepQueue == UNCHANGED <<unseen, seen>>

TouchOnError(r) == IF request[r].kind = "reconcile" THEN Touch(request[r].o) ELSE KeepQueue

\* What a finished confirmation leads to: reconciliation records the visit
\* whatever came of it; a notification goes on to mark its event.
Finished(r) ==
    [request EXCEPT ![r] = IF @.kind \in Results THEN [@ EXCEPT !.pc = "mark"] ELSE Idle]

ReadOrder(r) ==
    LET o == request[r].o IN
    /\ request[r].pc = "read"
    /\ \/ /\ order[o].status = "paid"
          /\ request' = Finished(r)
          /\ TouchOnError(r)
       \/ /\ order[o].status # "paid" /\ ~order[o].seq
          /\ request' = [request EXCEPT ![r].pc = "close"]
          /\ KeepQueue
       \/ /\ order[o].status # "paid" /\ order[o].seq
          /\ request' = [request EXCEPT ![r] = Asking(@.kind, o, @.payer)]
          /\ KeepQueue
    /\ UNCHANGED <<crashes, admin, order, balance, lots, note, gateway, invoked>>

Unsubmitted(x) == x.status = "pending_payment" /\ ~x.seq

\* UPDATE ... WHERE req_seq_id = '': a session can start meanwhile.
CloseUnsubmitted(r) ==
    LET o == request[r].o IN
    /\ request[r].pc = "close"
    /\ order' = IF order[o].expired /\ Unsubmitted(order[o]) THEN [order EXCEPT ![o].status = "closed"] ELSE order
    /\ request' = Finished(r)
    /\ TouchOnError(r)
    /\ UNCHANGED <<crashes, admin, balance, lots, note, gateway, invoked>>

\* The gateway may not know the transaction yet, its answer may not match the
\* order, and its queries may lag behind its notifications.
QueryFails(r) ==
    /\ request[r].pc = "query"
    /\ request' = [request EXCEPT ![r] = Idle]
    /\ TouchOnError(r)
    /\ UNCHANGED <<crashes, admin, order, balance, lots, note, gateway, invoked>>

Answers(o) == IF trade[o].stat \in Results THEN {"P", trade[o].stat} ELSE {"P"}

QueryAnswers(r, s) ==
    LET o == request[r].o IN
    /\ request[r].pc = "query"
    /\ trade[o].stat # "none" /\ o \notin Stuck
    /\ s \in Answers(o)
    /\ request' = [request EXCEPT ![r] =
                      [pc |-> "apply", kind |-> @.kind, o |-> o, payer |-> @.payer, stat |-> s]]
    /\ Touch(o)
    /\ UNCHANGED <<crashes, admin, order, balance, lots, note, gateway, invoked>>

\* Mutant of Creditable: the order is not read again under its lock.
Creditable_NotReread(x) == x.status # "closed"
Creditable(x) == x.status = "pending_payment"

LotOf(o) == [order |-> o, amount |-> order[o].credited, rate |-> order[o].rate]

\* _credit_recharge_order: order, wallet, lot and ledger in one transaction.
ApplySuccess(r) ==
    LET o == request[r].o IN
    /\ request[r].pc = "apply" /\ request[r].stat = "S"
    /\ \/ /\ Creditable(order[o])
          /\ balance' = balance + order[o].credited
          /\ lots' = lots \union {LotOf(o)}
          /\ order' = [order EXCEPT ![o].status = "paid"]
          /\ request' = Finished(r)
          /\ TouchOnError(r)
       \/ /\ ~Creditable(order[o])
          /\ request' = IF order[o].status = "paid" THEN Finished(r) ELSE [request EXCEPT ![r] = Idle]
          /\ TouchOnError(r)
          /\ UNCHANGED <<order, balance, lots>>
    /\ UNCHANGED <<crashes, admin, note, gateway, invoked>>

ClosedBy(x, s) == s = "F"

\* A failed transaction closes the order; a waiting one closes nothing, and a
\* session is replayed if its parameters are stored and still valid.
ApplyOther(r) ==
    LET o == request[r].o IN
    /\ request[r].pc = "apply" /\ request[r].stat # "S"
    /\ order' = IF ClosedBy(order[o], request[r].stat) /\ order[o].status = "pending_payment"
                THEN [order EXCEPT ![o].status = "closed"] ELSE order
    /\ invoked' = IF /\ request[r].kind = "session" /\ request[r].stat = "P"
                     /\ ~order[o].expired /\ order[o].payload
                  THEN [invoked EXCEPT ![o] = @ \union {request[r].payer}] ELSE invoked
    /\ request' = Finished(r)
    /\ TouchOnError(r)
    /\ UNCHANGED <<crashes, admin, balance, lots, note, gateway>>

Confirmed(s, o) == s = "S" => order[o].status = "paid"

\* A success the query does not confirm stays received and is sent again.
MarkProcessed(r) ==
    LET s == request[r].kind o == request[r].o IN
    /\ request[r].pc = "mark"
    /\ note' = IF Confirmed(s, o) THEN [note EXCEPT ![o][s] = "processed"] ELSE note
    /\ request' = [request EXCEPT ![r] = Idle]
    /\ UNCHANGED <<crashes, admin, order, unseen, seen, balance, lots, gateway, invoked>>

-----------------------------------------------------------------------------
(* The gateway, time and crashes.                                          *)

GatewayCreates(o) ==
    /\ o \in wire
    /\ wire' = wire \ {o}
    /\ trade' = [trade EXCEPT ![o] = [stat |-> "P", amount |-> @.amount + order[o].payable,
                                      payer |-> order[o].payer]]
    /\ UNCHANGED <<crashes, admin, rows, request, creates, invoked>>

\* The customer pays, or the transaction ends unpaid; either is final.
GatewayDecides(o, s) ==
    /\ trade[o].stat = "P"
    /\ trade' = [trade EXCEPT ![o].stat = s]
    /\ UNCHANGED <<crashes, admin, rows, request, wire, creates, invoked>>

DeadlinePasses(o) ==
    /\ order[o].status = "pending_payment" /\ ~order[o].expired
    /\ order' = [order EXCEPT ![o].expired = TRUE]
    /\ UNCHANGED <<crashes, admin, unseen, seen, balance, lots, note, request, gateway, invoked>>

SubmissionStale(o) ==
    /\ order[o].pre = "submitting" /\ ~order[o].stale
    /\ order' = [order EXCEPT ![o].stale = TRUE]
    /\ UNCHANGED <<crashes, admin, unseen, seen, balance, lots, note, request, gateway, invoked>>

Crash(r) ==
    /\ request[r] # Idle
    /\ crashes < MaxCrashes
    /\ crashes' = crashes + 1
    /\ request' = [request EXCEPT ![r] = Idle]
    /\ UNCHANGED <<admin, rows, gateway, invoked>>

Session(r, o) ==
    \E scene \in Scenes, p \in Payers \union {NoPayer} :
        \/ RegisterSession(r, o, scene, p)
        \/ RecoverSession(r, o, scene, p)

Step(r) ==
    \/ CreateError(r) \/ CreateAnswer(r)
    \/ ReadOrder(r) \/ CloseUnsubmitted(r)
    \/ QueryFails(r) \/ \E s \in {"P", "S", "F"} : QueryAnswers(r, s)
    \/ ApplySuccess(r) \/ ApplyOther(r) \/ MarkProcessed(r)

Next ==
    \/ PatchCampaign
    \/ \E o \in Orders : \/ \E q \in 1..MaxQuantity : CreateRechargeOrder(o, q)
                         \/ \E scene \in Scenes, p \in Payers \union {NoPayer} : ReplaySession(o, scene, p)
                         \/ GatewayCreates(o) \/ \E s \in Results : GatewayDecides(o, s)
                         \/ DeadlinePasses(o) \/ SubmissionStale(o)
    \/ \E r \in Requests :
        \/ Step(r) \/ Crash(r) \/ Reconcile(r)
        \/ \E o \in Orders : \/ Session(r, o) \/ Poll(r, o)
                             \/ \E s \in Results : NotificationArrives(r, o, s)

Spec == Init /\ [][Next]_vars

AsksFor(r, o) == request[r].o = o

\* The scheduler starts the reconciliation again and again, a request goes on
\* unless its process dies, and queries of a sound order do not fail for ever.
Worker == CHOOSE r \in Requests : TRUE
LiveSpec ==
    /\ Spec
    /\ SF_vars(Reconcile(Worker))
    /\ \A r \in Requests : WF_vars(Step(r))
    /\ \A o \in Orders \ Stuck :
        SF_vars(QueryAnswers(Worker, "S") /\ AsksFor(Worker, o))

-----------------------------------------------------------------------------
(* Properties.                                                             *)

\* Every variable has its type.
TypeOK ==
    /\ campaign \in Campaigns
    /\ patches \in 0..MaxPatches /\ crashes \in 0..MaxCrashes
    /\ order \in [Orders -> [status : {"none", "pending_payment", "paid", "closed"},
                             pre : {"not_started", "submitting", "ready", "failed"},
                             seq : BOOLEAN, scene : Scenes \union {""},
                             payer : Payers \union {NoPayer}, attempts : 0..1,
                             payload : BOOLEAN, expired : BOOLEAN, stale : BOOLEAN,
                             credited : 0..MaxQuantity, payable : 0..MaxQuantity,
                             rate : Rates \union {FullRate}]]
    /\ ToSet(unseen) \union ToSet(seen) = {o \in Orders : order[o].status # "none"}
    /\ \A r \in Requests : request[r].pc \in {"idle", "calling", "read", "close", "query", "apply", "mark"}
    /\ note \in [Orders -> [Results -> {"none", "received", "processed"}]]
    /\ wire \subseteq Orders
    /\ invoked \in [Orders -> SUBSET (Payers \union {NoPayer})]

\* create_recharge_huifu_payment_session and its recovery: whatever crashed,
\* timed out or was asked for again, the gateway is asked at most once to
\* create a transaction for a recharge order.
SentOnce == \A o \in Orders : creates[o] <= 1

\* _credit_recharge_order: the balance is what the gateway collected for the
\* orders marked as paid, once each, however many polls, notifications and
\* recoveries learnt of the same success.
BalanceIsCharged ==
    /\ \A o \in Orders : order[o].status = "paid" => trade[o].stat = "S"
    /\ balance = MapThenSumSet(LAMBDA o : trade[o].amount,
                               {o \in Orders : order[o].status = "paid"})

\* confirm_recharge_payment: a closed order will never be charged: either its
\* transaction ended unpaid or none was ever asked for.
ClosedIsUnpaid ==
    \A o \in Orders : order[o].status = "closed" => creates[o] = 0 \/ trade[o].stat = "F"

\* process_recharge_huifu_payment_notification: a success that was
\* acknowledged to the gateway, which then stops sending it, is credited.
AcknowledgedIsCredited == \A o \in Orders : note[o]["S"] = "processed" => order[o].status = "paid"

\* validate_wechat_payment_payer: the parameters of a transaction are handed
\* only to the identity the transaction was created for.
PayerKept == \A o \in Orders : \A p \in invoked[o] : trade[o].stat # "none" /\ p = trade[o].payer

\* pricing_snapshot: the discount that a lot carries is the one the order was
\* priced with, whatever became of the campaign until the payment arrived.
LotsAsPriced == \A l \in lots : l.rate = order[l.order].rate /\ l.amount = order[l.order].payable

\* reconcile_pending_recharges: what the customer paid is credited in the end,
\* although callbacks are lost and other orders fail their query for ever.
PaidByCustomer(o) == trade[o].stat = "S"
CreditedToWallet(o) == order[o].status = "paid"
PaidIsCredited == \A o \in Orders \ Stuck : PaidByCustomer(o) ~> CreditedToWallet(o)
=============================================================================
