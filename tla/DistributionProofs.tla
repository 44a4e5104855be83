------------------------- MODULE DistributionProofs -------------------------
(***************************************************************************)
(* For any orders and workers, any amounts and any balance: an order is    *)
(* paid out once, only for money that was not refunded, credited only when *)
(* the channel paid it, and covered by the platform's account; results and *)
(* disputes stand.                                                         *)
(***************************************************************************)
EXTENDS Distribution, TLAPS

Working == {"proof", "register"}
Answers == {"processing", "unknown", "conflict"} \cup Terminal
Calls ==
  {Idle} \cup [stage : {"proof"}, order : Orders, generation : Nat]
    \cup [stage : {"register"}, order : Orders, generation : Nat, funds : Nat]
    \cup [stage : {"failed"}, order : Orders, blocked : BOOLEAN]
    \cup [stage : {"submit"}, order : Orders]
    \cup [stage : {"save"}, order : Orders, answer : Answers, queried : BOOLEAN]
Facts == [settled : BOOLEAN, refund : {"none", "open", "done"}, manual : {"none", "open", "completed"}]
DistributionRows == [status : {"none"} \cup Unsettled \cup Terminal, conflict : BOOLEAN,
                     released : BOOLEAN, reviewed : BOOLEAN]
Channel == {"none", "accepted", "paid", "failed", "reversed"}

\* The shape of the state.
Shape ==
  /\ route \in [Orders -> {"delayed", "balance"}]
  /\ facts \in [Orders -> Facts]
  /\ row \in [Orders -> DistributionRows]
  /\ preflight \in [Orders -> {"none", "deferred", "blocked", "registered"}]
  /\ pool \in [generation : Nat, hold : BOOLEAN]
  /\ income \in [credits : [Orders -> Nat], hold : BOOLEAN]
  /\ job \in [Jobs -> Calls]
  /\ sent \in [Orders -> Nat]
  /\ channel \in [Orders -> Channel]
  /\ bank \in 0..MaxBank

-----------------------------------------------------------------------------
(* Sending.                                                                *)

\* Nothing was sent of an order without a row, and its row is blank.
BlankIsUnsent ==
  \A o \in Orders : ~Registered(o) => row[o] = NoRow /\ sent[o] = 0 /\ channel[o] = "none"

\* A worker about to send is the only one, and nothing was sent before.
SenderAlone ==
  \A j \in Jobs : job[j].stage = "submit" =>
    /\ Registered(job[j].order) /\ sent[job[j].order] = 0 /\ channel[job[j].order] = "none"
    /\ \A k \in Jobs \ {j} : job[k].stage = "submit" => job[k].order # job[j].order

SaverRegistered == \A j \in Jobs : job[j].stage = "save" => Registered(job[j].order)

(* Results.                                                                *)

Arrived(o) == channel[o] \in {"paid", "reversed"}

\* Whoever believes in a success has it from the channel.
SuccessIsPaid ==
  /\ \A j \in Jobs : job[j].stage = "save" /\ job[j].answer = "succeeded" => Arrived(job[j].order)
  /\ \A o \in Orders : row[o].status = "succeeded" => Arrived(o)

(* The pool.                                                               *)

\* A payment from the balance that still may be debited.
Occupies(o) == route[o] = "balance" /\ Registered(o) /\ ~row[o].released

\* At most one payment occupies the pool, and one that left it is decided at the channel.
PoolExclusive ==
  /\ \A o, p \in Orders : Occupies(o) /\ Occupies(p) => o = p
  /\ \A o \in Orders : route[o] = "balance" /\ row[o].released => channel[o] \in {"paid", "failed", "reversed"}

\* While the generation a worker read is the present one, nobody occupies the pool, and
\* the balance it read has not fallen.
ReadingHolds ==
  \A j \in Jobs : job[j].stage \in Working /\ route[job[j].order] = "balance" =>
    /\ job[j].generation <= pool.generation
    /\ job[j].generation = pool.generation =>
         /\ \A o \in Orders : ~Occupies(o)
         /\ job[j].stage = "register" => job[j].funds <= bank

Inv ==
  /\ Shape
  /\ BlankIsUnsent /\ SenderAlone /\ SaverRegistered /\ SuccessIsPaid
  /\ PoolExclusive /\ ReadingHolds
  /\ SentOnce /\ CreditIsPaid /\ RefundedIsNotPaidOut /\ FundsCovered /\ DisputeHolds
  /\ RegisteredIsShown

-----------------------------------------------------------------------------
LEMMA CallOrders ==
  ASSUME Shape, NEW j \in Jobs PROVE job[j].stage # "idle" => job[j].order \in Orders
BY DEF Shape, Calls, Idle

LEMMA InitInv == Init => Inv
<1> SUFFICES ASSUME Init PROVE Inv
  OBVIOUS
<1>1. Shape
  BY DistributionAssumption DEF Init, Shape, Facts, DistributionRows, NoRow, Channel, Calls, Unsettled
<1>2. \A j \in Jobs : job[j].stage = "idle"
  BY DEF Init, Idle
<1>3. \A o \in Orders : row[o] = NoRow /\ ~Registered(o) /\ row[o].status = "none"
        /\ ~row[o].released /\ ~row[o].conflict
  BY DEF Init, NoRow, Registered
<1>4. BlankIsUnsent /\ SenderAlone /\ SaverRegistered /\ SuccessIsPaid
  BY <1>2, <1>3 DEF Init, BlankIsUnsent, SenderAlone, SaverRegistered, SuccessIsPaid
<1>5. PoolExclusive /\ ReadingHolds
  BY <1>2, <1>3 DEF PoolExclusive, Occupies, ReadingHolds, Working
<1>6. SentOnce /\ CreditIsPaid /\ RefundedIsNotPaidOut
  BY <1>3 DEF Init, SentOnce, CreditIsPaid, RefundedIsNotPaidOut
<1>7. FundsCovered /\ DisputeHolds /\ RegisteredIsShown
  BY <1>3 DEF Init, FundsCovered, DisputeHolds, RegisteredIsShown
<1>8. QED
  BY <1>1, <1>4, <1>5, <1>6, <1>7 DEF Inv

-----------------------------------------------------------------------------
(* The order's own facts.                                                  *)

LEMMA FactsStep ==
  ASSUME Inv, NEW o \in Orders,
         StartRefund(o) \/ FinishRefund(o) \/ Settle(o) \/ OpenManual(o) \/ CloseManual(o)
  PROVE  Inv'
<1>1. UNCHANGED <<route, row, preflight, pool, income, job, sent, channel, bank>>
  BY DEF StartRefund, FinishRefund, Settle, OpenManual, CloseManual
<1>2. Shape'
  <2>1. PICK f \in Facts : facts' = [facts EXCEPT ![o] = f]
    <3>1. facts \in [Orders -> Facts] /\ facts[o] \in Facts
      BY DEF Inv, Shape
    <3>2. /\ [facts[o] EXCEPT !.settled = TRUE] \in Facts
          /\ \A r \in {"open", "done"} : [facts[o] EXCEPT !.refund = r] \in Facts
          /\ \A m \in {"none", "open", "completed"} : [facts[o] EXCEPT !.manual = m] \in Facts
      BY <3>1 DEF Facts
    <3>3. \/ facts' = [facts EXCEPT ![o] = [facts[o] EXCEPT !.settled = TRUE]]
          \/ \E r \in {"open", "done"} : facts' = [facts EXCEPT ![o] = [facts[o] EXCEPT !.refund = r]]
          \/ \E m \in {"none", "open", "completed"} :
                facts' = [facts EXCEPT ![o] = [facts[o] EXCEPT !.manual = m]]
      BY DEF StartRefund, FinishRefund, Settle, OpenManual, CloseManual
    <3>4. QED
      BY <3>2, <3>3
  <2>2. QED
    BY <1>1, <2>1 DEF Inv, Shape
<1>3. \A p \in Orders : facts'[p].refund # "none" => facts[p].refund # "none" \/ ~Registered(p)
  BY DEF StartRefund, FinishRefund, Settle, OpenManual, CloseManual, RefundAllowed, Inv, Shape, Facts
<1>4. RefundedIsNotPaidOut'
  BY <1>1, <1>3 DEF Inv, RefundedIsNotPaidOut, Registered
<1>5. BlankIsUnsent' /\ SenderAlone' /\ SaverRegistered' /\ SuccessIsPaid'
  BY <1>1 DEF Inv, BlankIsUnsent, SenderAlone, SaverRegistered, SuccessIsPaid, Registered, Arrived
<1>6. PoolExclusive' /\ ReadingHolds'
  BY <1>1 DEF Inv, PoolExclusive, Occupies, ReadingHolds, Registered
<1>7. SentOnce' /\ CreditIsPaid' /\ FundsCovered' /\ DisputeHolds' /\ RegisteredIsShown'
  BY <1>1 DEF Inv, SentOnce, CreditIsPaid, FundsCovered, DisputeHolds, RegisteredIsShown, Registered
<1>8. QED
  BY <1>2, <1>4, <1>5, <1>6, <1>7 DEF Inv

-----------------------------------------------------------------------------
(* The channel.                                                            *)

LEMMA TopUpStep == ASSUME Inv, TopUp PROVE Inv'
<1>1. /\ UNCHANGED <<route, facts, row, preflight, pool, income, job, sent, channel>>
      /\ bank' = MaxBank /\ bank < MaxBank
  BY DEF TopUp
<1>2. Shape'
  BY <1>1, DistributionAssumption DEF Inv, Shape
<1>3. ReadingHolds'
  <2>1. \A j \in Jobs : job[j].stage = "register" => job[j].funds \in Nat
    BY DEF Inv, Shape, Calls, Idle
  <2>2. bank \in Nat /\ MaxBank \in Nat
    BY DistributionAssumption DEF Inv, Shape
  <2>3. QED
    BY <1>1, <2>1, <2>2 DEF Inv, ReadingHolds, Occupies, Registered, Working
<1>4. FundsCovered'
  <2>1. Need \in Nat /\ bank \in Nat /\ MaxBank \in Nat
    BY DistributionAssumption DEF Inv, Shape, Need
  <2>2. QED
    BY <1>1, <2>1 DEF Inv, FundsCovered, Registered, Need
<1>5. BlankIsUnsent' /\ SenderAlone' /\ SaverRegistered' /\ SuccessIsPaid' /\ PoolExclusive'
  BY <1>1 DEF Inv, BlankIsUnsent, SenderAlone, SaverRegistered, SuccessIsPaid, PoolExclusive,
              Occupies, Registered, Arrived
<1>6. SentOnce' /\ CreditIsPaid' /\ RefundedIsNotPaidOut' /\ DisputeHolds' /\ RegisteredIsShown'
  BY <1>1 DEF Inv, SentOnce, CreditIsPaid, RefundedIsNotPaidOut, DisputeHolds, RegisteredIsShown, Registered
<1>7. QED
  BY <1>2, <1>3, <1>4, <1>5, <1>6 DEF Inv

\* Deciding about a request and sending money back debit nothing; paying debits what the
\* request that occupies the pool was covered for.
LEMMA DecisionStep ==
  ASSUME Inv, NEW o \in Orders, Pay(o) \/ Refuse(o) \/ Return(o)
  PROVE  Inv'
<1>1. UNCHANGED <<route, facts, row, preflight, pool, income, job, sent>>
  BY DEF Pay, Refuse, Return
<1>2. PICK c \in {"paid", "failed", "reversed"} :
         /\ channel' = [channel EXCEPT ![o] = c]
         /\ channel[o] \in {"accepted", "paid"}
         /\ Arrived(o) => c = "reversed"
         /\ bank' # bank => channel[o] = "accepted" /\ route[o] = "balance"
  <2>1. CASE Pay(o)
    BY <2>1 DEF Pay, Arrived, Inv, Shape
  <2>2. CASE Refuse(o)
    BY <2>2 DEF Refuse, Arrived
  <2>3. CASE Return(o)
    BY <2>3 DEF Return, Arrived
  <2>4. QED
    BY <2>1, <2>2, <2>3
<1>3. bank' \in 0..MaxBank
  <2>1. Need \in Nat /\ bank \in 0..MaxBank /\ MaxBank \in Nat /\ Amount \in Nat /\ FeeReserve \in Nat
    BY DistributionAssumption DEF Need, Inv, Shape
  <2>2. CASE bank' = bank
    BY <2>1, <2>2
  <2>3. ASSUME NEW fee \in 0..FeeReserve, bank >= Amount + fee, bank' = bank - Amount - fee
        PROVE  bank' \in 0..MaxBank
    BY <2>1, <2>3
  <2>4. QED
    BY <2>2, <2>3 DEF Pay, Refuse, Return
<1>4. \A p \in Orders : channel'[p] = IF p = o THEN c ELSE channel[p]
  BY <1>2 DEF Inv, Shape
<1>5. Shape'
  <2>1. channel' \in [Orders -> Channel]
    BY <1>2 DEF Inv, Shape, Channel
  <2>2. QED
    BY <1>1, <1>3, <2>1 DEF Inv, Shape
<1>6. Registered(o)
  BY <1>2 DEF Inv, BlankIsUnsent
<1>7. \A p \in Orders : Arrived(p) => Arrived(p)'
  BY <1>2, <1>4 DEF Arrived
<1>8. bank' # bank => Occupies(o)
  BY <1>2, <1>6 DEF Inv, PoolExclusive, Occupies
<1>9. BlankIsUnsent' /\ SaverRegistered' /\ SuccessIsPaid'
  BY <1>1, <1>4, <1>6, <1>7, CallOrders DEF Inv, BlankIsUnsent, SaverRegistered, SuccessIsPaid, Registered
<1>10. SenderAlone'
  BY <1>1, <1>2, <1>4 DEF Inv, SenderAlone, Registered
<1>11. PoolExclusive'
  BY <1>1, <1>4 DEF Inv, PoolExclusive, Occupies, Registered
<1>12. ReadingHolds'
  BY <1>1, <1>8 DEF Inv, ReadingHolds, Occupies, Registered, Working
<1>13. CreditIsPaid'
  BY <1>1, <1>7 DEF Inv, CreditIsPaid, Arrived
<1>14. FundsCovered'
  <2>1. ASSUME NEW p \in Orders, Occupies(p), channel'[p] \in {"none", "accepted"} PROVE bank >= Need /\ bank' = bank
    <3>1. p # o /\ channel[p] = channel'[p]
      BY <1>4, <2>1
    <3>2. ~Occupies(o)
      BY <2>1, <3>1 DEF Inv, PoolExclusive
    <3>3. QED
      BY <1>8, <2>1, <3>1, <3>2 DEF Inv, FundsCovered, Occupies
  <2>2. QED
    BY <1>1, <2>1 DEF FundsCovered, Occupies, Registered
<1>15. SentOnce' /\ RefundedIsNotPaidOut' /\ DisputeHolds' /\ RegisteredIsShown'
  BY <1>1 DEF Inv, SentOnce, RefundedIsNotPaidOut, DisputeHolds, RegisteredIsShown, Registered
<1>16. QED
  BY <1>5, <1>9, <1>10, <1>11, <1>12, <1>13, <1>14, <1>15 DEF Inv

-----------------------------------------------------------------------------
(* Workers.                                                                *)

\* A worker's step that changes nothing but its own call.
LEMMA CallStep ==
  ASSUME Inv, NEW j \in Jobs, NEW c \in Calls, job' = [job EXCEPT ![j] = c],
         UNCHANGED <<route, facts, row, preflight, pool, income, sent, channel, bank>>,
         c.stage # "submit",
         c.stage = "save" => Registered(c.order) /\ (c.answer = "succeeded" => Arrived(c.order)),
         c.stage \in Working /\ route[c.order] = "balance" =>
            /\ c.generation <= pool.generation
            /\ c.generation = pool.generation =>
                 /\ \A o \in Orders : ~Occupies(o)
                 /\ c.stage = "register" => c.funds <= bank
  PROVE  Inv'
<1>1. \A k \in Jobs : job'[k] = IF k = j THEN c ELSE job[k]
  BY DEF Inv, Shape
<1>2. Shape'
  BY DEF Inv, Shape
<1>3. \A o : (Registered(o)' <=> Registered(o)) /\ (Arrived(o)' <=> Arrived(o))
             /\ (Occupies(o)' <=> Occupies(o))
  BY DEF Registered, Arrived, Occupies
<1>4. SenderAlone'
  BY <1>1, <1>3 DEF Inv, SenderAlone
<1>5. SaverRegistered' /\ SuccessIsPaid'
  BY <1>1, <1>3 DEF Inv, SaverRegistered, SuccessIsPaid
<1>6. ReadingHolds'
  BY <1>1, <1>3 DEF Inv, ReadingHolds, Working
<1>7. BlankIsUnsent' /\ PoolExclusive'
  BY <1>3 DEF Inv, BlankIsUnsent, PoolExclusive
<1>8. SentOnce' /\ CreditIsPaid' /\ RefundedIsNotPaidOut' /\ FundsCovered' /\ DisputeHolds'
      /\ RegisteredIsShown'
  BY <1>3 DEF Inv, SentOnce, CreditIsPaid, RefundedIsNotPaidOut, FundsCovered, DisputeHolds,
              RegisteredIsShown
<1>9. QED
  BY <1>2, <1>4, <1>5, <1>6, <1>7, <1>8 DEF Inv

LEMMA FailingStep ==
  ASSUME Inv, NEW j \in Jobs, NEW o \in Orders, job' = Failing(j, o),
         UNCHANGED <<route, facts, row, preflight, pool, income, sent, channel, bank>>
  PROVE  Inv'
<1> DEFINE c == [stage |-> "failed", order |-> o, blocked |-> facts[o].refund = "done"]
<1>1. c \in Calls /\ job' = [job EXCEPT ![j] = c]
  BY DEF Calls, Failing
<1>2. c.stage = "failed"
  OBVIOUS
<1> HIDE DEF c
<1>3. QED
  BY <1>1, <1>2, CallStep DEF Working

LEMMA BeginStep ==
  ASSUME Inv, NEW j \in Jobs, NEW o \in Orders, Begin(j, o) PROVE Inv'
<1>1. UNCHANGED <<route, facts, row, preflight, pool, income, sent, channel, bank>>
  BY DEF Begin
<1>2. CASE job' = Failing(j, o)
  BY <1>1, <1>2, FailingStep
<1> DEFINE c == [stage |-> "proof", order |-> o, generation |-> pool.generation]
<1>3. CASE (route[o] = "balance" => PoolFree) /\ job' = [job EXCEPT ![j] = c]
  <2>1. pool.generation \in Nat
    BY DEF Inv, Shape
  <2>2. c \in Calls /\ c.stage = "proof" /\ c.order = o /\ c.generation = pool.generation
    BY <2>1 DEF Calls
  <2>3. route[o] = "balance" => \A p \in Orders : ~Occupies(p)
    BY <1>3 DEF PoolFree, Occupies
  <2>4. route[c.order] = "balance" =>
           /\ c.generation <= pool.generation
           /\ c.generation = pool.generation =>
                /\ \A p \in Orders : ~Occupies(p)
                /\ c.stage = "register" => c.funds <= bank
    BY <2>1, <2>2, <2>3
  <2> HIDE DEF c
  <2>5. QED
    BY <1>1, <1>3, <2>2, <2>4, CallStep
<1>4. QED
  BY <1>2, <1>3 DEF Begin

LEMMA ProveStep ==
  ASSUME Inv, NEW j \in Jobs, Prove(j) PROVE Inv'
<1> DEFINE o == job[j].order
           c == [stage |-> "register", order |-> o, generation |-> job[j].generation, funds |-> bank]
<1>1. UNCHANGED <<route, facts, row, preflight, pool, income, sent, channel, bank>>
      /\ job[j].stage = "proof" /\ (job' = [job EXCEPT ![j] = c] \/ job' = Failing(j, o))
  BY DEF Prove
<1>2. o \in Orders
  BY <1>1, CallOrders DEF Inv
<1>3. CASE job' = Failing(j, o)
  BY <1>1, <1>2, <1>3, FailingStep
<1>4. CASE job' = [job EXCEPT ![j] = c]
  <2>1. job[j].generation \in Nat /\ bank \in Nat
    BY <1>1, DistributionAssumption DEF Inv, Shape, Calls, Idle
  <2>2. c \in Calls /\ c.stage = "register" /\ c.order = o /\ c.generation = job[j].generation /\ c.funds = bank
    BY <1>2, <2>1 DEF Calls
  <2>3. route[o] = "balance" =>
           /\ job[j].generation <= pool.generation
           /\ job[j].generation = pool.generation => \A p \in Orders : ~Occupies(p)
    BY <1>1 DEF Inv, ReadingHolds, Working
  <2>4. route[c.order] = "balance" =>
           /\ c.generation <= pool.generation
           /\ c.generation = pool.generation =>
                /\ \A p \in Orders : ~Occupies(p)
                /\ c.stage = "register" => c.funds <= bank
    BY <2>1, <2>2, <2>3
  <2> HIDE DEF c
  <2>5. QED
    BY <1>1, <1>4, <2>2, <2>4, CallStep
<1>5. QED
  BY <1>1, <1>3, <1>4

LEMMA QueryStep ==
  ASSUME Inv, NEW j \in Jobs, NEW o \in Orders, Query(j, o) \/ QueryUnclear(j, o) PROVE Inv'
<1>1. UNCHANGED <<route, facts, row, preflight, pool, income, sent, channel, bank>> /\ Due(o)
  BY DEF Query, QueryUnclear
<1>2. PICK a \in Answers : (a = "succeeded" => Arrived(o)) /\ Answered(j, o, a, TRUE)
  <2>1. CASE Query(j, o)
    <3>1. PICK a \in QueryAnswers(o) : Answered(j, o, a, TRUE)
      BY <2>1 DEF Query
    <3>2. channel[o] \in Channel
      BY DEF Inv, Shape
    <3>3. a \in Answers /\ (a = "succeeded" => Arrived(o))
      BY <3>2 DEF QueryAnswers, Answers, Terminal, Arrived, Channel
    <3>4. QED
      BY <3>1, <3>3
  <2>2. CASE QueryUnclear(j, o)
    BY <2>2 DEF QueryUnclear, Answers, Terminal
  <2>3. QED
    BY <2>1, <2>2
<1> DEFINE c == [stage |-> "save", order |-> o, answer |-> a, queried |-> TRUE]
<1>3. job' = [job EXCEPT ![j] = c] /\ c \in Calls /\ c.stage = "save" /\ c.order = o /\ c.answer = a
  BY <1>2 DEF Answered, Calls
<1>4. Registered(o)
  BY <1>1 DEF Due, Registered, Unsettled
<1> HIDE DEF c
<1>5. QED
  BY <1>1, <1>2, <1>3, <1>4, CallStep DEF Working

LEMMA CrashStep ==
  ASSUME Inv, NEW j \in Jobs, Crash(j) PROVE Inv'
<1>1. UNCHANGED <<route, facts, row, preflight, pool, income, sent, channel, bank>>
      /\ job' = [job EXCEPT ![j] = Idle]
  BY DEF Crash
<1>2. Idle \in Calls /\ Idle.stage = "idle"
  BY DEF Calls, Idle
<1>3. QED
  BY <1>1, <1>2, CallStep DEF Working

LEMMA RecordFailureStep ==
  ASSUME Inv, NEW j \in Jobs, RecordFailure(j) PROVE Inv'
<1>1. UNCHANGED <<route, facts, row, pool, income, sent, channel, bank>>
      /\ preflight' = FailurePreflight(j) /\ job' = [job EXCEPT ![j] = Idle]
      /\ job[j].stage = "failed"
  BY DEF RecordFailure
<1>2. \A k \in Jobs : job'[k].stage # "idle" => job'[k] = job[k]
  BY <1>1 DEF Inv, Shape, Idle
<1>3. /\ preflight' \in [Orders -> {"none", "deferred", "blocked", "registered"}]
      /\ \A o \in Orders : Registered(o) => preflight'[o] = preflight[o]
  <2>1. job[j].order \in Orders
    BY <1>1, CallOrders DEF Inv
  <2>2. QED
    BY <1>1, <2>1 DEF FailurePreflight, Inv, Shape
<1>4. Shape'
  BY <1>1, <1>3 DEF Inv, Shape, Calls
<1>5. \A o : (Registered(o)' <=> Registered(o)) /\ (Arrived(o)' <=> Arrived(o))
             /\ (Occupies(o)' <=> Occupies(o))
  BY <1>1 DEF Registered, Arrived, Occupies
<1>6. SenderAlone' /\ SaverRegistered' /\ SuccessIsPaid' /\ ReadingHolds'
  BY <1>1, <1>2, <1>5 DEF Inv, SenderAlone, SaverRegistered, SuccessIsPaid, ReadingHolds, Working
<1>7. BlankIsUnsent' /\ PoolExclusive' /\ RegisteredIsShown'
  BY <1>1, <1>3, <1>5 DEF Inv, BlankIsUnsent, PoolExclusive, RegisteredIsShown
<1>8. SentOnce' /\ CreditIsPaid' /\ RefundedIsNotPaidOut' /\ FundsCovered' /\ DisputeHolds'
  BY <1>1, <1>5 DEF Inv, SentOnce, CreditIsPaid, RefundedIsNotPaidOut, FundsCovered, DisputeHolds
<1>9. QED
  BY <1>4, <1>6, <1>7, <1>8 DEF Inv

\* The registration: nobody else is about to send, the pool is free, the balance suffices.
LEMMA RegistrationStep ==
  ASSUME Inv, NEW j \in Jobs, NEW o \in Orders, o = job[j].order, job[j].stage = "register",
         Absent(o), StillReady(o), route[o] = "balance" => Fresh(j),
         row' = [row EXCEPT ![o] = [NoRow EXCEPT !.status = "submitting"]],
         pool' = IF route[o] = "balance" THEN [pool EXCEPT !.generation = @ + 1] ELSE pool,
         preflight' = [preflight EXCEPT ![o] = "registered"],
         job' = [job EXCEPT ![j] = [stage |-> "submit", order |-> o]],
         UNCHANGED <<route, facts, income, sent, channel, bank>>
  PROVE  Inv'
<1> DEFINE new == [NoRow EXCEPT !.status = "submitting"]
<1>1. /\ new \in DistributionRows /\ new.status = "submitting" /\ ~new.conflict /\ ~new.released
      /\ [stage |-> "submit", order |-> o] \in Calls
  BY DEF NoRow, DistributionRows, Unsettled, Calls
<1>2. \A p \in Orders : row'[p] = IF p = o THEN new ELSE row[p]
  BY DEF Inv, Shape
<1>3. \A p \in Orders : Registered(p)' <=> p = o \/ Registered(p)
  BY <1>1, <1>2 DEF Registered
<1>4. /\ ~Registered(o) /\ sent[o] = 0 /\ channel[o] = "none"
      /\ facts[o].refund = "none"
  BY DEF Inv, BlankIsUnsent, Absent, StillReady, Ready
<1>5. \A k \in Jobs : job'[k] = IF k = j THEN [stage |-> "submit", order |-> o] ELSE job[k]
  BY DEF Inv, Shape
<1>6. /\ pool.generation \in Nat /\ pool.hold' = pool.hold
      /\ pool.generation' = IF route[o] = "balance" THEN pool.generation + 1 ELSE pool.generation
      /\ pool' \in [generation : Nat, hold : BOOLEAN]
  BY DEF Inv, Shape
<1>7. Shape'
  <2>1. row' \in [Orders -> DistributionRows] /\ job' \in [Jobs -> Calls]
    BY <1>1 DEF Inv, Shape
  <2>2. QED
    BY <1>6, <2>1 DEF Inv, Shape
<1>8. BlankIsUnsent'
  BY <1>2, <1>3 DEF Inv, BlankIsUnsent
<1>9. SenderAlone'
  <2>1. \A k \in Jobs : job[k].stage = "submit" => job[k].order # o /\ job[k].order \in Orders
    BY <1>4, CallOrders DEF Inv, SenderAlone
  <2>2. QED
    BY <1>3, <1>4, <1>5, <2>1 DEF Inv, SenderAlone
<1>10. SaverRegistered'
  <2>1. \A k \in Jobs : job[k].stage = "save" => job[k].order \in Orders
    BY CallOrders DEF Inv
  <2>2. QED
    BY <1>3, <1>5, <2>1 DEF Inv, SaverRegistered
<1>11. SuccessIsPaid'
  BY <1>1, <1>2, <1>5 DEF Inv, SuccessIsPaid, Arrived
<1>12. route[o] = "balance" => /\ \A p \in Orders : ~Occupies(p)
                               /\ bank >= Need
  <2>1. route[o] = "balance" => PoolFree /\ job[j].funds >= Need /\ job[j].generation = pool.generation
    BY DEF Fresh
  <2>2. route[o] = "balance" => job[j].funds <= bank
    BY <2>1 DEF Inv, ReadingHolds, Working
  <2>3. job[j].funds \in Nat /\ bank \in Nat /\ Need \in Nat
    BY DistributionAssumption DEF Inv, Shape, Calls, Idle, Need
  <2>4. QED
    BY <2>1, <2>2, <2>3 DEF PoolFree, Occupies
<1>13. \A p \in Orders : Occupies(p)' <=> Occupies(p) \/ (p = o /\ route[o] = "balance")
  BY <1>1, <1>2, <1>3, <1>4 DEF Occupies
<1>14. PoolExclusive'
  BY <1>1, <1>2, <1>12, <1>13 DEF Inv, PoolExclusive
<1>15. ReadingHolds'
  <2>1. \A k \in Jobs : job[k].stage \in Working => job[k].generation \in Nat /\ job[k].order \in Orders
    BY DEF Inv, Shape, Calls, Idle, Working
  <2>2. ASSUME NEW k \in Jobs, k # j, job[k].stage \in Working, route[job[k].order] = "balance"
        PROVE  /\ job[k].generation <= pool.generation'
               /\ job[k].generation = pool.generation' =>
                    /\ \A p \in Orders : ~Occupies(p)'
                    /\ job[k].stage = "register" => job[k].funds <= bank
    <3>1. job[k].generation <= pool.generation
      BY <2>2 DEF Inv, ReadingHolds
    <3>2. CASE route[o] = "balance"
      BY <1>6, <2>1, <2>2, <3>1, <3>2
    <3>3. CASE route[o] # "balance"
      BY <1>6, <1>13, <2>2, <3>1, <3>3 DEF Inv, ReadingHolds
    <3>4. QED
      BY <3>2, <3>3
  <2>3. QED
    BY <1>5, <2>2 DEF ReadingHolds, Working
<1>16. FundsCovered'
  BY <1>12, <1>13 DEF Inv, FundsCovered, Occupies
<1>17. SentOnce' /\ CreditIsPaid'
  BY DEF Inv, SentOnce, CreditIsPaid
<1>18. RefundedIsNotPaidOut'
  BY <1>3, <1>4 DEF Inv, RefundedIsNotPaidOut
<1>19. DisputeHolds'
  BY <1>1, <1>2, <1>6 DEF Inv, DisputeHolds
<1>20. RegisteredIsShown'
  BY <1>3 DEF Inv, RegisteredIsShown, Shape
<1>21. QED
  BY <1>7, <1>8, <1>9, <1>10, <1>11, <1>14, <1>15, <1>16, <1>17, <1>18, <1>19, <1>20 DEF Inv

LEMMA RegisterStep ==
  ASSUME Inv, NEW j \in Jobs, Register(j) PROVE Inv'
<1>1. PICK o \in Orders : o = job[j].order /\ job[j].stage = "register"
  BY CallOrders DEF Register, Inv
<1>2. UNCHANGED <<route, facts, income, sent, channel, bank>>
  BY DEF Register
<1>3. CASE UNCHANGED <<row, pool, preflight>> /\ job' = [job EXCEPT ![j] = Idle]
  <2>1. Idle \in Calls /\ Idle.stage = "idle"
    BY DEF Calls, Idle
  <2>2. QED
    BY <1>2, <1>3, <2>1, CallStep DEF Working
<1>4. CASE UNCHANGED <<row, pool, preflight>> /\ job' = Failing(j, o)
  BY <1>2, <1>4, FailingStep
<1>5. CASE /\ Absent(o) /\ StillReady(o) /\ (route[o] = "balance" => Fresh(j))
           /\ row' = [row EXCEPT ![o] = [NoRow EXCEPT !.status = "submitting"]]
           /\ pool' = IF route[o] = "balance" THEN [pool EXCEPT !.generation = @ + 1] ELSE pool
           /\ preflight' = [preflight EXCEPT ![o] = "registered"]
           /\ job' = [job EXCEPT ![j] = [stage |-> "submit", order |-> o]]
  BY <1>1, <1>2, <1>5, RegistrationStep
<1>6. QED
  BY <1>1, <1>3, <1>4, <1>5 DEF Register

LEMMA SubmitStep ==
  ASSUME Inv, NEW j \in Jobs, Submit(j) PROVE Inv'
<1>1. PICK o \in Orders : o = job[j].order /\ job[j].stage = "submit"
  BY CallOrders DEF Submit, Inv
<1>2. UNCHANGED <<route, facts, row, preflight, pool, income, bank>>
  BY DEF Submit
<1>3. Registered(o) /\ sent[o] = 0 /\ channel[o] = "none"
  BY <1>1 DEF Inv, SenderAlone
<1>4. PICK a \in {"processing", "unknown", "conflict"} : Answered(j, o, a, FALSE)
  BY <1>1 DEF Submit
<1> DEFINE c == [stage |-> "save", order |-> o, answer |-> a, queried |-> FALSE]
<1>5. job' = [job EXCEPT ![j] = c]
  BY <1>4 DEF Answered
<1>6. c \in Calls /\ c.stage = "save" /\ c.order = o /\ c.answer # "succeeded"
  BY DEF Calls, Answers
<1> HIDE DEF c
<1>7. CASE UNCHANGED <<sent, channel>>
  BY <1>2, <1>3, <1>5, <1>6, <1>7, CallStep DEF Working
<1>8. CASE sent' = [sent EXCEPT ![o] = @ + 1] /\ channel' = [channel EXCEPT ![o] = "accepted"]
  <2>1. \A k \in Jobs : job'[k] = IF k = j THEN c ELSE job[k]
    BY <1>5 DEF Inv, Shape
  <2>2. \A p \in Orders : /\ sent'[p] = IF p = o THEN 1 ELSE sent[p]
                          /\ channel'[p] = IF p = o THEN "accepted" ELSE channel[p]
    BY <1>3, <1>8 DEF Inv, Shape
  <2>3. \A p : (Registered(p)' <=> Registered(p)) /\ (Occupies(p)' <=> Occupies(p))
    BY <1>2 DEF Registered, Occupies
  <2>4. \A p \in Orders : p # o => (Arrived(p)' <=> Arrived(p))
    BY <2>2 DEF Arrived
  <2>5. Shape'
    <3>1. job' \in [Jobs -> Calls] /\ sent' \in [Orders -> Nat] /\ channel' \in [Orders -> Channel]
      BY <1>5, <1>6, <1>8 DEF Inv, Shape, Channel
    <3>2. QED
      BY <1>2, <3>1 DEF Inv, Shape
  <2>6. BlankIsUnsent'
    BY <1>2, <1>3, <2>2, <2>3 DEF Inv, BlankIsUnsent
  <2>7. SenderAlone'
    <3>1. \A k \in Jobs : k # j /\ job[k].stage = "submit" => job[k].order # o /\ job[k].order \in Orders
      BY <1>1, CallOrders DEF Inv, SenderAlone
    <3>2. QED
      BY <1>6, <2>1, <2>2, <2>3, <3>1 DEF Inv, SenderAlone
  <2>8. SaverRegistered'
    BY <1>3, <1>6, <2>1, <2>3 DEF Inv, SaverRegistered
  <2>9. SuccessIsPaid'
    <3>1. \A k \in Jobs : job[k].stage = "save" => job[k].order \in Orders
      BY CallOrders DEF Inv
    <3>2. ~Arrived(o)
      BY <1>3 DEF Arrived
    <3>3. QED
      BY <1>2, <1>6, <2>1, <2>4, <3>1, <3>2 DEF Inv, SuccessIsPaid
  <2>10. PoolExclusive'
    BY <1>2, <1>3, <2>2, <2>3 DEF Inv, PoolExclusive
  <2>11. ReadingHolds'
    BY <1>2, <1>6, <2>1, <2>3 DEF Inv, ReadingHolds, Working
  <2>12. SentOnce' /\ CreditIsPaid'
    BY <1>2, <1>3, <2>2 DEF Inv, SentOnce, CreditIsPaid
  <2>13. FundsCovered'
    BY <1>2, <1>3, <2>2, <2>3 DEF Inv, FundsCovered
  <2>14. RefundedIsNotPaidOut' /\ DisputeHolds' /\ RegisteredIsShown'
    BY <1>2, <2>3 DEF Inv, RefundedIsNotPaidOut, DisputeHolds, RegisteredIsShown
  <2>15. QED
    BY <2>5, <2>6, <2>7, <2>8, <2>9, <2>10, <2>11, <2>12, <2>13, <2>14 DEF Inv
<1>9. QED
  BY <1>1, <1>7, <1>8 DEF Submit

\* What saving an answer makes of a row.
LEMMA ResultOfAnAnswer ==
  ASSUME NEW old \in DistributionRows, NEW a \in Answers, NEW queried \in BOOLEAN, old.status # "none"
  PROVE  LET r == Resulting(old, a, queried)
         IN /\ r \in DistributionRows
            /\ r.status # "none"
            /\ old.conflict => r.conflict
            /\ old.status \in Terminal => r.status = old.status
            /\ r.status = "succeeded" => old.status = "succeeded" \/ a = "succeeded"
            /\ r.released = old.released
<1>1. CASE Conflicting(old, a, queried)
  <2> DEFINE r == [old EXCEPT !.conflict = TRUE,
                              !.status = IF old.status \in Terminal THEN old.status ELSE "unknown"]
  <2>1. Resulting(old, a, queried) = r
    BY <1>1 DEF Resulting
  <2>2. /\ r \in DistributionRows /\ r.conflict = TRUE /\ r.released = old.released
        /\ r.status = IF old.status \in Terminal THEN old.status ELSE "unknown"
    BY DEF DistributionRows, Unsettled
  <2> HIDE DEF r
  <2>3. QED
    BY <2>1, <2>2 DEF Terminal
<1>2. CASE ~Conflicting(old, a, queried) /\ ~old.conflict /\ old.status \notin Terminal
  <2>1. a # "conflict" /\ a \in {"processing", "unknown"} \cup Terminal
    BY <1>2 DEF Conflicting, Answers
  <2>2. Resulting(old, a, queried) = [old EXCEPT !.status = a]
    BY <1>2 DEF Resulting
  <2>3. /\ [old EXCEPT !.status = a] \in DistributionRows /\ [old EXCEPT !.status = a].status = a
        /\ [old EXCEPT !.status = a].released = old.released
    BY <2>1 DEF DistributionRows, Unsettled
  <2>4. QED
    BY <1>2, <2>1, <2>2, <2>3 DEF Terminal
<1>3. CASE ~Conflicting(old, a, queried) /\ (old.conflict \/ old.status \in Terminal)
  BY <1>3 DEF Resulting
<1>4. QED
  BY <1>1, <1>2, <1>3

\* Saving an answer of an order: what becomes of the row, the pool and the income.
Saved(o, new, gen, credits) ==
  /\ row' = [row EXCEPT ![o] = new] /\ new \in DistributionRows
  /\ new.status # "none"
  /\ row[o].conflict => new.conflict
  /\ row[o].status \in Terminal => new.status = row[o].status
  /\ new.status = "succeeded" => Arrived(o)
  /\ row[o].released => new.released
  /\ route[o] = "balance" /\ new.released => row[o].released \/ Arrived(o)
  /\ pool' \in [generation : Nat, hold : BOOLEAN] /\ pool.generation <= gen /\ pool'.generation = gen
  /\ pool.hold \/ (route[o] = "balance" /\ new.conflict) => pool'.hold
  /\ income' \in [credits : [Orders -> Nat], hold : BOOLEAN] /\ income'.credits = credits
  /\ income.hold \/ new.conflict => income'.hold
  /\ \A p \in Orders : credits[p] # income.credits[p] =>
        p = o /\ income.credits[p] = 0 /\ credits[p] = 1 /\ Arrived(o) /\ ~row[o].conflict

LEMMA SavingAnAnswer ==
  ASSUME Inv, NEW j \in Jobs, Save(j)
  PROVE  \E o \in Orders : \E new, gen, credits : o = job[j].order /\ Saved(o, new, gen, credits)
<1>1. PICK o \in Orders : o = job[j].order /\ job[j].stage = "save"
  BY CallOrders DEF Save, Inv
<1> DEFINE a == job[j].answer
           queried == job[j].queried
           balance == route[o] = "balance"
<1>2. PICK r : r = Resulting(row[o], a, queried)
  OBVIOUS
<1>3. a \in Answers /\ queried \in BOOLEAN /\ row[o] \in DistributionRows
  BY <1>1 DEF Inv, Shape, Calls, Idle
<1>4. row[o].status # "none" /\ (a = "succeeded" => Arrived(o))
      /\ (row[o].status = "succeeded" => Arrived(o))
  BY <1>1 DEF Inv, SaverRegistered, SuccessIsPaid, Registered
<1>5. /\ r \in DistributionRows /\ r.status # "none"
      /\ row[o].conflict => r.conflict
      /\ row[o].status \in Terminal => r.status = row[o].status
      /\ r.status = "succeeded" => row[o].status = "succeeded" \/ a = "succeeded"
      /\ r.released = row[o].released
  BY <1>2, <1>3, <1>4, ResultOfAnAnswer
<1>6. PICK new : new = [r EXCEPT !.released = @ \/ (balance /\ r.status = "succeeded" /\ ~r.conflict)]
  OBVIOUS
<1>7. /\ row' = [row EXCEPT ![o] = new]
      /\ pool' = IF balance THEN ReconciledPool(r) ELSE pool
      /\ income' = IncomeAfter(o, r, a, queried)
  BY <1>1, <1>2, <1>6 DEF Save
<1>8. /\ new \in DistributionRows /\ new.status = r.status /\ new.conflict = r.conflict
      /\ new.released = (r.released \/ (balance /\ r.status = "succeeded" /\ ~r.conflict))
  BY <1>5, <1>6 DEF DistributionRows
<1>9. /\ pool' \in [generation : Nat, hold : BOOLEAN]
      /\ pool.generation <= pool'.generation
      /\ pool.hold \/ (balance /\ r.conflict) => pool'.hold
  <2>1. pool \in [generation : Nat, hold : BOOLEAN]
    BY DEF Inv, Shape
  <2>2. CASE ~balance
    BY <1>7, <2>1, <2>2
  <2>3. CASE balance /\ Holding(r)
    BY <1>7, <2>1, <2>3 DEF ReconciledPool
  <2>4. CASE balance /\ ~Holding(r)
    <3>1. ~r.conflict
      BY <2>4 DEF Holding
    <3>2. pool' = pool \/ pool' = [pool EXCEPT !.generation = @ + 1]
      BY <1>7, <2>4 DEF ReconciledPool
    <3>3. QED
      BY <2>1, <3>1, <3>2
  <2>5. QED
    BY <2>2, <2>3, <2>4
<1>10. /\ income' \in [credits : [Orders -> Nat], hold : BOOLEAN]
       /\ income.hold \/ r.conflict => income'.hold
       /\ \A p \in Orders : income'.credits[p] # income.credits[p] =>
            p = o /\ income.credits[p] = 0 /\ income'.credits[p] = 1 /\ Arrived(o) /\ ~row[o].conflict
  <2>1. income \in [credits : [Orders -> Nat], hold : BOOLEAN]
    BY DEF Inv, Shape
  <2>2. CASE r.conflict
    BY <1>7, <2>1, <2>2 DEF IncomeAfter
  <2>3. CASE ~r.conflict /\ Credited(o, r, a, queried)
    <3>1. income' = [income EXCEPT !.credits[o] = @ + 1] /\ income.credits[o] = 0 /\ Arrived(o) /\ ~row[o].conflict
      BY <1>4, <1>5, <1>7, <2>3 DEF IncomeAfter, Credited
    <3>2. QED
      BY <2>1, <2>3, <3>1
  <2>4. CASE ~r.conflict /\ ~Credited(o, r, a, queried)
    BY <1>7, <2>1, <2>4 DEF IncomeAfter
  <2>5. QED
    BY <2>2, <2>3, <2>4
<1>11. /\ row[o].released => new.released
       /\ balance /\ new.released => row[o].released \/ Arrived(o)
  BY <1>4, <1>5, <1>8
<1>12. Saved(o, new, pool'.generation, income'.credits)
  BY <1>4, <1>5, <1>7, <1>8, <1>9, <1>10, <1>11 DEF Saved
<1>13. QED
  BY <1>1, <1>12

LEMMA SaveStep ==
  ASSUME Inv, NEW j \in Jobs, Save(j) PROVE Inv'
<1>0. PICK o \in Orders : \E new, gen, credits : o = job[j].order /\ Saved(o, new, gen, credits)
  BY SavingAnAnswer
<1>1. PICK new, gen, credits : o = job[j].order /\ Saved(o, new, gen, credits)
  BY <1>0
<1>2. /\ job' = [job EXCEPT ![j] = Idle] /\ job[j].stage = "save"
      /\ UNCHANGED <<route, facts, preflight, sent, channel, bank>>
  BY DEF Save
<1>3. \A p \in Orders : row'[p] = IF p = o THEN new ELSE row[p]
  BY <1>1 DEF Saved, Inv, Shape
<1>4. \A k \in Jobs : job'[k].stage # "idle" => job'[k] = job[k]
  BY <1>2 DEF Inv, Shape, Idle
<1>5. Shape'
  BY <1>1, <1>2 DEF Saved, Inv, Shape, Calls
<1>6. Registered(o) /\ new.status # "none"
  BY <1>1, <1>2 DEF Inv, SaverRegistered, Saved
<1>7. \A p \in Orders : (Registered(p)' <=> Registered(p)) /\ (Arrived(p)' <=> Arrived(p))
  BY <1>2, <1>3, <1>6 DEF Registered, Arrived
<1>8. \A p \in Orders : Occupies(p)' => Occupies(p)
  BY <1>1, <1>2, <1>3, <1>6, <1>7 DEF Occupies, Saved
<1>9. BlankIsUnsent'
  BY <1>2, <1>3, <1>6, <1>7 DEF Inv, BlankIsUnsent
<1>10. \A k \in Jobs : job[k].stage # "idle" => job[k].order \in Orders
  BY CallOrders DEF Inv
<1>11. SenderAlone' /\ SaverRegistered'
  BY <1>2, <1>4, <1>7, <1>10 DEF Inv, SenderAlone, SaverRegistered
<1>12. SuccessIsPaid'
  BY <1>1, <1>3, <1>4, <1>7, <1>10 DEF Inv, SuccessIsPaid, Saved
<1>13. PoolExclusive'
  <2>1. \A p \in Orders : route[p] = "balance" /\ row'[p].released => row[p].released \/ Arrived(p)
    BY <1>1, <1>3 DEF Saved
  <2>2. QED
    BY <1>2, <1>8, <2>1 DEF Inv, PoolExclusive, Arrived
<1>14. ReadingHolds'
  <2>1. \A k \in Jobs : job[k].stage \in Working => job[k].generation \in Nat /\ job[k].order \in Orders
    BY DEF Inv, Shape, Calls, Idle, Working
  <2>2. pool.generation \in Nat /\ gen \in Nat /\ pool.generation <= gen /\ pool'.generation = gen
    BY <1>1 DEF Inv, Shape, Saved
  <2>3. ASSUME NEW k \in Jobs, job'[k].stage \in Working, route[job'[k].order] = "balance"
        PROVE  /\ job'[k].generation <= gen
               /\ job'[k].generation = gen =>
                    /\ \A p \in Orders : ~Occupies(p)'
                    /\ job'[k].stage = "register" => job'[k].funds <= bank
    <3>1. job'[k] = job[k]
      BY <1>4, <2>3 DEF Working
    <3>2. /\ job[k].generation <= pool.generation
          /\ job[k].generation = pool.generation =>
               /\ \A p \in Orders : ~Occupies(p)
               /\ job[k].stage = "register" => job[k].funds <= bank
      BY <2>3, <3>1 DEF Inv, ReadingHolds
    <3>3. QED
      BY <1>8, <2>1, <2>2, <2>3, <3>1, <3>2
  <2>4. QED
    BY <1>2, <2>2, <2>3 DEF ReadingHolds
<1>15. SentOnce' /\ RefundedIsNotPaidOut' /\ RegisteredIsShown'
  BY <1>2, <1>7 DEF Inv, SentOnce, RefundedIsNotPaidOut, RegisteredIsShown
<1>16. CreditIsPaid'
  BY <1>1, <1>2 DEF Inv, CreditIsPaid, Saved, Arrived
<1>17. FundsCovered'
  BY <1>2, <1>8 DEF Inv, FundsCovered, Occupies
<1>18. DisputeHolds'
  BY <1>1, <1>2, <1>3 DEF Inv, DisputeHolds, Saved
<1>19. QED
  BY <1>5, <1>9, <1>11, <1>12, <1>13, <1>14, <1>15, <1>16, <1>17, <1>18 DEF Inv

\* An approved release: the payment failed at the channel, and the pool is free again.
LEMMA ReleasePoolStep ==
  ASSUME Inv, NEW o \in Orders, ReleasePool(o) PROVE Inv'
<1>1. UNCHANGED <<route, facts, preflight, income, job, sent, channel, bank>>
      /\ row' = [row EXCEPT ![o].released = TRUE, ![o].reviewed = TRUE]
      /\ pool' = [generation |-> pool.generation + 1, hold |-> FALSE]
      /\ route[o] = "balance" /\ channel[o] \in {"failed", "reversed"}
      /\ Releasable(o)
  BY DEF ReleasePool
<1>2. PICK new \in DistributionRows :
        /\ new.status = row[o].status /\ new.conflict = row[o].conflict /\ new.released = TRUE
        /\ \A p \in Orders : row'[p] = IF p = o THEN new ELSE row[p]
  <2> DEFINE new == [row[o] EXCEPT !.released = TRUE, !.reviewed = TRUE]
  <2>1. row[o] \in DistributionRows /\ row' = [row EXCEPT ![o] = new]
    BY <1>1 DEF Inv, Shape
  <2>2. new \in DistributionRows /\ new.status = row[o].status /\ new.conflict = row[o].conflict
        /\ new.released = TRUE
    BY <2>1 DEF DistributionRows
  <2>3. \A p \in Orders : row'[p] = IF p = o THEN new ELSE row[p]
    BY <2>1 DEF Inv, Shape
  <2>4. QED
    BY <2>2, <2>3
<1>3. row[o].status = "failed"
  BY <1>1 DEF Releasable
<1>4. Shape'
  <2>1. row' \in [Orders -> DistributionRows] /\ pool' \in [generation : Nat, hold : BOOLEAN]
    BY <1>1, <1>2 DEF Inv, Shape
  <2>2. QED
    BY <1>1, <2>1 DEF Inv, Shape
<1>5. \A p \in Orders : (Registered(p)' <=> Registered(p)) /\ (Arrived(p)' <=> Arrived(p))
  BY <1>1, <1>2 DEF Registered, Arrived
<1>6. \A p \in Orders : Occupies(p)' => Occupies(p)
  BY <1>1, <1>2, <1>5 DEF Occupies
<1>7. \A k \in Jobs : job[k].stage # "idle" => job[k].order \in Orders
  BY CallOrders DEF Inv
<1>8. BlankIsUnsent'
  BY <1>1, <1>2, <1>3, <1>5 DEF Inv, BlankIsUnsent, Registered
<1>9. SenderAlone' /\ SaverRegistered'
  BY <1>1, <1>5, <1>7 DEF Inv, SenderAlone, SaverRegistered
<1>10. SuccessIsPaid'
  BY <1>1, <1>2, <1>5, <1>7 DEF Inv, SuccessIsPaid
<1>11. PoolExclusive'
  BY <1>1, <1>2, <1>6 DEF Inv, PoolExclusive
<1>12. ReadingHolds'
  <2>1. \A k \in Jobs : job[k].stage \in Working => job[k].generation \in Nat
    BY DEF Inv, Shape, Calls, Idle, Working
  <2>2. pool.generation \in Nat /\ pool'.generation = pool.generation + 1
    BY <1>1 DEF Inv, Shape
  <2>3. \A k \in Jobs : job[k].stage \in Working /\ route[job[k].order] = "balance" =>
           job[k].generation < pool'.generation
    BY <2>1, <2>2 DEF Inv, ReadingHolds
  <2>4. QED
    BY <1>1, <2>1, <2>2, <2>3 DEF ReadingHolds
<1>13. SentOnce' /\ CreditIsPaid' /\ RefundedIsNotPaidOut' /\ RegisteredIsShown'
  BY <1>1, <1>5 DEF Inv, SentOnce, CreditIsPaid, RefundedIsNotPaidOut, RegisteredIsShown
<1>14. FundsCovered'
  BY <1>1, <1>6 DEF Inv, FundsCovered, Occupies
<1>15. DisputeHolds'
  <2>1. \A p \in Orders : route[p] = "balance" => ~row[p].conflict
    BY <1>1 DEF Releasable
  <2>2. QED
    BY <1>1, <1>2, <2>1 DEF Inv, DisputeHolds
<1>16. QED
  BY <1>4, <1>8, <1>9, <1>10, <1>11, <1>12, <1>13, <1>14, <1>15 DEF Inv

LEMMA StutterStep == ASSUME Inv, UNCHANGED vars PROVE Inv'
<1>1. UNCHANGED <<route, facts, row, preflight, pool, income, job, sent, channel, bank>>
  BY DEF vars
<1>2. \A o \in Orders : (Registered(o)' <=> Registered(o)) /\ (Arrived(o)' <=> Arrived(o))
                        /\ (Occupies(o)' <=> Occupies(o))
  BY <1>1 DEF Registered, Arrived, Occupies
<1>3. \A k \in Jobs : job[k].stage # "idle" => job[k].order \in Orders
  BY CallOrders DEF Inv
<1>4. Shape' /\ BlankIsUnsent' /\ SenderAlone' /\ SaverRegistered' /\ SuccessIsPaid'
  BY <1>1, <1>2, <1>3 DEF Inv, Shape, BlankIsUnsent, SenderAlone, SaverRegistered, SuccessIsPaid
<1>5. PoolExclusive' /\ ReadingHolds'
  BY <1>1, <1>2 DEF Inv, PoolExclusive, ReadingHolds
<1>6. SentOnce' /\ CreditIsPaid' /\ RefundedIsNotPaidOut' /\ FundsCovered' /\ DisputeHolds'
      /\ RegisteredIsShown'
  BY <1>1, <1>2 DEF Inv, SentOnce, CreditIsPaid, RefundedIsNotPaidOut, FundsCovered, DisputeHolds,
              RegisteredIsShown
<1>7. QED
  BY <1>4, <1>5, <1>6 DEF Inv

LEMMA NextInv == Inv /\ [Next]_vars => Inv'
<1> SUFFICES ASSUME Inv, [Next]_vars PROVE Inv'
  OBVIOUS
<1>1. CASE UNCHANGED vars
  BY <1>1, StutterStep
<1>2. CASE TopUp
  BY <1>2, TopUpStep
<1>3. ASSUME NEW o \in Orders,
             StartRefund(o) \/ FinishRefund(o) \/ Settle(o) \/ OpenManual(o) \/ CloseManual(o)
      PROVE  Inv'
  BY <1>3, FactsStep
<1>4. ASSUME NEW o \in Orders, ReleasePool(o) PROVE Inv'
  BY <1>4, ReleasePoolStep
<1>5. ASSUME NEW o \in Orders, Pay(o) \/ Refuse(o) \/ Return(o) PROVE Inv'
  BY <1>5, DecisionStep
<1>6. ASSUME NEW o \in Orders, NEW j \in Jobs, Begin(j, o) PROVE Inv'
  BY <1>6, BeginStep
<1>7. ASSUME NEW o \in Orders, NEW j \in Jobs, Query(j, o) \/ QueryUnclear(j, o) PROVE Inv'
  BY <1>7, QueryStep
<1>8. ASSUME NEW j \in Jobs, Prove(j) \/ Register(j) \/ RecordFailure(j) PROVE Inv'
  BY <1>8, ProveStep, RegisterStep, RecordFailureStep
<1>9. ASSUME NEW j \in Jobs, Submit(j) \/ Save(j) \/ Crash(j) PROVE Inv'
  BY <1>9, SubmitStep, SaveStep, CrashStep
<1>10. QED
  BY <1>1, <1>2, <1>3, <1>4, <1>5, <1>6, <1>7, <1>8, <1>9 DEF Next

THEOREM Safe == Spec => []Inv
BY InitInv, NextInv, PTL DEF Spec

-----------------------------------------------------------------------------
\* One request, one credit, for money the channel paid: whatever crashes, lost answers,
\* concurrent jobs, refunds and manual refunds there are, an order is paid out at most once
\* and never beside its refund, from an account that covers it, and disputes hold the money.
THEOREM PaidOutAtMostOnce == Spec => []PaidOutOnce
<1>1. Inv => PaidOutOnce
  BY DEF Inv, PaidOutOnce
<1>2. QED
  BY <1>1, Safe, PTL

\* What a step may do to a row: only saving an answer, releasing the pool and registering
\* change one.
LEMMA RowSteps ==
  ASSUME Inv, [Next]_vars
  PROVE  \/ UNCHANGED <<row, income>>
         \/ \E j \in Jobs : Save(j) \/ (Register(j) /\ Absent(job[j].order) /\ StillReady(job[j].order)
               /\ row' = [row EXCEPT ![job[j].order] = [NoRow EXCEPT !.status = "submitting"]] /\ UNCHANGED income)
         \/ \E o \in Orders : ReleasePool(o)
<1>1. CASE UNCHANGED vars
  BY <1>1 DEF vars
<1>2. CASE Next /\ ~\E j \in Jobs : Save(j) \/ Register(j)
  BY <1>2 DEF Next, TopUp, StartRefund, FinishRefund, Settle, OpenManual, CloseManual, Pay, Refuse,
              Return, Begin, Query, QueryUnclear, Prove, RecordFailure, Submit, Crash
<1>3. ASSUME NEW j \in Jobs, Register(j)
      PROVE  \/ UNCHANGED <<row, income>>
             \/ Absent(job[j].order) /\ StillReady(job[j].order)
                  /\ row' = [row EXCEPT ![job[j].order] = [NoRow EXCEPT !.status = "submitting"]] /\ UNCHANGED income
  BY <1>3 DEF Register
<1>4. QED
  BY <1>1, <1>2, <1>3

\* A verified result, success or failure, never changes again, in whatever order answers come.
THEOREM VerifiedResultIsFinal == Spec => [][ResultIsFinal]_vars
<1>1. ASSUME Inv, [Next]_vars PROVE ResultIsFinal
  <2> SUFFICES ASSUME NEW o \in Orders, row[o].status \in Terminal PROVE row'[o].status = row[o].status
    BY DEF ResultIsFinal
  <2>1. ASSUME NEW j \in Jobs, Save(j) PROVE row'[o].status = row[o].status
    BY <1>1, <2>1, SavingAnAnswer DEF Saved, Inv, Shape
  <2>2. ASSUME NEW j \in Jobs, Absent(job[j].order),
               row' = [row EXCEPT ![job[j].order] = [NoRow EXCEPT !.status = "submitting"]]
        PROVE  row'[o].status = row[o].status
    <3>1. job[j].order # o
      BY <2>2 DEF Absent, Registered, Terminal
    <3>2. QED
      BY <1>1, <2>2, <3>1 DEF Inv, Shape
  <2>3. ASSUME NEW p \in Orders, ReleasePool(p) PROVE row'[o].status = row[o].status
    BY <1>1, <2>3 DEF ReleasePool, Inv, Shape, DistributionRows
  <2>4. QED
    BY <1>1, <2>1, <2>2, <2>3, RowSteps
<1>2. QED
  BY <1>1, Safe, PTL DEF Spec

\* A dispute is never cleared, and a disputed payout is not credited.
THEOREM DisputeStands == Spec => [][DisputeIsSticky]_vars
<1>1. ASSUME Inv, [Next]_vars PROVE DisputeIsSticky
  <2> SUFFICES ASSUME NEW o \in Orders, row[o].conflict
               PROVE  row'[o].conflict /\ income'.credits[o] = income.credits[o]
    BY DEF DisputeIsSticky
  <2>1. ASSUME NEW j \in Jobs, Save(j)
        PROVE  row'[o].conflict /\ income'.credits[o] = income.credits[o]
    BY <1>1, <2>1, SavingAnAnswer DEF Saved, Inv, Shape
  <2>2. ASSUME NEW j \in Jobs, Absent(job[j].order), UNCHANGED income,
               row' = [row EXCEPT ![job[j].order] = [NoRow EXCEPT !.status = "submitting"]]
        PROVE  row'[o].conflict /\ income'.credits[o] = income.credits[o]
    <3>1. job[j].order # o
      <4>1. job[j].order = o => row[o] = NoRow
        BY <1>1, <2>2 DEF Absent, Inv, BlankIsUnsent
      <4>2. QED
        BY <4>1 DEF NoRow
    <3>2. QED
      BY <1>1, <2>2, <3>1 DEF Inv, Shape
  <2>3. ASSUME NEW p \in Orders, ReleasePool(p)
        PROVE  row'[o].conflict /\ income'.credits[o] = income.credits[o]
    BY <1>1, <2>3 DEF ReleasePool, Inv, Shape, DistributionRows
  <2>4. QED
    BY <1>1, <2>1, <2>2, <2>3, RowSteps
<1>2. QED
  BY <1>1, Safe, PTL DEF Spec

\* No payout is registered while a manual refund is open or completed, also when the case was
\* opened while the worker collected its proofs.
THEOREM ManualRefundShuts == Spec => [][ManualRefundShutsPayout]_vars
<1>1. ASSUME Inv, [Next]_vars PROVE ManualRefundShutsPayout
  <2> SUFFICES ASSUME NEW o \in Orders, ~Registered(o), row'[o].status # "none"
               PROVE  facts[o].manual = "none"
    BY DEF ManualRefundShutsPayout
  <2>1. ASSUME NEW j \in Jobs, Save(j) PROVE FALSE
    <3>1. PICK p \in Orders : \E new : p = job[j].order /\ row' = [row EXCEPT ![p] = new]
      BY <1>1, <2>1, SavingAnAnswer DEF Saved
    <3>2. p # o
      BY <1>1, <2>1, <3>1 DEF Inv, SaverRegistered, Save
    <3>3. QED
      BY <1>1, <3>1, <3>2 DEF Inv, Shape, Registered
  <2>2. ASSUME NEW j \in Jobs, StillReady(job[j].order),
               row' = [row EXCEPT ![job[j].order] = [NoRow EXCEPT !.status = "submitting"]]
        PROVE  facts[o].manual = "none"
    <3>1. job[j].order = o
      BY <1>1, <2>2 DEF Inv, Shape, Registered
    <3>2. QED
      BY <2>2, <3>1 DEF StillReady, Ready
  <2>3. ASSUME NEW p \in Orders, ReleasePool(p) PROVE FALSE
    BY <1>1, <2>3 DEF ReleasePool, Inv, Shape, DistributionRows, Registered
  <2>4. QED
    BY <1>1, <2>1, <2>2, <2>3, RowSteps DEF Registered
<1>2. QED
  BY <1>1, Safe, PTL DEF Spec

\* What was decided stands: all of the above.
THEOREM DecidedResultsStand == Spec => ResultsStand
<1>1. ResultIsFinal /\ DisputeIsSticky /\ ManualRefundShutsPayout <=> DecisionsStand
  BY DEF DecisionsStand
<1>2. QED
  BY <1>1, VerifiedResultIsFinal, DisputeStands, ManualRefundShuts, PTL DEF ResultsStand
=============================================================================
