--------------------------- MODULE WithdrawalProofs ---------------------------
(***************************************************************************)
(* For any keys, processes, cards and incomes: one withdrawal is under way *)
(* and is sent once, to the provider's own card; every unit credited is    *)
(* available, reserved or paid out; a result is the bank's; and, when      *)
(* income is credited as it reaches the channel, what is available is at   *)
(* the channel and a failure is released only with its money back.         *)
(***************************************************************************)
EXTENDS Withdrawal, FiniteSetTheorems, TLAPS

Unfinished == {"submitting", "processing", "unknown"}
Statuses == {"processing", "unknown"} \cup Terminal
WithdrawalRows == [status : {"none"} \cup Unfinished \cup Terminal, amount : Nat, card : Cards \cup {""}]
Wallets == [available : Nat, reserved : Nat, paid : Nat, hold : BOOLEAN]
Banks == [balance : Nat, state : [Keys -> {"none", "P", "S", "F", "R"}],
          card : [Keys -> Cards \cup {""}], sent : [Keys -> Nat], back : SUBSET Keys]
Calls ==
  {Idle} \cup [pc : {"account"}, key : Keys, amount : Amounts]
    \cup [pc : {"balance"}, key : Keys, amount : Amounts, card : Cards]
    \cup [pc : {"reserve"}, key : Keys, amount : Amounts, card : Cards, balance : Nat]
    \cup [pc : {"submit"}, key : Keys, card : Cards]
    \cup [pc : {"proof", "save"}, key : Keys, status : Statuses, queried : BOOLEAN, balance : Nat]

\* The shape of the state.
Shape ==
  /\ wallet \in Wallets
  /\ rows \in [Keys -> WithdrawalRows]
  /\ account \in [card : Cards, usable : BOOLEAN]
  /\ income \in [Incomes -> {"none", "channel", "credited"}]
  /\ bank \in Banks
  /\ proc \in [Procs -> Calls]

Registered(k) == rows[k].status # "none"

\* A key without a row is unknown to the bank; a row has an amount.
RowsAndBank ==
  \A k \in Keys :
    /\ ~Registered(k) => bank.state[k] = "none" /\ rows[k].amount = 0
    /\ Registered(k) => rows[k].amount \in Amounts
    /\ k \in bank.back => bank.state[k] = "F"
    /\ bank.sent[k] = IF bank.state[k] = "none" THEN 0 ELSE 1
    /\ bank.state[k] # "none" => bank.card[k] = rows[k].card

\* A process about to send is the only one for its key, and nothing was sent before.
SenderAlone ==
  \A p \in Procs : proc[p].pc = "submit" =>
    /\ Registered(proc[p].key) /\ bank.state[proc[p].key] = "none" /\ proc[p].card = rows[proc[p].key].card
    /\ \A q \in Procs \ {p} : proc[q].pc = "submit" => proc[q].key # proc[p].key

\* What a result says the bank has said.
Said(k, status) ==
  /\ status = "succeeded" => bank.state[k] \in {"S", "R"}
  /\ status = "failed" => bank.state[k] = "F"
  /\ status = "attention" => bank.state[k] = "R"

RowsSaid == \A k \in Keys : Said(k, rows[k].status)

CallsSaid ==
  \A p \in Procs : proc[p].pc \in {"proof", "save"} =>
    /\ Registered(proc[p].key)
    /\ Said(proc[p].key, proc[p].status)
    /\ proc[p].pc = "proof" => proc[p].status = "failed"

\* The amount of a withdrawal that still is, or is again, at the channel.
AtChannel(k) == bank.state[k] = "none" \/ k \in bank.back

\* When income is credited as it arrives, the channel holds what is available and the amount of
\* the open withdrawal while it has not left or is back; and what a process read of the balance
\* of a failed withdrawal is still there.
MoneyAtChannel ==
  /\ \A i \in Incomes : income[i] # "channel"
  /\ (\A k \in Keys : ~Open(k)) => bank.balance = wallet.available
  /\ \A k \in Keys : Open(k) =>
       bank.balance = wallet.available + IF AtChannel(k) THEN rows[k].amount ELSE 0
  /\ \A p \in Procs : proc[p].pc = "save" /\ proc[p].status = "failed" /\ Open(proc[p].key) =>
       proc[p].balance <= bank.balance
  /\ ReleasedIsBack

Inv ==
  /\ Shape /\ RowsAndBank /\ SenderAlone /\ RowsSaid /\ CallsSaid
  /\ OneUnderWay /\ LedgerBalances
  /\ CreditLag = FALSE => MoneyAtChannel

-----------------------------------------------------------------------------
LEMMA CallKeys ==
  ASSUME Shape, NEW p \in Procs PROVE proc[p].pc # "idle" => proc[p].key \in Keys
BY DEF Shape, Calls, Idle

LEMMA Balanced ==
  ASSUME bank \in Banks, NEW n \in Nat
  PROVE  LET b == [bank EXCEPT !.balance = n]
         IN /\ b \in Banks /\ b.balance = n /\ b.state = bank.state /\ b.card = bank.card
            /\ b.sent = bank.sent /\ b.back = bank.back
BY DEF Banks

LEMMA Crediting ==
  ASSUME Shape, LedgerBalances, NEW i \in Incomes, income[i] # "credited",
         income' = [income EXCEPT ![i] = "credited"], wallet' = Credit(wallet, 1)
  PROVE  LedgerBalances' /\ wallet' \in Wallets /\ wallet'.available = wallet.available + 1
         /\ wallet'.reserved = wallet.reserved
<1> DEFINE C == {j \in Incomes : income[j] = "credited"}
<1>1. {j \in Incomes : income'[j] = "credited"} = C \cup {i}
  BY DEF Shape
<1>2. IsFiniteSet(C) /\ i \notin C
  BY WithdrawalAssumption, FS_Subset
<1>3. Cardinality(C \cup {i}) = Cardinality(C) + 1
  BY <1>2, FS_AddElement
<1>4. wallet' \in Wallets /\ wallet'.available = wallet.available + 1
      /\ wallet'.reserved = wallet.reserved /\ wallet'.paid = wallet.paid
      /\ wallet \in Wallets
  BY DEF Credit, Shape, Wallets
<1>5. Cardinality(C) \in Nat
  BY <1>2, FS_CardinalityType
<1>6. wallet.available + wallet.reserved + wallet.paid = Cardinality(C)
  BY DEF LedgerBalances
<1>7. wallet'.available + wallet'.reserved + wallet'.paid = Cardinality(C) + 1
  BY <1>4, <1>5, <1>6 DEF Wallets
<1>8. QED
  BY <1>1, <1>3, <1>4, <1>7 DEF LedgerBalances

LEMMA InitInv == Init => Inv
<1> SUFFICES ASSUME Init PROVE Inv
  OBVIOUS
<1>1. Shape
  <2>1. wallet \in Wallets
    BY DEF Init, Wallets
  <2>2. rows \in [Keys -> WithdrawalRows]
    BY DEF Init, WithdrawalRows, NoRow
  <2>3. account \in [card : Cards, usable : BOOLEAN]
    <3>1. PICK c \in Cards : account = [card |-> c, usable |-> TRUE]
      BY DEF Init
    <3>2. QED
      BY <3>1
  <2>4. bank \in Banks
    BY DEF Init, Banks
  <2>5. proc \in [Procs -> Calls] /\ income \in [Incomes -> {"none", "channel", "credited"}]
    BY DEF Init, Calls
  <2>6. QED
    BY <2>1, <2>2, <2>3, <2>4, <2>5 DEF Shape
<1>2. /\ \A p \in Procs : proc[p].pc = "idle"
      /\ \A k \in Keys : rows[k].status = "none" /\ rows[k].amount = 0
  BY DEF Init, Idle, NoRow
<1>3. RowsAndBank /\ SenderAlone /\ CallsSaid
  BY <1>2 DEF Init, RowsAndBank, SenderAlone, CallsSaid, Registered
<1>4. RowsSaid /\ OneUnderWay
  BY <1>2 DEF Init, RowsSaid, Said, OneUnderWay, Open
<1>5. LedgerBalances
  <2>1. {i \in Incomes : income[i] = "credited"} = {}
    BY DEF Init
  <2>2. wallet.available = 0 /\ wallet.reserved = 0 /\ wallet.paid = 0
    BY DEF Init
  <2>3. QED
    BY <2>1, <2>2, FS_EmptySet DEF LedgerBalances
<1>6. MoneyAtChannel
  BY <1>2 DEF Init, MoneyAtChannel, Open, ReleasedIsBack
<1>7. QED
  BY <1>1, <1>3, <1>4, <1>5, <1>6 DEF Inv

-----------------------------------------------------------------------------
(* Income, holds and the account.                                          *)

LEMMA IncomeStep ==
  ASSUME Inv, NEW i \in Incomes, ChannelIncome(i) \/ CreditDistribution(i) PROVE Inv'
<1>1. UNCHANGED <<rows, account, proc>>
  BY DEF ChannelIncome, CreditDistribution
<1>2. /\ bank' \in Banks /\ bank'.state = bank.state /\ bank'.card = bank.card
      /\ bank'.sent = bank.sent /\ bank'.back = bank.back
      /\ bank'.balance = bank.balance \/ bank'.balance = bank.balance + 1
  <2>1. bank \in Banks
    BY DEF Inv, Shape
  <2>2. bank' = bank \/ bank' = [bank EXCEPT !.balance = @ + 1]
    BY DEF ChannelIncome, CreditDistribution
  <2>3. CASE bank' = bank
    BY <2>1, <2>3
  <2>4. CASE bank' = [bank EXCEPT !.balance = @ + 1]
    <3>1. bank.balance \in Nat
      BY <2>1 DEF Banks
    <3>2. QED
      BY <2>1, <2>4, <3>1, Balanced
  <2>5. QED
    BY <2>2, <2>3, <2>4
<1>3. /\ LedgerBalances' /\ wallet' \in Wallets /\ wallet'.reserved = wallet.reserved
      /\ income' \in [Incomes -> {"none", "channel", "credited"}]
  <2>1. CASE wallet' = wallet /\ income[i] = "none" /\ income' = [income EXCEPT ![i] = "channel"]
    <3>1. {j \in Incomes : income'[j] = "credited"} = {j \in Incomes : income[j] = "credited"}
      BY <2>1 DEF Inv, Shape
    <3>2. QED
      BY <2>1, <3>1 DEF Inv, LedgerBalances, Shape
  <2>2. CASE income[i] # "credited" /\ income' = [income EXCEPT ![i] = "credited"] /\ wallet' = Credit(wallet, 1)
    BY <2>2, Crediting DEF Inv, Shape
  <2>3. QED
    BY <2>1, <2>2 DEF ChannelIncome, CreditDistribution
<1>4. CreditLag = FALSE /\ MoneyAtChannel =>
        /\ bank'.balance = bank.balance + 1 /\ wallet'.available = wallet.available + 1
        /\ \A j \in Incomes : income'[j] # "channel"
  <2>1. CreditLag = FALSE /\ MoneyAtChannel =>
          /\ bank'.balance = bank.balance + 1
          /\ income' = [income EXCEPT ![i] = "credited"] /\ wallet' = Credit(wallet, 1)
          /\ income[i] # "credited"
    BY DEF ChannelIncome, CreditDistribution, MoneyAtChannel, Inv, Shape, Banks
  <2>2. QED
    BY <2>1, Crediting DEF Inv, Shape, MoneyAtChannel
<1>5. Shape'
  BY <1>1, <1>2, <1>3 DEF Inv, Shape
<1>6. \A k, s : (Open(k)' <=> Open(k)) /\ (AtChannel(k)' <=> AtChannel(k)) /\ (Said(k, s)' <=> Said(k, s))
                /\ (Registered(k)' <=> Registered(k))
  BY <1>1, <1>2 DEF Open, AtChannel, Said, Registered
<1>7. RowsAndBank' /\ SenderAlone' /\ RowsSaid' /\ CallsSaid' /\ OneUnderWay'
  BY <1>1, <1>2, <1>3, <1>6 DEF Inv, RowsAndBank, SenderAlone, RowsSaid, CallsSaid, OneUnderWay
<1>8. CreditLag = FALSE => MoneyAtChannel'
  <2> SUFFICES ASSUME CreditLag = FALSE, MoneyAtChannel PROVE MoneyAtChannel'
    BY DEF Inv
  <2>1. /\ bank'.balance = bank.balance + 1 /\ wallet'.available = wallet.available + 1
        /\ \A j \in Incomes : income'[j] # "channel"
    BY <1>4
  <2>2. /\ bank.balance \in Nat /\ wallet.available \in Nat /\ \A k \in Keys : rows[k].amount \in Nat
        /\ \A p \in Procs : proc[p].pc = "save" => proc[p].balance \in Nat /\ proc[p].key \in Keys
    <3>1. bank.balance \in Nat /\ wallet.available \in Nat
      BY DEF Inv, Shape, Wallets, Banks
    <3>2. \A k \in Keys : rows[k].amount \in Nat
      BY DEF Inv, Shape, WithdrawalRows
    <3>3. \A p \in Procs : proc[p].pc = "save" => proc[p].balance \in Nat /\ proc[p].key \in Keys
      BY DEF Inv, Shape, Calls, Idle
    <3>4. QED
      BY <3>1, <3>2, <3>3
  <2>3. (\A k \in Keys : ~Open(k)) => bank'.balance = wallet'.available
    BY <2>1 DEF MoneyAtChannel
  <2>4. \A k \in Keys : Open(k) =>
          bank'.balance = wallet'.available + IF AtChannel(k) THEN rows[k].amount ELSE 0
    BY <2>1, <2>2 DEF MoneyAtChannel
  <2>5. \A p \in Procs : proc[p].pc = "save" /\ proc[p].status = "failed" /\ Open(proc[p].key) =>
          proc[p].balance <= bank'.balance
    BY <2>1, <2>2 DEF MoneyAtChannel
  <2>6. ReleasedIsBack'
    BY <1>1, <1>2 DEF MoneyAtChannel, ReleasedIsBack
  <2>7. QED
    BY <1>1, <1>6, <2>1, <2>2, <2>3, <2>4, <2>5, <2>6 DEF MoneyAtChannel
<1>9. QED
  BY <1>3, <1>5, <1>7, <1>8 DEF Inv

\* A hold and a change of the account touch neither money nor withdrawals.
LEMMA AccountStep ==
  ASSUME Inv, HoldDistributionWallet \/ \E c \in Cards, u \in BOOLEAN : AccountChanges(c, u) PROVE Inv'
<1>1. UNCHANGED <<rows, income, bank, proc>>
  BY DEF HoldDistributionWallet, AccountChanges
<1>2. /\ wallet' \in Wallets /\ wallet'.available = wallet.available
      /\ wallet'.reserved = wallet.reserved /\ wallet'.paid = wallet.paid
      /\ account' \in [card : Cards, usable : BOOLEAN]
  <2>1. wallet \in Wallets /\ account \in [card : Cards, usable : BOOLEAN]
    BY DEF Inv, Shape
  <2>2. CASE HoldDistributionWallet
    <3>1. wallet' = [wallet EXCEPT !.hold = TRUE] /\ account' = account
      BY <2>2 DEF HoldDistributionWallet
    <3>2. QED
      BY <2>1, <3>1 DEF Wallets
  <2>3. CASE \E c \in Cards, u \in BOOLEAN : AccountChanges(c, u)
    BY <2>1, <2>3 DEF AccountChanges
  <2>4. QED
    BY <2>2, <2>3
<1>3. Shape'
  BY <1>1, <1>2 DEF Inv, Shape
<1>4. \A k, s : (Open(k)' <=> Open(k)) /\ (AtChannel(k)' <=> AtChannel(k)) /\ (Said(k, s)' <=> Said(k, s))
                /\ (Registered(k)' <=> Registered(k))
  BY <1>1 DEF Open, AtChannel, Said, Registered
<1>5. RowsAndBank' /\ SenderAlone' /\ RowsSaid' /\ CallsSaid' /\ OneUnderWay' /\ LedgerBalances'
  BY <1>1, <1>2, <1>4 DEF Inv, RowsAndBank, SenderAlone, RowsSaid, CallsSaid, OneUnderWay, LedgerBalances
<1>6. MoneyAtChannel => MoneyAtChannel'
  <2>1. ReleasedIsBack' <=> ReleasedIsBack
    BY <1>1 DEF ReleasedIsBack
  <2>2. QED
    BY <1>1, <1>2, <1>4, <2>1, CallKeys DEF Inv, MoneyAtChannel
<1>7. QED
  BY <1>3, <1>5, <1>6 DEF Inv

-----------------------------------------------------------------------------
(* A process' step that changes nothing but its own call.                  *)

LEMMA CallStep ==
  ASSUME Inv, NEW p \in Procs, NEW c \in Calls, proc' = [proc EXCEPT ![p] = c],
         UNCHANGED <<wallet, rows, account, income, bank>>,
         c.pc # "submit",
         c.pc \in {"proof", "save"} => /\ Registered(c.key) /\ Said(c.key, c.status)
                                       /\ c.pc = "proof" => c.status = "failed",
         c.pc = "save" /\ c.status = "failed" => c.balance <= bank.balance
  PROVE  Inv'
<1>1. \A q \in Procs : proc'[q] = IF q = p THEN c ELSE proc[q]
  BY DEF Inv, Shape
<1>2. Shape'
  BY DEF Inv, Shape
<1>3. \A k, s : (Open(k)' <=> Open(k)) /\ (AtChannel(k)' <=> AtChannel(k)) /\ (Said(k, s)' <=> Said(k, s))
                /\ (Registered(k)' <=> Registered(k))
  BY DEF Open, AtChannel, Said, Registered
<1>4. RowsAndBank' /\ RowsSaid' /\ OneUnderWay' /\ LedgerBalances'
  BY <1>3 DEF Inv, RowsAndBank, RowsSaid, OneUnderWay, LedgerBalances
<1>5. SenderAlone'
  <2>1. \A q \in Procs : proc'[q].pc = "submit" => q # p /\ proc'[q] = proc[q]
    BY <1>1
  <2>2. UNCHANGED <<rows, bank>>
    OBVIOUS
  <2>3. QED
    BY <1>3, <2>1, <2>2 DEF Inv, SenderAlone
<1>6. CallsSaid'
  BY <1>1, <1>3 DEF Inv, CallsSaid
<1>7. MoneyAtChannel => MoneyAtChannel'
  <2>1. ReleasedIsBack' <=> ReleasedIsBack
    BY DEF ReleasedIsBack
  <2>2. QED
    BY <1>1, <1>3, <2>1 DEF MoneyAtChannel
<1>8. QED
  BY <1>2, <1>4, <1>5, <1>6, <1>7 DEF Inv

LEMMA IdleStep ==
  ASSUME Inv, NEW p \in Procs, proc' = [proc EXCEPT ![p] = Idle],
         UNCHANGED <<wallet, rows, account, income, bank>>
  PROVE  Inv'
<1>1. Idle \in Calls /\ Idle.pc = "idle"
  BY DEF Calls, Idle
<1>2. QED
  BY <1>1, CallStep

LEMMA StartStep ==
  ASSUME Inv, NEW p \in Procs, NEW k \in Keys, NEW a \in Amounts, Start(p, k, a) PROVE Inv'
<1> DEFINE c == [pc |-> "account", key |-> k, amount |-> a]
<1>1. proc' = [proc EXCEPT ![p] = c] /\ UNCHANGED <<wallet, rows, account, income, bank>>
  BY DEF Start
<1>2. c \in Calls /\ c.pc = "account"
  BY DEF Calls
<1> HIDE DEF c
<1>3. QED
  BY <1>1, <1>2, CallStep

LEMMA CheckAccountStep ==
  ASSUME Inv, NEW p \in Procs, CheckAccount(p) PROVE Inv'
<1> DEFINE c == [pc |-> "balance", key |-> proc[p].key, amount |-> proc[p].amount, card |-> account.card]
<1>1. /\ proc[p].pc = "account" /\ UNCHANGED <<wallet, rows, account, income, bank>>
      /\ proc' = [proc EXCEPT ![p] = c] \/ proc' = [proc EXCEPT ![p] = Idle]
  BY DEF CheckAccount
<1>2. proc[p].key \in Keys /\ proc[p].amount \in Amounts /\ account.card \in Cards
  BY <1>1 DEF Inv, Shape, Calls, Idle
<1>3. c \in Calls /\ c.pc = "balance"
  BY <1>2 DEF Calls
<1> HIDE DEF c
<1>4. QED
  BY <1>1, <1>3, CallStep, IdleStep

LEMMA CheckBalanceStep ==
  ASSUME Inv, NEW p \in Procs, CheckBalance(p) PROVE Inv'
<1> DEFINE c == [pc |-> "reserve", key |-> proc[p].key, amount |-> proc[p].amount,
                 card |-> proc[p].card, balance |-> bank.balance]
<1>1. /\ proc[p].pc = "balance" /\ UNCHANGED <<wallet, rows, account, income, bank>>
      /\ proc' = [proc EXCEPT ![p] = c]
  BY DEF CheckBalance
<1>2. proc[p].key \in Keys /\ proc[p].amount \in Amounts /\ proc[p].card \in Cards
  BY <1>1 DEF Inv, Shape, Calls, Idle
<1>3. bank.balance \in Nat
  BY DEF Inv, Shape, Banks
<1>4. c \in Calls /\ c.pc = "reserve"
  BY <1>2, <1>3 DEF Calls
<1> HIDE DEF c
<1>5. QED
  BY <1>1, <1>4, CallStep

LEMMA AnswerLostStep ==
  ASSUME Inv, NEW p \in Procs, AnswerLost(p) PROVE Inv'
<1> DEFINE c == [pc |-> "save", key |-> proc[p].key, status |-> "unknown", queried |-> FALSE, balance |-> 0]
<1>1. /\ proc[p].pc \in {"submit", "save"} /\ UNCHANGED <<wallet, rows, account, income, bank>>
      /\ proc' = [proc EXCEPT ![p] = c]
  BY DEF AnswerLost
<1>2. proc[p].key \in Keys /\ Registered(proc[p].key)
  BY <1>1, CallKeys DEF Inv, SenderAlone, CallsSaid
<1>3. c \in Calls /\ c.pc = "save" /\ c.key = proc[p].key /\ c.status = "unknown"
  BY <1>2 DEF Calls, Statuses
<1> HIDE DEF c
<1>4. QED
  BY <1>1, <1>2, <1>3, CallStep DEF Said

LEMMA QueryStep ==
  ASSUME Inv, NEW p \in Procs, NEW k \in Keys, QueryWithdrawal(p, k) \/ QueryUncertain(p, k) PROVE Inv'
<1>1. /\ Registered(k) /\ UNCHANGED <<wallet, rows, account, income, bank>>
      /\ \E s \in {Seen(k), "unknown"}, pc \in {"proof", "save"} :
            /\ (pc = "proof" <=> s = "failed")
            /\ proc' = [proc EXCEPT ![p] = [pc |-> pc, key |-> k, status |-> s, queried |-> TRUE, balance |-> 0]]
  <2>1. CASE QueryWithdrawal(p, k)
    BY <2>1 DEF QueryWithdrawal, Registered
  <2>2. CASE QueryUncertain(p, k)
    BY <2>2 DEF QueryUncertain, Registered
  <2>3. QED
    BY <2>1, <2>2
<1>2. PICK s, pc : /\ s \in {Seen(k), "unknown"} /\ pc \in {"proof", "save"} /\ (pc = "proof" <=> s = "failed")
                   /\ proc' = [proc EXCEPT ![p] = [pc |-> pc, key |-> k, status |-> s, queried |-> TRUE, balance |-> 0]]
  BY <1>1
<1>3. s \in Statuses /\ Said(k, s)
  <2>1. bank.state[k] \in {"none", "P", "S", "F", "R"}
    BY DEF Inv, Shape, Banks
  <2>2. Seen(k) \in Statuses /\ Said(k, Seen(k))
    BY <2>1 DEF Seen, Said, Statuses, Terminal
  <2>3. "unknown" \in Statuses /\ Said(k, "unknown")
    BY DEF Said, Statuses
  <2>4. QED
    BY <1>2, <2>2, <2>3
<1> DEFINE c == [pc |-> pc, key |-> k, status |-> s, queried |-> TRUE, balance |-> 0]
<1>4. c \in Calls /\ c.pc = pc /\ c.key = k /\ c.status = s
  BY <1>2, <1>3 DEF Calls
<1>5. proc' = [proc EXCEPT ![p] = c]
  BY <1>2
<1> HIDE DEF c
<1>6. QED
  BY <1>1, <1>2, <1>3, <1>4, <1>5, CallStep

LEMMA ProveFailureStep ==
  ASSUME Inv, NEW p \in Procs, ProveFailure(p) PROVE Inv'
<1> DEFINE c == [proc[p] EXCEPT !.pc = "save", !.balance = bank.balance]
<1>1. /\ proc[p].pc = "proof" /\ UNCHANGED <<wallet, rows, account, income, bank>>
      /\ proc' = [proc EXCEPT ![p] = c]
  BY DEF ProveFailure, Inv, Shape
<1>2. proc[p] \in [pc : {"proof", "save"}, key : Keys, status : Statuses, queried : BOOLEAN, balance : Nat]
  BY <1>1 DEF Inv, Shape, Calls, Idle
<1>3. bank.balance \in Nat
  BY DEF Inv, Shape, Banks
<1>4. c \in [pc : {"proof", "save"}, key : Keys, status : Statuses, queried : BOOLEAN, balance : Nat]
      /\ c.pc = "save" /\ c.key = proc[p].key /\ c.status = proc[p].status /\ c.balance = bank.balance
  BY <1>2, <1>3
<1>5. Registered(c.key) /\ Said(c.key, c.status)
  BY <1>1, <1>4 DEF Inv, CallsSaid
<1>6. c \in Calls
  BY <1>4 DEF Calls
<1>7. c.balance <= bank.balance
  BY <1>3, <1>4
<1> HIDE DEF c
<1>8. QED
  BY <1>1, <1>4, <1>5, <1>6, <1>7, CallStep

LEMMA CrashStep == ASSUME Inv, NEW p \in Procs, Crash(p) PROVE Inv'
BY IdleStep DEF Crash

-----------------------------------------------------------------------------
(* Reserving and sending.                                                  *)

LEMMA Registering ==
  ASSUME Inv, NEW k \in Keys PROVE Registered(k) => Open(k) \/ rows[k].status \in Terminal
BY DEF Inv, Shape, WithdrawalRows, Unfinished, Registered, Open

LEMMA NoneOpen ==
  ASSUME Inv, wallet.reserved = 0 PROVE \A k \in Keys : ~Open(k)
<1> SUFFICES ASSUME NEW k \in Keys, Open(k) PROVE FALSE
  OBVIOUS
<1>1. Registered(k) /\ wallet.reserved = rows[k].amount
  BY DEF Open, Registered, Inv, OneUnderWay
<1>2. rows[k].amount \in Amounts
  BY <1>1 DEF Inv, RowsAndBank
<1>3. QED
  BY <1>1, <1>2, WithdrawalAssumption DEF Amounts

\* The transaction that reserves: the row, the entry, and the only process that may send.
LEMMA ReserveStep ==
  ASSUME Inv, NEW p \in Procs, NEW k \in Keys, NEW a \in Amounts, NEW card \in Cards,
         rows[k].status = "none", wallet.reserved = 0, wallet.available >= a,
         rows' = [rows EXCEPT ![k] = [status |-> "submitting", amount |-> a, card |-> card]],
         wallet' = Reserve(wallet, a),
         proc' = [proc EXCEPT ![p] = [pc |-> "submit", key |-> k, card |-> card]],
         UNCHANGED <<account, income, bank>>
  PROVE  Inv'
<1> DEFINE new == [status |-> "submitting", amount |-> a, card |-> card]
           c == [pc |-> "submit", key |-> k, card |-> card]
<1>1. /\ new \in WithdrawalRows /\ new.status = "submitting" /\ new.amount = a /\ new.card = card
      /\ c \in Calls /\ c.pc = "submit" /\ c.key = k /\ c.card = card
      /\ a \in Nat /\ a >= 1
  <2>1. a \in Nat /\ a >= 1
    BY WithdrawalAssumption DEF Amounts
  <2>2. new \in WithdrawalRows /\ new.status = "submitting" /\ new.amount = a /\ new.card = card
    BY <2>1 DEF WithdrawalRows, Unfinished
  <2>3. c \in Calls /\ c.pc = "submit" /\ c.key = k /\ c.card = card
    BY DEF Calls
  <2>4. QED
    BY <2>1, <2>2, <2>3
<1>2. rows' = [rows EXCEPT ![k] = new] /\ proc' = [proc EXCEPT ![p] = c]
  OBVIOUS
<1> HIDE DEF new, c
<1>3. \A j \in Keys : rows'[j] = IF j = k THEN new ELSE rows[j]
  BY <1>2 DEF Inv, Shape
<1>4. \A q \in Procs : proc'[q] = IF q = p THEN c ELSE proc[q]
  BY <1>2 DEF Inv, Shape
<1>5. /\ wallet' \in Wallets /\ wallet'.available = wallet.available - a
      /\ wallet'.reserved = a /\ wallet'.paid = wallet.paid
  <2>1. wallet \in Wallets
    BY DEF Inv, Shape
  <2>2. wallet.available - a \in Nat /\ wallet.reserved + a = a
    BY <1>1, <2>1 DEF Wallets
  <2>3. QED
    BY <2>1, <2>2, <1>1 DEF Wallets, Reserve
<1>6. Shape'
  BY <1>1, <1>2, <1>5 DEF Inv, Shape
<1>7. \A j \in Keys : (Registered(j)' <=> Registered(j) \/ j = k) /\ (Open(j)' <=> j = k)
  BY <1>1, <1>3, NoneOpen DEF Registered, Open
<1>8. \A j, s : (AtChannel(j)' <=> AtChannel(j)) /\ (Said(j, s)' <=> Said(j, s))
  BY DEF AtChannel, Said
<1>9. ~Registered(k) /\ bank.state[k] = "none"
  BY DEF Registered, Inv, RowsAndBank
<1>10. RowsAndBank'
  BY <1>1, <1>3, <1>7, <1>9 DEF Inv, RowsAndBank
<1>11. SenderAlone'
  <2>1. \A q \in Procs : proc[q].pc = "submit" => proc[q].key # k /\ proc[q].key \in Keys
    BY <1>9, CallKeys DEF Inv, SenderAlone
  <2>2. UNCHANGED bank
    OBVIOUS
  <2>3. QED
    BY <1>1, <1>3, <1>4, <1>7, <1>9, <2>1, <2>2 DEF Inv, SenderAlone
<1>12. RowsSaid'
  BY <1>1, <1>3, <1>8 DEF Inv, RowsSaid, Said
<1>13. CallsSaid'
  BY <1>1, <1>4, <1>7, <1>8, CallKeys DEF Inv, CallsSaid
<1>14. OneUnderWay'
  BY <1>1, <1>3, <1>5, <1>7 DEF OneUnderWay
<1>15. LedgerBalances'
  <2>1. wallet'.available + wallet'.reserved + wallet'.paid = wallet.available + wallet.reserved + wallet.paid
    BY <1>1, <1>5 DEF Inv, Shape, Wallets
  <2>2. QED
    BY <2>1 DEF Inv, LedgerBalances
<1>16. MoneyAtChannel => MoneyAtChannel'
  <2> SUFFICES ASSUME MoneyAtChannel PROVE MoneyAtChannel'
    OBVIOUS
  <2>1. bank.balance = wallet.available /\ wallet.available \in Nat
    BY NoneOpen DEF MoneyAtChannel, Inv, Shape, Wallets
  <2>2. \A j \in Keys : Open(j)' =>
          bank'.balance = wallet'.available + IF AtChannel(j)' THEN rows'[j].amount ELSE 0
    BY <1>1, <1>3, <1>5, <1>7, <1>8, <1>9, <2>1 DEF AtChannel
  <2>3. \A q \in Procs : proc'[q].pc = "save" => proc'[q].key # k /\ proc'[q].key \in Keys
    BY <1>1, <1>4, <1>9, CallKeys DEF Inv, CallsSaid
  <2>4. ReleasedIsBack'
    BY <1>1, <1>3 DEF MoneyAtChannel, ReleasedIsBack
  <2>5. QED
    BY <1>7, <2>2, <2>3, <2>4 DEF MoneyAtChannel
<1>17. QED
  BY <1>6, <1>10, <1>11, <1>12, <1>13, <1>14, <1>15, <1>16 DEF Inv

LEMMA CreateStep ==
  ASSUME Inv, NEW p \in Procs, CreateWithdrawal(p) PROVE Inv'
<1>1. PICK k, a, card : k = proc[p].key /\ a = proc[p].amount /\ card = account.card
  OBVIOUS
<1>2. proc[p].pc = "reserve" /\ k \in Keys /\ a \in Amounts /\ card \in Cards
  BY <1>1 DEF CreateWithdrawal, Inv, Shape, Calls, Idle
<1>3. CASE proc' = [proc EXCEPT ![p] = Idle] /\ UNCHANGED <<rows, wallet>>
  BY <1>3, IdleStep DEF CreateWithdrawal
<1>4. CASE /\ rows[k].status = "none" /\ SameFingerprint(p) /\ Unencumbered(wallet) /\ wallet.available >= a
           /\ rows' = [rows EXCEPT ![k] = [status |-> "submitting", amount |-> a, card |-> card]]
           /\ wallet' = Reserve(wallet, a)
           /\ proc' = [proc EXCEPT ![p] = [pc |-> "submit", key |-> k, card |-> proc[p].card]]
  <2>1. proc[p].card = card /\ wallet.reserved = 0
    BY <1>1, <1>4 DEF SameFingerprint, Unencumbered
  <2>2. UNCHANGED <<account, income, bank>>
    BY DEF CreateWithdrawal
  <2>3. QED
    BY <1>2, <1>4, <2>1, <2>2, ReserveStep
<1>5. QED
  BY <1>1, <1>3, <1>4 DEF CreateWithdrawal

\* The request reaches the bank, which takes it or refuses it.
LEMMA SubmitStep ==
  ASSUME Inv, NEW p \in Procs, Submit(p) PROVE Inv'
<1>1. PICK k \in Keys : k = proc[p].key /\ proc[p].pc = "submit"
  BY CallKeys DEF Submit, Inv
<1>2. UNCHANGED <<wallet, rows, account, income>>
  BY DEF Submit
<1>3. /\ Registered(k) /\ bank.state[k] = "none" /\ proc[p].card = rows[k].card
      /\ bank.sent[k] = 0 /\ k \notin bank.back /\ rows[k].amount \in Amounts
  BY <1>1 DEF Inv, SenderAlone, RowsAndBank
<1>4. Open(k)
  BY <1>3, Registering DEF Inv, RowsSaid, Said, Terminal
<1>5. PICK c \in Calls : proc' = [proc EXCEPT ![p] = c] /\ c.pc = "save" /\ c.key = k /\ c.status = "processing"
  <2> DEFINE c == [pc |-> "save", key |-> k, status |-> "processing", queried |-> FALSE, balance |-> 0]
  <2>1. c \in Calls /\ c.pc = "save" /\ c.key = k /\ c.status = "processing"
    BY DEF Calls, Statuses
  <2>2. proc' = [proc EXCEPT ![p] = c]
    BY <1>1 DEF Submit
  <2>3. QED
    BY <2>1, <2>2
<1>6. /\ bank' \in Banks
      /\ \A j \in Keys : /\ j # k => bank'.state[j] = bank.state[j] /\ bank'.sent[j] = bank.sent[j]
                                     /\ bank'.card[j] = bank.card[j] /\ (j \in bank'.back <=> j \in bank.back)
                         /\ bank'.sent[k] = 1 /\ bank'.card[k] = rows[k].card
      /\ \/ bank'.state[k] = "P" /\ k \notin bank'.back /\ bank'.balance = bank.balance - rows[k].amount
         \/ bank'.state[k] = "F" /\ k \in bank'.back /\ bank'.balance = bank.balance
  <2>1. PICK taken \in BOOLEAN :
         bank' = [bank EXCEPT !.sent[k] = 1, !.card[k] = proc[p].card,
                              !.state[k] = IF taken /\ bank.balance >= rows[k].amount THEN "P" ELSE "F",
                              !.balance = IF taken /\ @ >= rows[k].amount THEN @ - rows[k].amount ELSE @,
                              !.back = IF taken /\ bank.balance >= rows[k].amount THEN @ ELSE @ \cup {k}]
    <3>1. PICK n : n = bank.sent[k] + 1
      OBVIOUS
    <3>2. n = 1
      BY <1>3, <3>1
    <3>3. QED
      BY <1>1, <3>1, <3>2 DEF Submit
  <2>2. bank \in Banks /\ rows[k].card \in Cards \cup {""} /\ rows[k].amount \in Nat
    BY DEF Inv, Shape, WithdrawalRows
  <2>3. bank.balance \in Nat
    BY <2>2 DEF Banks
  <2>4. \A x, y \in Nat : x >= y => x - y \in Nat
    OBVIOUS
  <2>5. bank.balance >= rows[k].amount => bank.balance - rows[k].amount \in Nat
    BY <2>2, <2>3, <2>4
  <2>6. PICK b, n, st : /\ n \in Nat /\ b \in SUBSET Keys
           /\ \/ st = "P" /\ b = bank.back /\ n = bank.balance - rows[k].amount
              \/ st = "F" /\ b = bank.back \cup {k} /\ n = bank.balance
           /\ bank' = [bank EXCEPT !.sent[k] = 1, !.card[k] = proc[p].card,
                                   !.state[k] = st, !.balance = n, !.back = b]
    <3>1. CASE taken /\ bank.balance >= rows[k].amount
      BY <2>1, <2>2, <2>5, <3>1 DEF Banks
    <3>2. CASE ~(taken /\ bank.balance >= rows[k].amount)
      <4>1. bank.back \cup {k} \in SUBSET Keys
        BY <2>2 DEF Banks
      <4>2. bank' = [bank EXCEPT !.sent[k] = 1, !.card[k] = proc[p].card,
                                 !.state[k] = "F", !.balance = bank.balance, !.back = bank.back \cup {k}]
        BY <2>1, <3>2
      <4>3. QED
        BY <2>3, <4>1, <4>2
    <3>3. QED
      BY <3>1, <3>2
  <2>7. /\ bank'.balance = n /\ bank'.back = b /\ bank'.state = [bank.state EXCEPT ![k] = st]
        /\ bank'.sent = [bank.sent EXCEPT ![k] = 1] /\ bank'.card = [bank.card EXCEPT ![k] = proc[p].card]
        /\ bank' = [balance |-> bank'.balance, state |-> bank'.state, card |-> bank'.card,
                    sent |-> bank'.sent, back |-> bank'.back]
    BY <2>2, <2>6 DEF Banks
  <2>8. /\ bank.state \in [Keys -> {"none", "P", "S", "F", "R"}] /\ bank.sent \in [Keys -> Nat]
        /\ bank.card \in [Keys -> Cards \cup {""}] /\ bank.back \in SUBSET Keys
    BY <2>2 DEF Banks
  <2>9. bank'.state \in [Keys -> {"none", "P", "S", "F", "R"}] /\ bank'.sent \in [Keys -> Nat]
        /\ bank'.card \in [Keys -> Cards \cup {""}]
    <3>1. st \in {"P", "F"} /\ proc[p].card \in Cards \cup {""}
      BY <1>3, <2>2, <2>6
    <3>2. bank'.state \in [Keys -> {"none", "P", "S", "F", "R"}]
      BY <2>7, <2>8, <3>1
    <3>3. bank'.sent \in [Keys -> Nat]
      <4>1. PICK f \in [Keys -> Nat] : f = bank.sent
        BY <2>8
      <4>2. [f EXCEPT ![k] = 1] \in [Keys -> Nat]
        OBVIOUS
      <4>3. QED
        BY <2>7, <4>1, <4>2
    <3>4. bank'.card \in [Keys -> Cards \cup {""}]
      BY <2>7, <2>8, <3>1
    <3>5. QED
      BY <3>2, <3>3, <3>4
  <2>10. bank' \in Banks
    BY <2>6, <2>7, <2>9 DEF Banks
  <2>11. QED
    <3>1. \A j \in Keys : /\ j # k => bank'.state[j] = bank.state[j] /\ bank'.sent[j] = bank.sent[j]
                                     /\ bank'.card[j] = bank.card[j]
      BY <2>7, <2>8
    <3>2. bank'.state[k] = st /\ bank'.sent[k] = 1 /\ bank'.card[k] = rows[k].card
      BY <1>3, <2>7, <2>8
    <3>3. \A j \in Keys : j # k => (j \in bank'.back <=> j \in bank.back)
      BY <2>6, <2>7
    <3>4. QED
      BY <1>3, <2>6, <2>7, <2>10, <3>1, <3>2, <3>3
<1>7. \A q \in Procs : proc'[q] = IF q = p THEN c ELSE proc[q]
  BY <1>5 DEF Inv, Shape
<1>8. Shape'
  BY <1>2, <1>5, <1>6 DEF Inv, Shape
<1>9. \A j : (Registered(j)' <=> Registered(j)) /\ (Open(j)' <=> Open(j))
  BY <1>2 DEF Registered, Open
<1>10. \A j \in Keys : \A s : Said(j, s) => Said(j, s)'
  BY <1>3, <1>6 DEF Said
<1>11. RowsAndBank'
  BY <1>2, <1>3, <1>6, <1>9 DEF Inv, RowsAndBank
<1>12. SenderAlone'
  <2>1. \A q \in Procs : q # p /\ proc[q].pc = "submit" => proc[q].key # k /\ proc[q].key \in Keys
    BY <1>1, CallKeys DEF Inv, SenderAlone
  <2>2. QED
    BY <1>2, <1>5, <1>6, <1>7, <1>9, <2>1 DEF Inv, SenderAlone
<1>13. RowsSaid' /\ OneUnderWay' /\ LedgerBalances'
  BY <1>2, <1>9, <1>10 DEF Inv, RowsSaid, OneUnderWay, LedgerBalances
<1>14. CallsSaid'
  <2>1. Said(k, "processing")'
    BY DEF Said
  <2>2. ASSUME NEW q \in Procs, proc'[q].pc \in {"proof", "save"}
        PROVE  /\ Registered(proc[q].key)' /\ Said(proc[q].key, proc[q].status)'
               /\ proc'[q].pc = "proof" => proc'[q].status = "failed"
    <3>1. CASE q = p
      BY <1>3, <1>5, <1>7, <1>9, <2>1, <3>1
    <3>2. CASE q # p
      <4>1. proc'[q] = proc[q] /\ proc[q].key \in Keys
        BY <1>7, <2>2, <3>2, CallKeys DEF Inv
      <4>2. /\ Registered(proc[q].key) /\ Said(proc[q].key, proc[q].status)
            /\ proc[q].pc = "proof" => proc[q].status = "failed"
        BY <2>2, <4>1 DEF Inv, CallsSaid
      <4>3. QED
        BY <1>9, <1>10, <4>1, <4>2
    <3>3. QED
      BY <3>1, <3>2
  <2>3. QED
    BY <2>2 DEF CallsSaid
<1>15. MoneyAtChannel => MoneyAtChannel'
  <2> SUFFICES ASSUME MoneyAtChannel PROVE MoneyAtChannel'
    OBVIOUS
  <2>1. \A j \in Keys : Open(j) => j = k
    BY <1>4 DEF Inv, OneUnderWay
  <2>2. bank.balance = wallet.available + rows[k].amount
    BY <1>3, <1>4 DEF MoneyAtChannel, AtChannel
  <2>3. wallet.available \in Nat /\ rows[k].amount \in Nat
    BY DEF Inv, Shape, Wallets, WithdrawalRows
  <2>4. \A j \in Keys : Open(j)' =>
          bank'.balance = wallet'.available + IF AtChannel(j)' THEN rows'[j].amount ELSE 0
    BY <1>2, <1>6, <1>9, <2>1, <2>2, <2>3 DEF AtChannel
  <2>5. \A q \in Procs : ~(proc'[q].pc = "save" /\ proc'[q].status = "failed" /\ Open(proc[q].key)')
    <3>1. \A q \in Procs : proc[q].pc = "save" /\ proc[q].status = "failed" => proc[q].key # k
      BY <1>3 DEF Inv, CallsSaid, Said
    <3>2. ASSUME NEW q \in Procs, proc'[q].pc = "save", proc'[q].status = "failed"
          PROVE  ~Open(proc[q].key)'
      <4>1. proc'[q] = proc[q]
        BY <1>5, <1>7, <3>2
      <4>2. proc[q].key \in Keys /\ proc[q].key # k
        BY <3>1, <3>2, <4>1, CallKeys DEF Inv
      <4>3. QED
        BY <1>9, <2>1, <4>1, <4>2
    <3>3. QED
      BY <3>2
  <2>6. \A j \in Keys : j \in bank.back => j \in bank'.back
    BY <1>3, <1>6
  <2>7. ReleasedIsBack'
    BY <1>2, <2>6 DEF MoneyAtChannel, ReleasedIsBack
  <2>8. \E j \in Keys : Open(j)'
    BY <1>4, <1>9
  <2>9. \A i \in Incomes : income'[i] # "channel"
    BY <1>2 DEF MoneyAtChannel
  <2>10. QED
    BY <2>4, <2>5, <2>7, <2>8, <2>9 DEF MoneyAtChannel
<1>16. QED
  BY <1>8, <1>11, <1>12, <1>13, <1>14, <1>15 DEF Inv

-----------------------------------------------------------------------------
(* The bank.                                                               *)

LEMMA BankStateStep ==
  ASSUME Inv, NEW k \in Keys, BankDecides(k) \/ BankReexchanges(k) PROVE Inv'
<1>1. UNCHANGED <<wallet, rows, account, income, proc>>
  BY DEF BankDecides, BankReexchanges
<1>2. PICK s \in {"S", "F", "R"} : /\ bank' = [bank EXCEPT !.state[k] = s]
                                   /\ bank.state[k] \in {"P", "S"} /\ (bank.state[k] = "S" => s = "R")
                                   /\ bank.state[k] = "P" => s # "R"
  BY DEF BankDecides, BankReexchanges
<1>3. /\ bank' \in Banks /\ bank'.balance = bank.balance /\ bank'.card = bank.card
      /\ bank'.sent = bank.sent /\ bank'.back = bank.back
      /\ \A j \in Keys : bank'.state[j] = IF j = k THEN s ELSE bank.state[j]
  <2>1. bank \in Banks
    BY DEF Inv, Shape
  <2>2. QED
    BY <1>2, <2>1 DEF Banks
<1>4. k \notin bank.back
  BY <1>2 DEF Inv, RowsAndBank
<1>5. Shape'
  BY <1>1, <1>3 DEF Inv, Shape
<1>6. \A j : (Registered(j)' <=> Registered(j)) /\ (Open(j)' <=> Open(j))
  BY <1>1 DEF Registered, Open
<1>7. \A j \in Keys : AtChannel(j)' <=> AtChannel(j)
  BY <1>2, <1>3, <1>4 DEF AtChannel
<1>8. \A j \in Keys : \A t : Said(j, t) => Said(j, t)'
  BY <1>2, <1>3 DEF Said
<1>9. RowsAndBank'
  BY <1>1, <1>2, <1>3, <1>4, <1>6 DEF Inv, RowsAndBank
<1>10. SenderAlone'
  BY <1>1, <1>2, <1>3, <1>6, CallKeys DEF Inv, SenderAlone
<1>11. RowsSaid' /\ OneUnderWay' /\ LedgerBalances'
  BY <1>1, <1>6, <1>8 DEF Inv, RowsSaid, OneUnderWay, LedgerBalances
<1>12. CallsSaid'
  BY <1>1, <1>6, <1>8, CallKeys DEF Inv, CallsSaid
<1>13. MoneyAtChannel => MoneyAtChannel'
  <2>1. ReleasedIsBack' <=> ReleasedIsBack
    BY <1>1, <1>3 DEF ReleasedIsBack
  <2>2. QED
    BY <1>1, <1>3, <1>6, <1>7, <2>1 DEF MoneyAtChannel
<1>14. QED
  BY <1>5, <1>9, <1>10, <1>11, <1>12, <1>13 DEF Inv

LEMMA BankReturnsStep ==
  ASSUME Inv, NEW k \in Keys, BankReturns(k) PROVE Inv'
<1>1. /\ UNCHANGED <<wallet, rows, account, income, proc>>
      /\ bank.state[k] = "F" /\ k \notin bank.back
      /\ bank' = [bank EXCEPT !.balance = @ + rows[k].amount, !.back = @ \cup {k}]
  BY DEF BankReturns
<1>2. /\ bank' \in Banks /\ bank'.balance = bank.balance + rows[k].amount /\ bank'.card = bank.card
      /\ bank'.sent = bank.sent /\ bank'.state = bank.state /\ bank'.back = bank.back \cup {k}
      /\ bank.balance \in Nat /\ rows[k].amount \in Nat
  <2>1. bank \in Banks /\ rows[k].amount \in Nat
    BY DEF Inv, Shape, WithdrawalRows
  <2>2. bank.balance \in Nat
    BY <2>1 DEF Banks
  <2>3. PICK n \in Nat : n = bank.balance + rows[k].amount
    BY <2>1, <2>2
  <2>4. bank' = [bank EXCEPT !.balance = n, !.back = @ \cup {k}]
    BY <1>1, <2>1, <2>3 DEF Banks
  <2>5. QED
    BY <2>1, <2>2, <2>3, <2>4 DEF Banks
<1>3. Shape'
  BY <1>1, <1>2 DEF Inv, Shape
<1>4. \A j, t : (Registered(j)' <=> Registered(j)) /\ (Open(j)' <=> Open(j)) /\ (Said(j, t)' <=> Said(j, t))
  BY <1>1, <1>2 DEF Registered, Open, Said
<1>5. RowsAndBank' /\ SenderAlone'
  <2>1. RowsAndBank'
    BY <1>1, <1>2, <1>4 DEF Inv, RowsAndBank
  <2>2. SenderAlone'
    BY <1>1, <1>2, <1>4 DEF Inv, SenderAlone
  <2>3. QED
    BY <2>1, <2>2
<1>6. RowsSaid' /\ OneUnderWay' /\ LedgerBalances' /\ CallsSaid'
  BY <1>1, <1>4 DEF Inv, RowsSaid, OneUnderWay, LedgerBalances, CallsSaid
<1>7. MoneyAtChannel => MoneyAtChannel'
  <2> SUFFICES ASSUME MoneyAtChannel PROVE MoneyAtChannel'
    OBVIOUS
  <2>1. Registered(k) /\ rows[k].status \notin Terminal
    BY <1>1 DEF Inv, RowsAndBank, RowsSaid, Said, MoneyAtChannel, ReleasedIsBack, Terminal
  <2>2. Open(k) /\ \A j \in Keys : Open(j) => j = k
    BY <2>1, Registering DEF Inv, OneUnderWay
  <2>3. bank.balance = wallet.available + 0 /\ wallet.available \in Nat
    BY <1>1, <2>2 DEF MoneyAtChannel, AtChannel, Inv, Shape, Wallets
  <2>4. bank'.balance = wallet.available + rows[k].amount
    BY <1>2, <2>3
  <2>5. AtChannel(k)'
    BY <1>2 DEF AtChannel
  <2>6. \A p \in Procs : proc[p].pc = "save" => proc[p].balance \in Nat
    BY DEF Inv, Shape, Calls, Idle
  <2>7. \A p \in Procs : proc[p].pc = "save" /\ proc[p].status = "failed" /\ Open(proc[p].key) =>
          proc[p].balance <= bank'.balance
    BY <1>2, <2>6 DEF MoneyAtChannel
  <2>8. ReleasedIsBack'
    BY <1>1, <1>2 DEF MoneyAtChannel, ReleasedIsBack
  <2>9. QED
    BY <1>1, <1>4, <2>2, <2>4, <2>5, <2>7, <2>8 DEF MoneyAtChannel
<1>8. QED
  BY <1>3, <1>5, <1>6, <1>7 DEF Inv

-----------------------------------------------------------------------------
(* Saving a result.                                                        *)

\* What saving leaves: the row's status, and where its amount went.
Kept(w) == wallet'.available = w.available /\ wallet'.reserved = w.reserved

Saved(p, k, new) ==
  /\ k = proc[p].key /\ proc[p].pc = "save" /\ Registered(k)
  /\ rows' = [rows EXCEPT ![k].status = new]
  /\ new \in Unfinished \cup Terminal
  /\ Said(k, new)
  /\ wallet' \in Wallets
  /\ wallet'.available + wallet'.reserved + wallet'.paid = wallet.available + wallet.reserved + wallet.paid
  /\ \/ ~Open(k) /\ new \in Terminal /\ (new = "failed" => rows[k].status = "failed") /\ Kept(wallet)
     \/ Open(k) /\ new \in Unfinished /\ Kept(wallet)
     \/ Open(k) /\ new \in {"succeeded", "attention"} /\ wallet'.available = wallet.available
     \/ /\ Open(k) /\ new = "failed" /\ proc[p].status = "failed"
        /\ proc[p].balance >= wallet.available + rows[k].amount
        /\ wallet'.available = wallet.available + rows[k].amount

LEMMA SavingAResult ==
  ASSUME Inv, NEW p \in Procs, SaveResult(p) PROVE \E k \in Keys : \E new : Saved(p, k, new)
<1>1. PICK k \in Keys : k = proc[p].key /\ proc[p].pc = "save"
  BY CallKeys DEF SaveResult, Inv
<1>2. Registered(k) /\ Said(k, proc[p].status) /\ Said(k, rows[k].status)
  BY <1>1 DEF Inv, CallsSaid, RowsSaid
<1>3. /\ wallet \in Wallets /\ rows \in [Keys -> WithdrawalRows] /\ proc[p].status \in Statuses
      /\ rows[k] \in WithdrawalRows
  BY <1>1 DEF Inv, Shape, Calls, Idle
<1>4. /\ wallet.available \in Nat /\ wallet.reserved \in Nat /\ wallet.paid \in Nat /\ wallet.hold \in BOOLEAN
      /\ wallet = [available |-> wallet.available, reserved |-> wallet.reserved, paid |-> wallet.paid, hold |-> wallet.hold]
  BY <1>3 DEF Wallets
<1>5. CASE rows[k].status \in Terminal
  <2>1. ~Open(k)
    BY <1>5 DEF Open, Terminal
  <2>2. CASE Contradicts(p)
    <3>1. rows' = [rows EXCEPT ![k].status = "attention"] /\ wallet' = [wallet EXCEPT !.hold = TRUE]
      BY <1>1, <1>5, <2>2 DEF SaveResult, SaveTerminal
    <3>2. proc[p].status \in Terminal /\ proc[p].status # rows[k].status
      BY <1>1, <2>2 DEF Contradicts
    <3>3. bank.state[k] = "R"
      BY <1>2, <1>5, <3>2 DEF Said, Terminal
    <3>4. Said(k, "attention") /\ "attention" \in Unfinished \cup Terminal
      BY <3>3 DEF Said, Terminal
    <3>5. wallet' \in Wallets /\ Kept(wallet) /\ wallet'.paid = wallet.paid
      BY <1>3, <3>1 DEF Wallets, Kept
    <3>6. wallet'.available + wallet'.reserved + wallet'.paid = wallet.available + wallet.reserved + wallet.paid
      BY <3>5 DEF Kept
    <3>7. Saved(p, k, "attention")
      BY <1>1, <1>2, <2>1, <3>1, <3>4, <3>5, <3>6 DEF Saved, Terminal
    <3>8. QED
      BY <3>7
  <2>3. CASE ~Contradicts(p)
    <3>1. rows' = rows /\ wallet' = wallet
      BY <1>1, <1>5, <2>3 DEF SaveResult, SaveTerminal
    <3>2. PICK new : new = rows[k].status
      OBVIOUS
    <3>3. rows' = [rows EXCEPT ![k].status = new]
      BY <1>3, <3>1, <3>2 DEF WithdrawalRows
    <3>4. Saved(p, k, new)
      BY <1>1, <1>2, <1>3, <1>5, <2>1, <3>1, <3>2, <3>3 DEF Saved, Kept
    <3>5. QED
      BY <3>4
  <2>4. QED
    BY <2>2, <2>3
<1>6. CASE rows[k].status \notin Terminal
  <2>1. Open(k)
    BY <1>2, <1>6, Registering
  <2>2. PICK new : new = Settled(p)
    OBVIOUS
  <2>3. /\ new \in Statuses /\ Said(k, new)
        /\ new = "failed" => proc[p].status = "failed" /\ FundsReturned(p)
    <3>1. CASE new = "unknown"
      BY <3>1 DEF Said, Statuses
    <3>2. CASE new = proc[p].status /\ (proc[p].status = "failed" => FundsReturned(p))
      BY <1>2, <1>3, <3>2
    <3>3. QED
      BY <2>2, <3>1, <3>2 DEF Settled
  <2>4. /\ rows' = [rows EXCEPT ![k].status = new]
        /\ wallet' = CASE new = "succeeded" -> Paid(wallet, rows[k].amount)
                       [] new = "failed" -> Release(wallet, rows[k].amount)
                       [] new = "attention" -> [wallet EXCEPT !.hold = TRUE]
                       [] OTHER -> wallet
    BY <1>1, <1>6, <2>2 DEF SaveResult, SaveOpen
  <2>5. new \in Unfinished \cup Terminal
    BY <2>3 DEF Statuses, Unfinished
  <2>6. PICK m \in Nat : m = rows[k].amount
    BY <1>3 DEF WithdrawalRows
  <2>7. wallet.reserved = m
    BY <2>1, <2>6 DEF Inv, OneUnderWay
  <2>8. PICK a \in Nat, b \in Nat, h \in BOOLEAN :
          wallet = [available |-> a, reserved |-> m, paid |-> b, hold |-> h]
    BY <1>4, <2>7
  <2>9. m - m = 0 /\ a + m \in Nat /\ b + m \in Nat /\ a + 0 + (b + m) = a + m + b /\ (a + m) + 0 + b = a + m + b
    OBVIOUS
  <2>10. CASE new = "succeeded"
    <3>1. wallet' = [available |-> a, reserved |-> 0, paid |-> b + m, hold |-> h]
      BY <2>4, <2>6, <2>8, <2>9, <2>10 DEF Paid
    <3>2. wallet' \in Wallets /\ wallet'.available = wallet.available
      BY <2>8, <2>9, <3>1 DEF Wallets
    <3>3. wallet'.available + wallet'.reserved + wallet'.paid = wallet.available + wallet.reserved + wallet.paid
      BY <2>8, <2>9, <3>1
    <3>4. Saved(p, k, new)
      BY <1>1, <1>2, <2>1, <2>3, <2>4, <2>5, <2>10, <3>2, <3>3 DEF Saved
    <3>5. QED
      BY <3>4
  <2>11. CASE new = "failed"
    <3>1. wallet' = [available |-> a + m, reserved |-> 0, paid |-> b, hold |-> h]
      BY <2>4, <2>6, <2>8, <2>9, <2>11 DEF Release
    <3>2. wallet' \in Wallets /\ wallet'.available = wallet.available + rows[k].amount
      BY <2>6, <2>8, <2>9, <3>1 DEF Wallets
    <3>3. wallet'.available + wallet'.reserved + wallet'.paid = wallet.available + wallet.reserved + wallet.paid
      BY <2>8, <2>9, <3>1
    <3>4. proc[p].status = "failed" /\ proc[p].balance >= wallet.available + rows[k].amount
      BY <1>1, <2>3, <2>11 DEF FundsReturned
    <3>5. Saved(p, k, new)
      BY <1>1, <1>2, <2>1, <2>3, <2>4, <2>5, <2>11, <3>2, <3>3, <3>4 DEF Saved
    <3>6. QED
      BY <3>5
  <2>12. CASE new = "attention"
    <3>1. wallet' = [wallet EXCEPT !.hold = TRUE]
      BY <2>4, <2>12
    <3>2. wallet' \in Wallets /\ Kept(wallet) /\ wallet'.paid = wallet.paid
      BY <1>3, <3>1 DEF Wallets, Kept
    <3>3. wallet'.available + wallet'.reserved + wallet'.paid = wallet.available + wallet.reserved + wallet.paid
      BY <3>2 DEF Kept
    <3>4. Saved(p, k, new)
      BY <1>1, <1>2, <2>1, <2>3, <2>4, <2>5, <2>12, <3>2, <3>3 DEF Saved, Kept
    <3>5. QED
      BY <3>4
  <2>13. CASE new \in {"processing", "unknown"}
    <3>1. wallet' = wallet
      BY <2>4, <2>13
    <3>2. Saved(p, k, new)
      BY <1>1, <1>2, <1>3, <2>1, <2>3, <2>4, <2>5, <2>13, <3>1 DEF Saved, Kept, Unfinished
    <3>3. QED
      BY <3>2
  <2>14. QED
    BY <2>3, <2>10, <2>11, <2>12, <2>13 DEF Statuses, Terminal
<1>7. QED
  BY <1>5, <1>6

LEMMA SaveStep ==
  ASSUME Inv, NEW p \in Procs, SaveResult(p) PROVE Inv'
<1>0. PICK k \in Keys : \E new : Saved(p, k, new)
  BY SavingAResult
<1>1. PICK new : Saved(p, k, new)
  BY <1>0
<1>2. /\ UNCHANGED <<account, income, bank>> /\ proc' = [proc EXCEPT ![p] = Idle]
  BY DEF SaveResult
<1>3. /\ k = proc[p].key /\ proc[p].pc = "save" /\ Registered(k) /\ Said(k, new)
      /\ rows' = [rows EXCEPT ![k].status = new] /\ new \in Unfinished \cup Terminal /\ wallet' \in Wallets
  BY <1>1 DEF Saved
<1>4. rows \in [Keys -> WithdrawalRows] /\ rows[k] \in WithdrawalRows
  BY DEF Inv, Shape
<1>5. \A j \in Keys : /\ rows'[j].status = IF j = k THEN new ELSE rows[j].status
                      /\ rows'[j].amount = rows[j].amount /\ rows'[j].card = rows[j].card
  BY <1>3, <1>4 DEF WithdrawalRows
<1>6. \A q \in Procs : proc'[q].pc # "idle" => q # p /\ proc'[q] = proc[q]
  BY <1>2 DEF Inv, Shape, Idle
<1>7. Shape'
  <2>1. [rows[k] EXCEPT !.status = new] \in WithdrawalRows
    BY <1>3, <1>4 DEF WithdrawalRows
  <2>2. rows' \in [Keys -> WithdrawalRows]
    BY <1>3, <1>4, <2>1
  <2>3. proc' \in [Procs -> Calls]
    BY <1>2 DEF Inv, Shape, Calls
  <2>4. QED
    BY <1>2, <1>3, <2>2, <2>3 DEF Inv, Shape
<1>8. new # "none"
  BY <1>3 DEF Unfinished, Terminal
<1>9. \A j \in Keys : Registered(j)' <=> Registered(j)
  BY <1>3, <1>5, <1>8 DEF Registered
<1>10. \A j, s : (AtChannel(j)' <=> AtChannel(j)) /\ (Said(j, s)' <=> Said(j, s))
  BY <1>2 DEF AtChannel, Said
<1>11. \A j \in Keys : j # k => (Open(j)' <=> Open(j))
  BY <1>5 DEF Open
<1>12. Open(k)' <=> new \in Unfinished
  BY <1>5 DEF Open, Unfinished
<1>13. RowsAndBank'
  BY <1>2, <1>5, <1>9 DEF Inv, RowsAndBank
<1>14. SenderAlone'
  BY <1>2, <1>5, <1>6, <1>9, CallKeys DEF Inv, SenderAlone
<1>15. RowsSaid'
  BY <1>3, <1>5, <1>10 DEF Inv, RowsSaid
<1>16. CallsSaid'
  BY <1>6, <1>9, <1>10, CallKeys DEF Inv, CallsSaid
<1>17. LedgerBalances'
  <2>1. wallet'.available + wallet'.reserved + wallet'.paid = wallet.available + wallet.reserved + wallet.paid
    BY <1>1 DEF Saved
  <2>2. QED
    BY <1>2, <2>1 DEF Inv, LedgerBalances
<1>18. Open(k)' => Open(k) /\ Kept(wallet)
  BY <1>1, <1>12 DEF Saved, Unfinished, Terminal
<1>19. ~Open(k) => Kept(wallet)
  BY <1>1 DEF Saved
<1>20. OneUnderWay'
  <2>1. \A j \in Keys : Open(j)' => Open(j)
    BY <1>11, <1>18
  <2>2. ASSUME NEW j \in Keys, Open(j)' PROVE wallet'.reserved = rows'[j].amount
    <3>1. Open(j) /\ wallet.reserved = rows[j].amount
      BY <2>1, <2>2 DEF Inv, OneUnderWay
    <3>2. Kept(wallet)
      BY <1>18, <1>19, <2>2, <3>1 DEF Inv, OneUnderWay
    <3>3. QED
      BY <1>5, <3>1, <3>2 DEF Kept
  <2>3. QED
    BY <2>1, <2>2 DEF Inv, OneUnderWay
<1>21. ASSUME MoneyAtChannel PROVE MoneyAtChannel'
  <2>1. \A j \in Keys : Open(j) => j = k \/ ~Open(k)
    BY DEF Inv, OneUnderWay
  <2>2. \A j \in Keys : Open(j)' => Open(j)
    BY <1>11, <1>18
  <2>3. Open(k) => bank.balance = wallet.available + IF AtChannel(k) THEN rows[k].amount ELSE 0
    BY <1>21 DEF MoneyAtChannel
  <2>4. PICK m \in Nat : m = rows[k].amount /\ m >= 1
    BY <1>3, WithdrawalAssumption DEF Inv, RowsAndBank, Amounts
  <2>5. wallet.available \in Nat
    BY DEF Inv, Shape, Wallets
  <2>6. Open(k) /\ new = "failed" => k \in bank.back
    <3> SUFFICES ASSUME Open(k), new = "failed" PROVE k \in bank.back
      OBVIOUS
    <3>1. proc[p].status = "failed" /\ proc[p].balance >= wallet.available + m
      BY <1>1, <2>4 DEF Saved, Unfinished
    <3>2. proc[p].balance <= bank.balance
      BY <1>3, <1>21, <3>1 DEF MoneyAtChannel
    <3>3. proc[p].balance \in Nat
      BY <1>3 DEF Inv, Shape, Calls, Idle
    <3>4. bank.balance \in Nat
      BY DEF Inv, Shape, Banks
    <3>5. bank.balance >= wallet.available + m
      BY <2>4, <2>5, <3>1, <3>2, <3>3, <3>4
    <3>6. bank.state[k] = "F"
      BY <1>3 DEF Said
    <3>7. CASE ~AtChannel(k)
      <4>1. bank.balance = wallet.available
        BY <2>3, <2>5, <3>7
      <4>2. QED
        BY <2>4, <2>5, <3>5, <4>1
    <3>8. QED
      BY <3>6, <3>7 DEF AtChannel
  <2>7. ReleasedIsBack'
    BY <1>1, <1>2, <1>5, <1>21, <2>6 DEF MoneyAtChannel, ReleasedIsBack, Saved
  <2>8. \A j \in Keys : Open(j)' => bank'.balance = wallet'.available + IF AtChannel(j)' THEN rows'[j].amount ELSE 0
    <3> SUFFICES ASSUME NEW j \in Keys, Open(j)'
                 PROVE  bank'.balance = wallet'.available + IF AtChannel(j)' THEN rows'[j].amount ELSE 0
      OBVIOUS
    <3>1. Open(j) /\ Kept(wallet)
      BY <1>18, <1>19, <2>1, <2>2
    <3>2. bank.balance = wallet.available + IF AtChannel(j) THEN rows[j].amount ELSE 0
      BY <1>21, <3>1 DEF MoneyAtChannel
    <3>3. QED
      BY <1>2, <1>5, <1>10, <3>1, <3>2 DEF Kept
  <2>9. ASSUME \A j \in Keys : ~Open(j)' PROVE bank'.balance = wallet'.available
    <3>1. CASE ~Open(k)
      <4>1. \A j \in Keys : ~Open(j)
        BY <1>11, <2>9, <3>1
      <4>2. QED
        BY <1>2, <1>19, <1>21, <3>1, <4>1 DEF MoneyAtChannel, Kept
    <3>2. CASE Open(k) /\ new = "failed"
      <4>1. wallet'.available = wallet.available + m
        BY <1>1, <2>4, <3>2 DEF Saved, Unfinished
      <4>2. AtChannel(k)
        BY <2>6, <3>2 DEF AtChannel
      <4>3. QED
        BY <1>2, <2>3, <2>4, <3>2, <4>1, <4>2
    <3>3. CASE Open(k) /\ new \in {"succeeded", "attention"}
      <4>1. wallet'.available = wallet.available
        BY <1>1, <3>3 DEF Saved, Unfinished
      <4>2. bank.state[k] \in {"S", "R"}
        BY <1>3, <3>3 DEF Said
      <4>3. ~AtChannel(k)
        BY <4>2 DEF AtChannel, Inv, RowsAndBank
      <4>4. bank.balance = wallet.available
        BY <2>3, <2>5, <3>3, <4>3
      <4>5. QED
        BY <1>2, <4>1, <4>4
    <3>4. QED
      BY <1>3, <1>12, <2>9, <3>1, <3>2, <3>3 DEF Terminal
  <2>10. ASSUME NEW q \in Procs, proc'[q].pc = "save", proc'[q].status = "failed", Open(proc[q].key)'
         PROVE  proc'[q].balance <= bank'.balance
    <3>1. proc'[q] = proc[q] /\ proc[q].key \in Keys
      BY <1>6, <2>10, CallKeys DEF Inv
    <3>2. Open(proc[q].key)
      BY <2>2, <2>10, <3>1
    <3>3. QED
      BY <1>2, <1>21, <2>10, <3>1, <3>2 DEF MoneyAtChannel
  <2>11. \A i \in Incomes : income'[i] # "channel"
    BY <1>2, <1>21 DEF MoneyAtChannel
  <2>12. QED
    BY <2>7, <2>8, <2>9, <2>10, <2>11 DEF MoneyAtChannel
<1>22. QED
  BY <1>7, <1>13, <1>14, <1>15, <1>16, <1>17, <1>20, <1>21 DEF Inv

-----------------------------------------------------------------------------
LEMMA StutterStep == ASSUME Inv, UNCHANGED vars PROVE Inv'
<1>1. UNCHANGED <<wallet, rows, account, income, bank, proc>>
  BY DEF vars
<1>2. \A k, s : (Open(k)' <=> Open(k)) /\ (AtChannel(k)' <=> AtChannel(k)) /\ (Said(k, s)' <=> Said(k, s))
                /\ (Registered(k)' <=> Registered(k))
  BY <1>1 DEF Open, AtChannel, Said, Registered
<1>3. Shape' /\ RowsAndBank' /\ SenderAlone' /\ RowsSaid' /\ CallsSaid' /\ OneUnderWay' /\ LedgerBalances'
  BY <1>1, <1>2 DEF Inv, Shape, RowsAndBank, SenderAlone, RowsSaid, CallsSaid, OneUnderWay, LedgerBalances
<1>4. MoneyAtChannel => MoneyAtChannel'
  <2>1. ReleasedIsBack' <=> ReleasedIsBack
    BY <1>1 DEF ReleasedIsBack
  <2>2. QED
    BY <1>1, <1>2, <2>1 DEF MoneyAtChannel
<1>5. QED
  BY <1>3, <1>4 DEF Inv

LEMMA NextInv == Inv /\ [Next]_vars => Inv'
<1> SUFFICES ASSUME Inv, [Next]_vars PROVE Inv'
  OBVIOUS
<1>1. CASE UNCHANGED vars
  BY <1>1, StutterStep
<1>2. ASSUME NEW i \in Incomes, ChannelIncome(i) \/ CreditDistribution(i) PROVE Inv'
  BY <1>2, IncomeStep
<1>3. CASE HoldDistributionWallet \/ \E c \in Cards, u \in BOOLEAN : AccountChanges(c, u)
  BY <1>3, AccountStep
<1>4. ASSUME NEW k \in Keys, BankDecides(k) \/ BankReturns(k) \/ BankReexchanges(k) PROVE Inv'
  BY <1>4, BankStateStep, BankReturnsStep
<1>5. ASSUME NEW p \in Procs, NEW k \in Keys, NEW a \in Amounts, Start(p, k, a) PROVE Inv'
  BY <1>5, StartStep
<1>6. ASSUME NEW p \in Procs, CheckAccount(p) \/ CheckBalance(p) \/ CreateWithdrawal(p) PROVE Inv'
  BY <1>6, CheckAccountStep, CheckBalanceStep, CreateStep
<1>7. ASSUME NEW p \in Procs, Submit(p) \/ AnswerLost(p) \/ ProveFailure(p) PROVE Inv'
  BY <1>7, SubmitStep, AnswerLostStep, ProveFailureStep
<1>8. ASSUME NEW p \in Procs, NEW k \in Keys, QueryWithdrawal(p, k) \/ QueryUncertain(p, k) PROVE Inv'
  BY <1>8, QueryStep
<1>9. ASSUME NEW p \in Procs, SaveResult(p) \/ Crash(p) PROVE Inv'
  BY <1>9, SaveStep, CrashStep
<1>10. QED
  BY <1>1, <1>2, <1>3, <1>4, <1>5, <1>6, <1>7, <1>8, <1>9 DEF Next

THEOREM Safe == Spec => []Inv
BY InitInv, NextInv, PTL DEF Spec

-----------------------------------------------------------------------------
\* Every unit credited is available, reserved or paid out, and one withdrawal is under way at
\* a time, with exactly its amount reserved, whatever is lost, repeated or late.
THEOREM LedgerAndReserve == Spec => [](LedgerBalances /\ OneUnderWay)
BY Safe, PTL DEF Inv

\* A withdrawal is sent once, to the card the account was verified with.
THEOREM SentOnce == Spec => []SentOnceToOwnCard
<1>1. Inv => SentOnceToOwnCard
  BY DEF Inv, RowsAndBank, SentOnceToOwnCard
<1>2. QED
  BY <1>1, Safe, PTL

\* A row is succeeded or failed only by the bank's word on the original request.
THEOREM ResultsFromTheBank == Spec => []ResultsAreTheBanks
<1>1. Inv => ResultsAreTheBanks
  BY DEF Inv, RowsSaid, Said, ResultsAreTheBanks
<1>2. QED
  BY <1>1, Safe, PTL

\* Types and bounds: nothing available beyond what was credited, no amount above the largest.
THEOREM Typed == Spec => []TypeOK
<1>1. ASSUME Inv PROVE TypeOK
  <2> DEFINE C == {i \in Incomes : income[i] = "credited"}
  <2>1. Cardinality(C) \in Nat /\ Cardinality(C) <= Cardinality(Incomes) /\ Cardinality(Incomes) \in Nat
    BY WithdrawalAssumption, FS_Subset, FS_CardinalityType
  <2>2. wallet.available \in Nat /\ wallet.reserved \in Nat /\ wallet.paid \in Nat
    BY <1>1 DEF Inv, Shape, Wallets
  <2>3. wallet.available + wallet.reserved + wallet.paid = Cardinality(C)
    BY <1>1 DEF Inv, LedgerBalances
  <2>4. wallet.available \in 0 .. Cardinality(Incomes) /\ wallet.reserved >= 0 /\ wallet.paid >= 0
    <3> HIDE DEF C
    <3>1. \A a, b, d, x, y \in Nat : a + b + d = x /\ x <= y => a \in 0 .. y /\ b >= 0 /\ d >= 0
      OBVIOUS
    <3>2. QED
      BY <2>1, <2>2, <2>3, <3>1
  <2>5. \A k \in Keys : rows[k].status \in {"none", "submitting", "processing", "unknown"} \cup Terminal
    BY <1>1 DEF Inv, Shape, WithdrawalRows, Unfinished
  <2>6. \A k \in Keys : rows[k].amount \in 0 .. MaxAmount
    BY <1>1, WithdrawalAssumption DEF Inv, RowsAndBank, Amounts
  <2>7. QED
    BY <2>4, <2>5, <2>6 DEF TypeOK
<1>2. QED
  BY <1>1, Safe, PTL

\* When income is credited as it reaches the channel, all of it holds, and also that what is
\* available is at the channel and that a failure is released only with its money back.  Without
\* the assumption the last one fails: income not yet credited passes for the money.
THEOREM WithdrawnForMoneyThatIsThere ==
  ASSUME CreditLag = FALSE PROVE Spec => []WithdrawnOnce
<1>1. ASSUME Inv PROVE AvailableIsAtChannel /\ ReleasedIsBack
  <2>1. MoneyAtChannel
    BY <1>1 DEF Inv
  <2>2. wallet.available \in Nat
    BY <1>1 DEF Inv, Shape, Wallets
  <2>3. CASE \A k \in Keys : ~Open(k)
    BY <2>1, <2>2, <2>3 DEF MoneyAtChannel, AvailableIsAtChannel
  <2>4. ASSUME NEW k \in Keys, Open(k) PROVE wallet.available <= bank.balance
    <3>1. PICK m \in Nat : m = rows[k].amount
      BY <1>1 DEF Inv, Shape, WithdrawalRows
    <3>2. bank.balance = wallet.available + m \/ bank.balance = wallet.available + 0
      BY <2>1, <2>4, <3>1 DEF MoneyAtChannel
    <3>3. QED
      BY <2>2, <3>2
  <2>5. QED
    BY <2>1, <2>3, <2>4 DEF MoneyAtChannel, AvailableIsAtChannel
<1>2. Inv => LedgerBalances /\ OneUnderWay
  BY DEF Inv
<1>3. QED
  BY <1>1, <1>2, Safe, Typed, SentOnce, ResultsFromTheBank, PTL DEF WithdrawnOnce

\* No withdrawal is reserved in a wallet on hold, though the hold may come after its checks.
THEOREM HoldIsObeyed == Spec => [][HoldStops]_vars
<1>1. ASSUME Inv, [Next]_vars PROVE HoldStops
  <2> SUFFICES ASSUME wallet.hold, NEW k \in Keys, rows[k].status = "none" PROVE rows'[k].status = "none"
    BY DEF HoldStops
  <2>1. CASE UNCHANGED rows
    BY <2>1
  <2>2. ASSUME NEW p \in Procs, CreateWithdrawal(p) PROVE UNCHANGED rows
    BY <2>2 DEF CreateWithdrawal, Unencumbered
  <2>3. ASSUME NEW p \in Procs, SaveResult(p) PROVE rows'[k].status = "none"
    <3>0. PICK j \in Keys : \E new : Saved(p, j, new)
      BY <1>1, <2>3, SavingAResult
    <3>1. PICK new : Saved(p, j, new)
      BY <3>0
    <3>2. rows' = [rows EXCEPT ![j].status = new] /\ Registered(j)
      BY <3>1 DEF Saved
    <3>3. j # k
      BY <3>2 DEF Registered
    <3>4. QED
      BY <1>1, <3>2, <3>3 DEF Inv, Shape
  <2>4. CASE ~\E p \in Procs : CreateWithdrawal(p) \/ SaveResult(p)
    BY <1>1, <2>4 DEF Next, vars, ChannelIncome, CreditDistribution, HoldDistributionWallet, AccountChanges,
       BankDecides, BankReturns, BankReexchanges, Start, CheckAccount, CheckBalance, Submit, AnswerLost,
       QueryWithdrawal, QueryUncertain, ProveFailure, Crash
  <2>5. QED
    BY <2>1, <2>2, <2>3, <2>4
<1>2. QED
  BY <1>1, Safe, PTL DEF Spec
=============================================================================
