----------------------------- MODULE Withdrawal -----------------------------
(***************************************************************************)
(* The income wallet of one provider and its withdrawals                   *)
(* (providers/income_wallet.py, providers/withdrawals.py,                  *)
(* providers/withdrawal_gateway.py).                                       *)
(*                                                                         *)
(* A withdrawal is checked against the channel outside any transaction,    *)
(* then reserved in one transaction that checks again, sent once, and      *)
(* settled only by queries. Between the checks, the sending and the saving *)
(* anything may happen: another request, income, a change of card, a hold, *)
(* a crash.                                                                *)
(***************************************************************************)
EXTENDS Integers, FiniteSets

CONSTANTS
    Keys,       \* idempotency keys the client uses
    Procs,      \* web and job processes
    Cards,      \* cash cards the account may be verified with
    Incomes,    \* settled distributions of the provider, each of one unit
    MaxAmount,  \* bound: largest withdrawal asked for
    CreditLag   \* whether income reaches the channel before it is credited in the wallet

ASSUME WithdrawalAssumption ==
    /\ MaxAmount \in Nat \ {0} /\ CreditLag \in BOOLEAN
    /\ IsFiniteSet(Incomes)

VARIABLES
    wallet,   \* ProviderIncomeWallet: available, reserved, paid, hold
    rows,     \* ProviderWithdrawal by request key
    account,  \* the verified receiving account: its card, and whether it is usable
    income,   \* each distribution: "none", "channel" or "credited"
    bank,     \* the channel: balance of the provider, state of each withdrawal, card it went to, times sent
    proc      \* what each process is doing

vars == <<wallet, rows, account, income, bank, proc>>

NoRow == [status |-> "none", amount |-> 0, card |-> ""]
Idle == [pc |-> "idle"]
Amounts == 1 .. MaxAmount
Terminal == {"succeeded", "failed", "attention"}

\* append_entry: the four kinds of ledger entry.
Reserve(w, a) == [w EXCEPT !.available = @ - a, !.reserved = @ + a]
Release(w, a) == [w EXCEPT !.available = @ + a, !.reserved = @ - a]
Paid(w, a) == [w EXCEPT !.reserved = @ - a, !.paid = @ + a]
Credit(w, a) == [w EXCEPT !.available = @ + a]

-----------------------------------------------------------------------------
(* Income *)

\* A distribution pays the provider's account at the channel; credit_distribution follows its query.
ChannelIncome(i) ==
    /\ income[i] = "none"
    /\ bank' = [bank EXCEPT !.balance = @ + 1]
    /\ IF CreditLag
         THEN income' = [income EXCEPT ![i] = "channel"] /\ UNCHANGED wallet
         ELSE income' = [income EXCEPT ![i] = "credited"] /\ wallet' = Credit(wallet, 1)
    /\ UNCHANGED <<rows, account, proc>>

CreditDistribution(i) ==
    /\ income[i] = "channel"
    /\ income' = [income EXCEPT ![i] = "credited"]
    /\ wallet' = Credit(wallet, 1)
    /\ UNCHANGED <<rows, account, bank, proc>>

\* hold_distribution_wallet: evidence of a distribution conflicts.
HoldDistributionWallet ==
    /\ ~wallet.hold
    /\ wallet' = [wallet EXCEPT !.hold = TRUE]
    /\ UNCHANGED <<rows, account, income, bank, proc>>

\* The receiving account is verified again, possibly with another card, or stops being usable.
AccountChanges(c, u) ==
    /\ account # [card |-> c, usable |-> u]
    /\ account' = [card |-> c, usable |-> u]
    /\ UNCHANGED <<wallet, rows, income, bank, proc>>

-----------------------------------------------------------------------------
(* Creation *)

\* create_withdrawal up to its channel checks: a key already used is answered with its row.
Start(p, k, a) ==
    /\ proc[p] = Idle
    /\ rows[k].status = "none" /\ wallet.available >= a /\ ~wallet.hold /\ wallet.reserved = 0
    /\ proc' = [proc EXCEPT ![p] = [pc |-> "account", key |-> k, amount |-> a]]
    /\ UNCHANGED <<wallet, rows, account, income, bank>>

\* refresh_onboarding and manual_cash_account: a new verified account, its fingerprint and its card token.
CheckAccount(p) ==
    /\ proc[p].pc = "account"
    /\ proc' = [proc EXCEPT ![p] = IF account.usable
                  THEN [pc |-> "balance", key |-> @.key, amount |-> @.amount, card |-> account.card] ELSE Idle]
    /\ UNCHANGED <<wallet, rows, account, income, bank>>

\* HuifuWithdrawalGateway.balance: signed, or no withdrawal.
CheckBalance(p) ==
    /\ proc[p].pc = "balance"
    /\ proc' = [proc EXCEPT ![p] = [pc |-> "reserve", key |-> @.key, amount |-> @.amount, card |-> @.card, balance |-> bank.balance]]
    /\ UNCHANGED <<wallet, rows, account, income, bank>>

\* Mutant: the account is not compared with the one verified.
SameFingerprint_Usable(p) == account.usable

\* The same account and card as when it was verified.
SameFingerprint(p) == account.usable /\ account.card = proc[p].card

\* Nothing withheld and nothing under way, read under the lock.
Unencumbered(w) == ~w.hold /\ w.reserved = 0

\* The whole recorded balance is at the channel, not only what is asked for.
BalanceCovers(p) == proc[p].balance >= wallet.available

\* The transaction of create_withdrawal: everything is checked again, then the row and the reserve entry.
CreateWithdrawal(p) ==
    LET k == proc[p].key  a == proc[p].amount IN
    /\ proc[p].pc = "reserve"
    /\ IF /\ rows[k].status = "none" /\ SameFingerprint(p) /\ Unencumbered(wallet)
          /\ BalanceCovers(p) /\ wallet.available >= a
         THEN /\ rows' = [rows EXCEPT ![k] = [status |-> "submitting", amount |-> a, card |-> account.card]]
              /\ wallet' = Reserve(wallet, a)
              /\ proc' = [proc EXCEPT ![p] = [pc |-> "submit", key |-> k, card |-> proc[p].card]]
         ELSE /\ proc' = [proc EXCEPT ![p] = Idle]
              /\ UNCHANGED <<rows, wallet>>
    /\ UNCHANGED <<account, income, bank>>

-----------------------------------------------------------------------------
(* Sending, once *)

\* HuifuWithdrawalGateway.submit reaches the channel, which takes it or refuses it at once.
Submit(p) ==
    LET k == proc[p].key IN
    /\ proc[p].pc = "submit"
    /\ \E taken \in BOOLEAN :
         bank' = [bank EXCEPT !.sent[k] = @ + 1, !.card[k] = proc[p].card,
                              !.state[k] = IF taken /\ bank.balance >= rows[k].amount THEN "P" ELSE "F",
                              !.balance = IF taken /\ @ >= rows[k].amount THEN @ - rows[k].amount ELSE @,
                              !.back = IF taken /\ bank.balance >= rows[k].amount THEN @ ELSE @ \cup {k}]
    /\ proc' = [proc EXCEPT ![p] = [pc |-> "save", key |-> k, status |-> "processing", queried |-> FALSE, balance |-> 0]]
    /\ UNCHANGED <<wallet, rows, account, income>>

\* No answer, or none that can be trusted, whether or not the request arrived.
AnswerLost(p) ==
    /\ proc[p].pc \in {"submit", "save"} /\ (proc[p].pc = "save" => ~proc[p].queried)
    /\ proc' = [proc EXCEPT ![p] = [pc |-> "save", key |-> @.key, status |-> "unknown", queried |-> FALSE, balance |-> 0]]
    /\ UNCHANGED <<wallet, rows, account, income, bank>>

-----------------------------------------------------------------------------
(* The channel *)

\* A withdrawal taken succeeds or fails; the money of a failed one comes back later.
BankDecides(k) ==
    /\ bank.state[k] = "P"
    /\ \E s \in {"S", "F"} : bank' = [bank EXCEPT !.state[k] = s]
    /\ UNCHANGED <<wallet, rows, account, income, proc>>

BankReturns(k) ==
    /\ bank.state[k] = "F" /\ k \notin bank.back
    /\ bank' = [bank EXCEPT !.balance = @ + rows[k].amount, !.back = @ \cup {k}]
    /\ UNCHANGED <<wallet, rows, account, income, proc>>

\* A paid withdrawal is returned by the receiving bank.
BankReexchanges(k) ==
    /\ bank.state[k] = "S"
    /\ bank' = [bank EXCEPT !.state[k] = "R"]
    /\ UNCHANGED <<wallet, rows, account, income, proc>>

-----------------------------------------------------------------------------
(* Queries: the provider's refresh, the job, a finance case *)

\* HuifuWithdrawalGateway.query: the state of the original request; not found and doubtful are unknown.
Seen(k) ==
    CASE bank.state[k] = "none" -> "unknown"
      [] bank.state[k] = "P" -> "processing"
      [] bank.state[k] = "S" -> "succeeded"
      [] bank.state[k] = "F" -> "failed"
      [] bank.state[k] = "R" -> "attention"

QueryWithdrawal(p, k) ==
    /\ proc[p] = Idle /\ rows[k].status # "none"
    /\ proc' = [proc EXCEPT ![p] = [pc |-> IF Seen(k) = "failed" THEN "proof" ELSE "save",
                                    key |-> k, status |-> Seen(k), queried |-> TRUE, balance |-> 0]]
    /\ UNCHANGED <<wallet, rows, account, income, bank>>

\* A failure is only believed with the balance of the account.
ProveFailure(p) ==
    /\ proc[p].pc = "proof"
    /\ proc' = [proc EXCEPT ![p] = [@ EXCEPT !.pc = "save", !.balance = bank.balance]]
    /\ UNCHANGED <<wallet, rows, account, income, bank>>

\* DistributionUncertain from the query or from the balance.
QueryUncertain(p, k) ==
    /\ rows[k].status # "none"
    /\ proc[p] = Idle \/ (proc[p].pc = "proof" /\ proc[p].key = k)
    /\ proc' = [proc EXCEPT ![p] = [pc |-> "save", key |-> k, status |-> "unknown", queried |-> TRUE, balance |-> 0]]
    /\ UNCHANGED <<wallet, rows, account, income, bank>>

FundsReturned(p) == proc[p].balance >= wallet.available + rows[proc[p].key].amount

\* What save_result makes of a result on a row that is not terminal.
Settled(p) == IF proc[p].status = "failed" /\ ~FundsReturned(p) THEN "unknown" ELSE proc[p].status

\* A queried result that contradicts the final one.
Contradicts(p) == proc[p].queried /\ proc[p].status \in Terminal /\ proc[p].status # rows[proc[p].key].status

SaveTerminal(p) ==
    IF Contradicts(p)
      THEN rows' = [rows EXCEPT ![proc[p].key].status = "attention"] /\ wallet' = [wallet EXCEPT !.hold = TRUE]
      ELSE UNCHANGED <<rows, wallet>>

SaveOpen(p) ==
    LET k == proc[p].key IN
    /\ rows' = [rows EXCEPT ![k].status = Settled(p)]
    /\ wallet' = CASE Settled(p) = "succeeded" -> Paid(wallet, rows[k].amount)
                   [] Settled(p) = "failed" -> Release(wallet, rows[k].amount)
                   [] Settled(p) = "attention" -> [wallet EXCEPT !.hold = TRUE]
                   [] OTHER -> wallet

SaveResult(p) ==
    /\ proc[p].pc = "save"
    /\ IF rows[proc[p].key].status \in Terminal THEN SaveTerminal(p) ELSE SaveOpen(p)
    /\ proc' = [proc EXCEPT ![p] = Idle]
    /\ UNCHANGED <<account, income, bank>>

Crash(p) ==
    /\ proc[p] # Idle
    /\ proc' = [proc EXCEPT ![p] = Idle]
    /\ UNCHANGED <<wallet, rows, account, income, bank>>

-----------------------------------------------------------------------------

Init ==
    /\ wallet = [available |-> 0, reserved |-> 0, paid |-> 0, hold |-> FALSE]
    /\ rows = [k \in Keys |-> NoRow]
    /\ \E c \in Cards : account = [card |-> c, usable |-> TRUE]
    /\ income = [i \in Incomes |-> "none"]
    /\ bank = [balance |-> 0, state |-> [k \in Keys |-> "none"], card |-> [k \in Keys |-> ""],
               sent |-> [k \in Keys |-> 0], back |-> {}]
    /\ proc = [p \in Procs |-> Idle]

Next ==
    \/ \E i \in Incomes : ChannelIncome(i) \/ CreditDistribution(i)
    \/ HoldDistributionWallet
    \/ \E c \in Cards, u \in BOOLEAN : AccountChanges(c, u)
    \/ \E k \in Keys : BankDecides(k) \/ BankReturns(k) \/ BankReexchanges(k)
    \/ \E p \in Procs :
         \/ \E k \in Keys, a \in Amounts : Start(p, k, a)
         \/ CheckAccount(p) \/ CheckBalance(p) \/ CreateWithdrawal(p)
         \/ Submit(p) \/ AnswerLost(p)
         \/ \E k \in Keys : QueryWithdrawal(p, k) \/ QueryUncertain(p, k)
         \/ ProveFailure(p) \/ SaveResult(p) \/ Crash(p)

Spec == Init /\ [][Next]_vars

\* A process goes on or dies. process_income_transfers queries every row under way every few minutes: a
\* run may crash or get no answer, but not always, and the channel returns the money of a failed withdrawal.
Progress(p) == CheckAccount(p) \/ CheckBalance(p) \/ CreateWithdrawal(p) \/ Submit(p) \/ SaveResult(p) \/ Crash(p)
SaveDecided(p) == proc[p].pc = "save" /\ proc[p].status \in Terminal /\ SaveResult(p)

Fairness ==
    /\ \A k \in Keys : WF_vars(BankReturns(k))
    /\ \A p \in Procs : /\ WF_vars(Progress(p)) /\ SF_vars(ProveFailure(p)) /\ SF_vars(SaveDecided(p))
                        /\ \A k \in Keys : SF_vars(QueryWithdrawal(p, k))

LiveSpec == Spec /\ Fairness

-----------------------------------------------------------------------------
(* Properties *)

Open(k) == rows[k].status \in {"submitting", "processing", "unknown"}

TypeOK ==
    /\ wallet.available \in 0 .. Cardinality(Incomes) /\ wallet.reserved >= 0 /\ wallet.paid >= 0
    /\ \A k \in Keys : rows[k].status \in {"none", "submitting", "processing", "unknown"} \cup Terminal
    /\ \A k \in Keys : rows[k].amount \in 0 .. MaxAmount

\* Every unit credited is available, reserved by a withdrawal under way or paid out.
LedgerBalances == wallet.available + wallet.reserved + wallet.paid = Cardinality({i \in Incomes : income[i] = "credited"})

\* At most one withdrawal is under way, and the reserve is exactly its amount until the channel's
\* word on it is known; a withdrawal put aside for attention before that keeps its reserve.
OneUnderWay ==
    /\ \A j, k \in Keys : Open(j) /\ Open(k) => j = k
    /\ \A k \in Keys : Open(k) => wallet.reserved = rows[k].amount

\* A request goes to the bank once, to the card the account was verified with when it was reserved.
SentOnceToOwnCard == \A k \in Keys : bank.sent[k] <= 1 /\ (bank.sent[k] = 1 => bank.card[k] = rows[k].card)

\* What the wallet shows as available is at the channel: releasing a failed withdrawal waits for its money.
AvailableIsAtChannel == wallet.available <= bank.balance

\* A row is succeeded or failed only when the bank said so of the original request.
ResultsAreTheBanks ==
    \A k \in Keys : /\ rows[k].status = "succeeded" => bank.state[k] \in {"S", "R"}
                    /\ rows[k].status = "failed" => bank.state[k] = "F"

\* The money of a failed withdrawal is back at the channel when the wallet releases it.
ReleasedIsBack == \A k \in Keys : rows[k].status = "failed" => k \in bank.back

\* Withdrawing, once and for money that is there: all of the above.
WithdrawnOnce ==
    /\ TypeOK /\ LedgerBalances /\ OneUnderWay /\ SentOnceToOwnCard
    /\ AvailableIsAtChannel /\ ResultsAreTheBanks /\ ReleasedIsBack

\* No withdrawal is reserved in a wallet on hold, though the hold may come after its checks.
HoldStops == wallet.hold => \A k \in Keys : rows[k].status = "none" => rows'[k].status = "none"

\* A withdrawal the bank has decided is settled in the wallet, whatever answers and processes are lost.
DecidedAtBank(k) == Open(k) /\ bank.state[k] \in {"S", "F"}
InWallet(k) == rows[k].status \in Terminal
SettlesInTheEnd == \A k \in Keys : DecidedAtBank(k) ~> InWallet(k)

=============================================================================
