-------------------------- MODULE ReceivingAccount --------------------------
(***************************************************************************)
(* The channel account of one provider (providers/receiving_accounts.py,   *)
(* providers/receiving_onboarding.py, providers/cash_accounts.py): the     *)
(* encrypted materials, the registration at the channel, the configuration *)
(* of withdrawals, the audit the channel notifies, and the queries that    *)
(* alone make an account usable.                                           *)
(*                                                                         *)
(* Every outbound call has an attempt row written before it. A request     *)
(* whose answer is lost is reconciled and never sent again, so a provider  *)
(* gets one user and one configuration request at the channel however      *)
(* submissions, refreshes, notifications and crashes interleave.           *)
(***************************************************************************)
EXTENDS Integers, Sequences, FiniteSets

CONSTANTS
    Requests,     \* web requests of the provider, several in flight at once
    MaxAttempts,  \* bound: attempt rows of the account
    Overlap       \* whether a submission may start while a refresh of the same provider is under way

RequestsAssumption == MaxAttempts \in Nat \ {0} /\ Requests # {} /\ Overlap \in BOOLEAN

VARIABLES
    account,   \* the ProviderReceivingAccount row
    attempts,  \* its ProviderReceivingAttempt rows, oldest first
    proc,      \* what each web request is doing
    channel    \* the channel's side: users opened with which materials, configurations received

vars == <<account, attempts, proc, channel>>

Idle == [pc |-> "idle", attempt |-> 0]
Materials == {"first", "second"}
Checks == {"", "S", "F"}
AuditStates == {"", "P", "Y", "N"}
Reviewed == {"Y", "N"}
ChannelStatuses == {"not_connected", "registering", "registered", "configuring", "pending", "active", "rejected", "attention"}
Editable == {"not_connected", "rejected"}

NoAccount == [saved |-> FALSE, details |-> "", status |-> "not_connected", user |-> FALSE, consent |-> "",
              audit |-> "", card |-> "", cash |-> "", auto |-> ""]

Attempt(kind) == [kind |-> kind, status |-> "sent", recent |-> TRUE]

HasAttempt(kind) == \E a \in 1 .. Len(attempts) : attempts[a].kind = kind
InFlight(kinds) == \E a \in 1 .. Len(attempts) : attempts[a].kind \in kinds /\ attempts[a].status = "sent" /\ attempts[a].recent

-----------------------------------------------------------------------------
(* Materials *)

MayEdit == ~account.user /\ account.status \in Editable

\* save_receiving_account: identity checked against the provider's own; refused once the channel has the materials.
SaveReceivingAccount(d) ==
    /\ MayEdit
    /\ account' = [account EXCEPT !.saved = TRUE, !.details = d]
    /\ UNCHANGED <<attempts, proc, channel>>

\* clear_receiving_account: an account the channel was ever asked about stays.
ClearReceivingAccount ==
    /\ account.saved /\ attempts = <<>>
    /\ account' = NoAccount
    /\ UNCHANGED <<attempts, proc, channel>>

-----------------------------------------------------------------------------
(* Submission: the row is committed before the call, the call is outside the transaction. *)

Begin(p, kind, next) ==
    /\ Len(attempts) < MaxAttempts
    /\ attempts' = Append(attempts, Attempt(kind))
    /\ proc' = [proc EXCEPT ![p] = [pc |-> next, attempt |-> Len(attempts) + 1]]

\* A live account under earlier terms only renews its consent.
RenewConsent ==
    /\ account.saved /\ account.user /\ HasAttempt("configure") /\ account.consent = "old"
    /\ Len(attempts) < MaxAttempts
    /\ account' = [account EXCEPT !.consent = "current", !.status = "attention", !.cash = ""]
    /\ attempts' = Append(attempts, [Attempt("consent") EXCEPT !.status = "succeeded"])
    /\ UNCHANGED <<proc, channel>>


MaySubmit == account.status \in {"not_connected", "rejected", "registered"}

\* The code lets a submission overlap a refresh; with Overlap FALSE the client waits for its own refresh.
ClientWaits == Overlap \/ \A q \in Requests : proc[q].pc \notin {"query", "recover"}

SubmitOnboarding(p) ==
    /\ proc[p].pc = "idle" /\ account.saved /\ MaySubmit /\ ClientWaits
    /\ ~ (account.user /\ HasAttempt("configure") /\ account.consent = "old")
    /\ \/ /\ account.status = "registered"
          /\ account' = [account EXCEPT !.consent = "current", !.status = "configuring"]
          /\ Begin(p, "configure", "configure")
       \/ /\ account.status # "registered" /\ ~account.user
          /\ account' = [account EXCEPT !.consent = "current", !.status = "registering"]
          /\ Begin(p, "register", "register")
    /\ UNCHANGED channel

\* The second transaction of a first submission, once the user number is stored.
ContinueConfigure(p) ==
    /\ proc[p].pc = "registered"
    /\ \/ /\ account.status = "registered"
          /\ account' = [account EXCEPT !.status = "configuring"]
          /\ Begin(p, "configure", "configure")
       \/ /\ account.status # "registered"
          /\ proc' = [proc EXCEPT ![p] = Idle]
          /\ UNCHANGED <<account, attempts>>
    /\ UNCHANGED channel

-----------------------------------------------------------------------------
(* The call reaches the channel, or does not *)

Reaches(p) ==
    /\ proc[p].pc \in {"register", "configure"}
    /\ channel' = IF proc[p].pc = "register"
                    THEN [channel EXCEPT !.users = @ + 1, !.materials = account.details]
                    ELSE [channel EXCEPT !.configures = @ + 1]
    /\ proc' = [proc EXCEPT ![p].pc = IF @ = "register" THEN "registerAnswer" ELSE "configureAnswer"]
    /\ UNCHANGED <<account, attempts>>

Uncertain(a) ==
    IF attempts[a].status # "sent" THEN UNCHANGED <<account, attempts>>
      ELSE /\ attempts' = [attempts EXCEPT ![a].status = "unknown"]
           /\ account' = IF account.status # "active" /\ account.audit \notin Reviewed
                           THEN [account EXCEPT !.status = "attention"] ELSE account

\* No reliable answer, whether or not the request was carried out.
AnswerLost(p) ==
    /\ proc[p].pc \in {"register", "configure", "registerAnswer", "configureAnswer", "query", "recover"}
    /\ Uncertain(proc[p].attempt)
    /\ proc' = [proc EXCEPT ![p] = Idle]
    /\ UNCHANGED channel

\* _execute on a registration carried out: the new user number is stored.
RegisterAccepted(p) ==
    /\ proc[p].pc = "registerAnswer"
    /\ account' = [account EXCEPT !.user = TRUE, !.status = "registered"]
    /\ attempts' = [attempts EXCEPT ![proc[p].attempt].status = "succeeded"]
    /\ proc' = [proc EXCEPT ![p] = [pc |-> "registered", attempt |-> 0]]
    /\ UNCHANGED channel

\* _execute on a registration the channel did not carry out: only three codes say so.
RegisterRefused(p) ==
    /\ proc[p].pc = "register"
    /\ \E s \in {"rejected", "unknown"} :
         /\ attempts' = [attempts EXCEPT ![proc[p].attempt].status = s]
         /\ account' = [account EXCEPT !.status = IF s = "rejected" THEN "rejected" ELSE "attention"]
    /\ proc' = [proc EXCEPT ![p] = Idle]
    /\ UNCHANGED channel

\* _business_statuses: each checked item is reported as S or F, or left out.
Reported(field, c) == IF c = "" THEN field ELSE c

ApplyConfigured(code, card, cash) ==
    IF account.audit \in Reviewed THEN account
      ELSE [account EXCEPT !.card = Reported(@, card), !.cash = Reported(@, cash),
                           !.status = IF code = "accepted" THEN "pending" ELSE "attention"]

\* _execute on a configuration: the answer may come after the notification of its audit.
ConfigureAnswered(p) ==
    /\ proc[p].pc \in {"configureAnswer", "configure"}
    /\ \E code \in {"accepted", "other"}, card, cash \in Checks :
         /\ proc[p].pc = "configure" => code = "other" /\ card = "" /\ cash = ""
         /\ account' = ApplyConfigured(code, card, cash)
         /\ attempts' = IF account.audit \in Reviewed THEN attempts
                          ELSE [attempts EXCEPT ![proc[p].attempt].status = IF code = "accepted" THEN "processing" ELSE "unknown"]
    /\ proc' = [proc EXCEPT ![p] = Idle]
    /\ UNCHANGED channel

-----------------------------------------------------------------------------
(* Refresh *)

\* No query while a submission or another query is on its way: five and two minutes outlast every call.
MayRefresh == account.consent # "" /\ ~InFlight({"register", "configure"}) /\ ~InFlight({"query", "recover"})

RefreshOnboarding(p) ==
    /\ proc[p].pc = "idle" /\ MayRefresh
    /\ IF account.user THEN Begin(p, "query", "query") ELSE Begin(p, "recover", "recover")
    /\ UNCHANGED <<account, channel>>

\* Exactly one user of the provider's certificate and name at the channel; the found user is queried next.
RecoverFound(p) ==
    /\ proc[p].pc = "recover" /\ channel.users = 1
    /\ Len(attempts) < MaxAttempts
    /\ attempts' = Append([attempts EXCEPT ![proc[p].attempt].status = "succeeded"], Attempt("query"))
    /\ proc' = [proc EXCEPT ![p] = [pc |-> "query", attempt |-> Len(attempts) + 1]]
    /\ UNCHANGED <<account, channel>>

\* verify_cash_configuration: every check is rebuilt from this answer.
Verified(auto, card, cash) == [account EXCEPT !.auto = auto, !.card = card, !.cash = cash]
Ready(auto, card, cash) == auto = "off" /\ card = "S" /\ cash = "S"

StatusAfterQuery(auto, card, cash) ==
    CASE ~HasAttempt("configure") -> "registered"
      [] HasAttempt("configure") /\ Ready(auto, card, cash) /\ account.consent = "current" /\ account.audit \notin {"P", "N"} -> "active"
      [] OTHER -> IF account.audit = "P" THEN "pending" ELSE "attention"

\* The answer to a query with the provider's own identity, applied to the account as it is by then.
QueryAnswered(p) ==
    /\ proc[p].pc = "query" /\ channel.users > 0
    /\ \E auto \in {"", "on", "off"}, card, cash \in Checks :
         account' = [(IF HasAttempt("configure") THEN Verified(auto, card, cash) ELSE account)
                       EXCEPT !.user = TRUE, !.status = StatusAfterQuery(auto, card, cash)]
    /\ attempts' = [attempts EXCEPT ![proc[p].attempt].status = "succeeded"]
    /\ proc' = [proc EXCEPT ![p] = Idle]
    /\ UNCHANGED channel

-----------------------------------------------------------------------------
(* Notifications: repeated, late and out of order *)

Notice == [audit : {"P", "Y", "N"}, card : Checks, cash : Checks, accepted : BOOLEAN]

\* Pending and reviewed notices about the configuration the channel holds.
Configures(a) == attempts[a].kind = "configure"

StatusAfterNotice(n) == IF n.audit = "N" \/ "F" \in {n.card, n.cash} \/ ~n.accepted THEN "attention" ELSE "pending"

ApplyNotice(n) ==
    IF account.audit \in Reviewed THEN account
      ELSE [account EXCEPT !.audit = n.audit, !.card = Reported(@, n.card), !.cash = Reported(@, n.cash),
                           !.status = StatusAfterNotice(n)]

\* receive_notification: a repeated notice is found by its digest and changes nothing, so each step is
\* a new one; it may be late, and a reviewed audit is not undone by it.
ReceiveNotification(a, n) ==
    /\ channel.configures > 0 /\ account.user /\ Configures(a)
    /\ account' = ApplyNotice(n)
    /\ attempts' = [attempts EXCEPT ![a].status = IF account.audit \in Reviewed THEN @ ELSE IF n.audit = "N" THEN "rejected" ELSE "processing"]
    /\ UNCHANGED <<proc, channel>>

-----------------------------------------------------------------------------
(* The process of a request dies; its attempt stays as sent until the waiting time is over. *)

Crash(p) ==
    /\ proc[p].pc # "idle"
    /\ proc' = [proc EXCEPT ![p] = Idle]
    /\ UNCHANGED <<account, attempts, channel>>

Age(a) ==
    /\ attempts[a].recent /\ attempts[a].status = "sent"
    /\ \A p \in Requests : proc[p].attempt # a
    /\ attempts' = [attempts EXCEPT ![a].recent = FALSE]
    /\ UNCHANGED <<account, proc, channel>>

-----------------------------------------------------------------------------

\* An empty start, or an account opened under the earlier terms.
Init ==
    /\ proc = [p \in Requests |-> Idle]
    /\ \/ /\ account = NoAccount /\ attempts = <<>>
          /\ channel = [users |-> 0, materials |-> "", configures |-> 0]
       \/ /\ account = [NoAccount EXCEPT !.saved = TRUE, !.details = "first", !.status = "attention", !.user = TRUE, !.consent = "old"]
          /\ attempts = <<[Attempt("configure") EXCEPT !.status = "processing"]>>
          /\ channel = [users |-> 1, materials |-> "first", configures |-> 1]

Next ==
    \/ \E d \in Materials : SaveReceivingAccount(d)
    \/ ClearReceivingAccount
    \/ RenewConsent
    \/ \E a \in 1 .. Len(attempts) : Age(a)
    \/ \E a \in 1 .. Len(attempts), n \in Notice : ReceiveNotification(a, n)
    \/ \E p \in Requests :
         \/ SubmitOnboarding(p) \/ Reaches(p) \/ AnswerLost(p)
         \/ RegisterAccepted(p) \/ RegisterRefused(p) \/ ContinueConfigure(p) \/ ConfigureAnswered(p)
         \/ RefreshOnboarding(p) \/ RecoverFound(p) \/ QueryAnswered(p)
         \/ Crash(p)

Spec == Init /\ [][Next]_vars

-----------------------------------------------------------------------------
(* Use of the account *)

\* manual_cash_account, its age and configuration checks aside.
Usable ==
    /\ account.auto = "off" /\ account.status = "active" /\ account.card = "S" /\ account.cash = "S"
    /\ account.audit \notin {"P", "N"} /\ account.consent = "current" /\ account.user

-----------------------------------------------------------------------------
(* Properties *)

TypeOK ==
    /\ account.status \in ChannelStatuses /\ account.audit \in AuditStates
    /\ account.card \in Checks /\ account.cash \in Checks /\ account.auto \in {"", "on", "off"}
    /\ account.consent \in {"", "old", "current"}
    /\ account.saved <=> account.details \in Materials
    /\ \A a \in 1 .. Len(attempts) : attempts[a].status \in {"sent", "unknown", "succeeded", "rejected", "processing"}
    /\ \A p \in Requests : proc[p].attempt \in 0 .. Len(attempts)

\* A provider is opened one user at the channel and sent one configuration, whatever is
\* submitted twice, lost, crashed or refreshed in between.
OpenedOnce == channel.users <= 1 /\ channel.configures <= 1

\* The stored materials are the ones the channel opened the user with.
MaterialsAreTheChannels == channel.users > 0 => account.saved /\ account.details = channel.materials

\* An active account is one the money paths accept up to its consent and its age: the channel's
\* last word on card, withdrawals and automatic settlement is good and no audit is open or lost.
ActiveIsUsable == account.status = "active" => (account.consent = "current" => Usable)

\* An account whose audit was lost is held for attention, whatever answer or query comes after.
LostAuditIsHeld == account.audit = "N" => account.status = "attention"

\* A known user number is never forgotten, and an audit the channel decided is never reopened.
NothingRolledBack == /\ account.user => account'.user
                     /\ account.audit \in Reviewed => account'.audit = account.audit
=============================================================================
