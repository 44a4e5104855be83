----------------------------- MODULE AccountClosure -----------------------------
(***************************************************************************)
(* One account: sessions, credentials, closure with its waiting period and *)
(* the measures of staff (accounts/account_closure.py, views.py,           *)
(* serializers.py, tasks.py; config/authentication.py).  Requests pass     *)
(* authentication first and take the user's row lock later.  The closing   *)
(* worker holds that lock while it reads one kind of obligation after      *)
(* another; obligations of the account move on meanwhile, because the      *)
(* database is read committed and most of them never lock the user.        *)
(***************************************************************************)
EXTENDS Naturals, Sequences, FiniteSets

CONSTANTS MaxVersion,   \* bound: auth_version
          MaxRequests,  \* bound: closure requests
          MaxInFlight,  \* bound: requests between authentication and their lock
          MaxCrashes    \* bound: closing workers that die

BoundsAssumption == {MaxVersion, MaxRequests, MaxInFlight, MaxCrashes} \subseteq Nat

VARIABLES user,      \* status, is_active, auth_version, whether a password is set
          requests,  \* AccountClosureRequest rows, oldest first, with "deadline reached"
          owes,      \* chain of obligations -> the stage it is in
          passed,    \* requests that passed authentication: kind, and version where compared
          token,     \* auth_version of the newest token handed out (older ones carry less)
          worker,    \* closing worker: next kind to read, what it found, what is owed
                     \* since it took the lock (history)
          crashes
vars == <<user, requests, owes, passed, token, worker, crashes>>

(* "own" begins with business of the user, "other" with a counterparty's case. *)
Chains == {"own", "other"}

(* The kinds of obligations in the order account_closure_blockers reads them.  *)
Kinds == <<"wallet", "order", "refund", "case", "settlement">>
KindsOf(stage) == IF stage = "none" THEN {}
                  ELSE IF stage = "case refund" THEN {"refund", "case"} ELSE {stage}

Asleep == [next |-> 0, found |-> FALSE, before |-> {}]
Free == worker.next = 0

Init ==
    /\ user \in [status : {"active"}, active : {TRUE}, version : {1}, password : BOOLEAN]
    /\ requests = <<>> /\ owes = [c \in Chains |-> "none"]
    /\ passed = {} /\ token = 0 /\ worker = Asleep /\ crashes = 0

Active == user.active /\ user.status = "active"
Open(r) == r \in DOMAIN requests /\ requests[r].status \in {"pending", "blocked"}
OpenRequests == {r \in DOMAIN requests : Open(r)}

--------------------------------------------------------------------------------
(* Sessions.                                                                  *)

Pass(kind, version) ==
    /\ Cardinality(passed) < MaxInFlight
    /\ passed' = passed \cup {<<kind, version>>}

(* VersionedJWTAuthentication: the token's version is the account's.           *)
Authenticate(kind) ==
    /\ user.version = token /\ Active
    /\ Pass(kind, IF kind = "initial" THEN user.version ELSE 0)
    /\ UNCHANGED <<user, requests, owes, token, worker, crashes>>

can_attempt_interactive_login == Active \/ (user.status = "closure_pending" /\ ~user.active)

(* A verified password, SMS code or WeChat identity, before the lock is taken. *)
BeginLogin ==
    /\ can_attempt_interactive_login
    /\ Pass("login", 0)
    /\ UNCHANGED <<user, requests, owes, token, worker, crashes>>

(* revoke_sessions, invalidate_user_sessions.                                  *)
Revoked(u) == [u EXCEPT !.version = @ + 1]

Reactivated == Revoked([user EXCEPT !.status = "active", !.active = TRUE])

(* withdraw_closure_on_verified_login: only before the deadline.               *)

MayWithdraw == \E r \in OpenRequests : ~requests[r].due

Withdraw ==
    /\ user' = Reactivated
    /\ requests' = [r \in DOMAIN requests |->
           IF Open(r) THEN [requests[r] EXCEPT !.status = "cancelled"] ELSE requests[r]]
    /\ token' = user'.version

(* auth_payload with interactive_login.                                        *)
FinishLogin ==
    /\ <<"login", 0>> \in passed /\ Free /\ user.version < MaxVersion
    /\ passed' = passed \ {<<"login", 0>>}
    /\ \/ user.status = "closure_pending" /\ MayWithdraw /\ Withdraw
       \/ Active /\ token' = user.version /\ UNCHANGED <<user, requests>>
       \/ /\ ~Active /\ ~(user.status = "closure_pending" /\ MayWithdraw)
          /\ UNCHANGED <<user, requests, token>>
    /\ UNCHANGED <<owes, worker, crashes>>

(* A request that passed authentication goes on under the user's lock.         *)
Go(kind, version) ==
    /\ <<kind, version>> \in passed /\ Free
    /\ passed' = passed \ {<<kind, version>>}
    /\ UNCHANGED <<worker, crashes>>

(* A new password or phone and "log out elsewhere" invalidate every session    *)
(* and hand out a new one; the transaction fails when the account is not active.*)
Rotate ==
    /\ Go("security", 0) /\ user.version < MaxVersion
    /\ IF Active THEN user' = Revoked(user) /\ token' = user'.version
       ELSE UNCHANGED <<user, token>>
    /\ UNCHANGED <<requests, owes>>

ChangePassword == user.password /\ Rotate
ChangePhone == Rotate
LogoutOthers == user.password /\ Rotate

(* The first password: not when the version moved since authentication.        *)
InitialPassword(v) ==
    /\ Go("initial", v) /\ user.version < MaxVersion
    /\ IF Active /\ v = user.version /\ ~user.password
       THEN user' = [Revoked(user) EXCEPT !.password = TRUE] /\ token' = user'.version
       ELSE UNCHANGED <<user, token>>
    /\ UNCHANGED <<requests, owes>>

(* ResetPasswordView needs no session and looks at no status.                  *)
ResetPassword ==
    /\ Free /\ user.version < MaxVersion
    /\ user' = [Revoked(user) EXCEPT !.password = TRUE]
    /\ UNCHANGED <<requests, owes, passed, token, worker, crashes>>

--------------------------------------------------------------------------------
(* Business and obligations.                                                  *)

(* lock_active_user_for_business looks at the account again under the lock.    *)

lock_active_user_for_business == Active

CreateBusiness ==
    /\ owes["own"] = "none" /\ Go("business", 0)
    /\ owes' = IF lock_active_user_for_business THEN [owes EXCEPT !["own"] = "order"] ELSE owes
    /\ UNCHANGED <<user, requests, token>>


WalletLock == Free

(* Where an obligation may go next.                                            *)
After == [stage \in {"none", "order", "refund", "case", "case refund", "settlement", "wallet"} |->
    CASE stage = "none" -> {}
      [] stage = "order" -> {"refund", "settlement", "none"}
      [] stage = "refund" -> {"wallet", "none"}
      [] stage = "case" -> {"case refund", "none"}
      [] stage = "case refund" -> {"wallet", "none"}
      [] OTHER -> {"none"}]

Proceed(c) ==
    \E stage \in After[owes[c]] :
        /\ "wallet" \in {stage, owes[c]} => WalletLock
        /\ owes' = [owes EXCEPT ![c] = stage]
        /\ worker' = IF stage = "none" THEN [worker EXCEPT !.before = @ \ {c}] ELSE worker
        /\ UNCHANGED <<user, requests, passed, token, crashes>>

(* The other party of a finished order opens a case, whatever this account is. *)
CaseOpened ==
    /\ owes["other"] = "none" /\ user.status # "closed"
    /\ owes' = [owes EXCEPT !["other"] = "case"]
    /\ UNCHANGED <<user, requests, passed, token, worker, crashes>>

--------------------------------------------------------------------------------
(* Closure.                                                                   *)

blockers == UNION {KindsOf(owes[c]) : c \in Chains}

Requested == Revoked([user EXCEPT !.status = "closure_pending", !.active = FALSE])

request_account_closure ==
    /\ Go("close", 0) /\ user.version < MaxVersion /\ Len(requests) < MaxRequests
    /\ IF Active /\ user.password /\ blockers = {} /\ OpenRequests = {}
       THEN /\ user' = Requested
            /\ requests' = Append(requests, [status |-> "pending", due |-> FALSE])
       ELSE UNCHANGED <<user, requests>>
    /\ UNCHANGED <<owes, token>>

(* closure_deadline is reached.                                                *)
Deadline(r) ==
    /\ Open(r) /\ ~requests[r].due
    /\ requests' = [requests EXCEPT ![r].due = TRUE]
    /\ UNCHANGED <<user, owes, passed, token, worker, crashes>>

(* process_account_closure: the user is locked, then the request is looked up. *)

process_account_closure ==
    /\ Free /\ user.status = "closure_pending" /\ user.version < MaxVersion
    /\ \E r \in OpenRequests : requests[r].due
    /\ worker' = [next |-> 1, found |-> FALSE, before |-> {c \in Chains : owes[c] # "none"}]
    /\ UNCHANGED <<user, requests, owes, passed, token, crashes>>

ReadBlockers ==
    /\ ~Free /\ worker.next <= Len(Kinds)
    /\ worker' = [worker EXCEPT !.next = @ + 1,
                     !.found = @ \/ \E c \in Chains : Kinds[worker.next] \in KindsOf(owes[c])]
    /\ UNCHANGED <<user, requests, owes, passed, token, crashes>>

(* Every row it read goes with the request; only then are user and request saved.*)
Outcome(status) == [r \in DOMAIN requests |->
    IF Open(r) THEN [requests[r] EXCEPT !.status = status] ELSE requests[r]]

Close ==
    /\ worker.next > Len(Kinds) /\ ~worker.found
    /\ user' = Revoked([user EXCEPT !.status = "closed", !.active = FALSE])
    /\ requests' = Outcome("completed") /\ worker' = Asleep
    /\ UNCHANGED <<owes, passed, token, crashes>>

Blocked ==
    /\ worker.next > Len(Kinds) /\ worker.found
    /\ requests' = Outcome("blocked") /\ worker' = Asleep
    /\ UNCHANGED <<user, owes, passed, token, crashes>>

(* The transaction of a worker that dies is rolled back.                       *)
WorkerDies ==
    /\ ~Free /\ crashes < MaxCrashes
    /\ worker' = Asleep /\ crashes' = crashes + 1
    /\ UNCHANGED <<user, requests, owes, passed, token>>

(* change_user_account_status: a pending closure and a closed account are not   *)
(* in any transition of staff.                                                 *)
Transitions ==
    {<<"active", "restricted">>, <<"active", "suspended">>, <<"restricted", "suspended">>,
     <<"restricted", "active">>, <<"suspended", "active">>}

change_user_account_status(target) ==
    /\ Free /\ user.version < MaxVersion
    /\ <<user.status, target>> \in Transitions
    /\ user' = Revoked([user EXCEPT !.status = target])
    /\ UNCHANGED <<requests, owes, passed, token, worker, crashes>>

Worker == process_account_closure \/ ReadBlockers \/ Close \/ Blocked

Next ==
    \/ \E kind \in {"business", "close", "security", "initial"} : Authenticate(kind)
    \/ BeginLogin \/ FinishLogin \/ ResetPassword
    \/ ChangePassword \/ ChangePhone \/ LogoutOthers \/ CreateBusiness \/ request_account_closure
    \/ \E v \in 1..MaxVersion : InitialPassword(v)
    \/ \E c \in Chains : Proceed(c)
    \/ CaseOpened \/ Worker \/ WorkerDies
    \/ \E r \in 1..MaxRequests : Deadline(r)
    \/ \E target \in {"active", "restricted", "suspended"} : change_user_account_status(target)

Spec == Init /\ [][Next]_vars

(* Beat starts the worker every minute, and a deadline passes by itself.       *)
LiveSpec == Spec /\ WF_vars(Worker) /\ \A r \in 1..MaxRequests : WF_vars(Deadline(r))

--------------------------------------------------------------------------------
(* The columns hold what the models allow, and status, flag and open request   *)
(* tell the same story: at most one request is open, exactly while the account *)
(* waits for its closure, and a closed account has a completed one.            *)
TypeOK ==
    /\ user.status \in {"active", "restricted", "suspended", "closure_pending", "closed"}
    /\ user.active <=> user.status \notin {"closure_pending", "closed"}
    /\ Cardinality(OpenRequests) = IF user.status = "closure_pending" THEN 1 ELSE 0
    /\ user.status = "closed" <=> \E r \in DOMAIN requests : requests[r].status = "completed"

(* A token of the present version exists only for an active account: sessions  *)
(* end with a restriction and a closure request, and no login that was under   *)
(* way, rotation or reset brings one back.                                     *)
SessionsEnd == user.version = token => user.status = "active"


(* While the account waits for its closure it takes on no business of its own. *)
NoBusinessWhileClosing ==
    (owes["own"] = "none" /\ owes'["own"] # "none") => user.status = "active"

(* After the deadline a closure can no longer be withdrawn, not even by a      *)
(* login that was verified before it.                                          *)
DeadlineStands ==
    \A r \in DOMAIN requests :
       (Open(r) /\ requests[r].due) => requests'[r].status # "cancelled"

(* A closure that is due is completed, or finds something owed.                *)
Due == user.status = "closure_pending" /\ \E r \in OpenRequests : requests[r].due
ClosedOrOwing ==
    user.status = "closed" \/ (\E c \in Chains : owes[c] # "none") \/ user.version >= MaxVersion
DueIsClosed == Due ~> ClosedOrOwing
================================================================================
