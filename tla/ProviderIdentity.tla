---------------------------- MODULE ProviderIdentity ----------------------------
(***************************************************************************)
(* The identity of one provider (providers/identity_verification.py and    *)
(* the identity part of providers/services.py): the provider saves photos, *)
(* a front photo is checked by Tencent outside any transaction, the answer *)
(* is applied under a lease and a fingerprint of the materials, and staff  *)
(* approve what was submitted.  Photos are model values; the number read   *)
(* from a photo is named by the photo itself.  The application form, which *)
(* stays open to a suspended provider, is modelled in ProviderOnboarding.  *)
(***************************************************************************)
EXTENDS Naturals, Sequences, FiniteSets

CONSTANTS Names,        \* real names the application may carry
          Fronts,       \* front photos of an identity card
          Rests,        \* the back photo and the selfie, taken together
          None,         \* a field that is empty
          Typed,        \* a number typed by the provider, not read from a photo
          DailyLimit    \* TENCENT_FACEID_DAILY_LIMIT; attempts are counted in one day

DailyLimitAssumption == DailyLimit \in Nat \ {0}

VARIABLES profile,  \* the identity columns of ProviderProfile
          account,  \* profile approved and account active
          checks,   \* ProviderIdentityCheck rows, oldest first
          calls,    \* attempts whose remote call has not returned: id -> photo and name sent
          faceid    \* settings.TENCENT_FACEID_ENABLED
vars == <<profile, account, checks, calls, faceid>>

Scopes == {"front", "all"}
ChannelOutcomes == {"passed", "failed", "error"}    \* of check_identity_photo
Numbers == Fronts \cup {Typed}
Recognised == {None} \cup [name : Names, number : Numbers]

Profiles == [name : Names, front : Fronts \cup {None}, rest : Rests \cup {None},
             recognised : Recognised, required : BOOLEAN,
             identity : {"unverified", "pending", "verified", "rejected"}]

Check(fp, scope) == [status |-> "processing", fp |-> fp, scope |-> scope,
                     age |-> "new", fresh |-> TRUE]

--------------------------------------------------------------------------------
(* What is looked at before anything is written.                            *)

fingerprint(p, scope) ==
    <<p.name, p.recognised, p.front, IF scope = "front" THEN None ELSE p.rest>>

matches_check(p, check) == check.fp = fingerprint(p, check.scope)

active_check(check) == check.status = "processing" /\ check.age # "old"

HasCheck == checks # <<>>
Latest == checks[Len(checks)]

ensure_not_checking == HasCheck => ~active_check(Latest)

Editable == profile.identity \in {"unverified", "rejected"}

validate_assets(scope) ==
    profile.front # None /\ (scope = "all" => profile.rest # None)

(* validate_identity_submission: what a manual submission must also carry.   *)
validate_identity_submission(auto) ==
    /\ Editable
    /\ profile.front # None /\ profile.rest # None
    /\ auto \/ (profile.recognised # None /\ profile.recognised.name = profile.name)

PassedCheck == HasCheck /\ Latest.status = "passed" /\ matches_check(profile, Latest)

require_verified_check == profile.required => (PassedCheck /\ validate_assets("all"))

mark_identity_submitted(p) == [p EXCEPT !.identity = "pending"]

--------------------------------------------------------------------------------
Init ==
    /\ profile \in [name : Names, front : {None}, rest : {None}, recognised : {None},
                    required : {FALSE}, identity : {"unverified"}]
    /\ account = TRUE /\ checks = <<>> /\ calls = <<>> /\ faceid \in BOOLEAN

(* save_provider_identity with photos only: recognised data of other         *)
(* materials is cleared.                                                     *)
NeedsCheck(mode) == mode = "photo" \/ faceid \/ profile.required

Changed(front, rest) ==
    \/ ~profile.required
    \/ front # profile.front
    \/ ~(HasCheck /\ Latest.scope = "front") /\ rest # profile.rest

SavePhotos(front, rest, mode) ==
    /\ account /\ ensure_not_checking /\ Editable
    /\ profile' = [profile EXCEPT
           !.front = front, !.rest = rest,
           !.required = @ \/ NeedsCheck(mode),
           !.recognised = IF NeedsCheck(mode) /\ Changed(front, rest) THEN None ELSE @,
           !.identity = "unverified"]
    /\ UNCHANGED <<account, checks, calls, faceid>>

(* save_provider_identity with a name and a number typed in: refused once    *)
(* the channel is to recognise them.                                         *)
SaveTyped(name) ==
    /\ account /\ ensure_not_checking /\ Editable /\ ~NeedsCheck("typed")
    /\ profile' = [profile EXCEPT !.recognised = [name |-> name, number |-> Typed],
                                  !.identity = "unverified"]
    /\ UNCHANGED <<account, checks, calls, faceid>>

(* submit_verified_identity: only submits, never calls the channel.          *)
SubmitVerified ==
    /\ account /\ validate_identity_submission(TRUE) /\ ensure_not_checking
    /\ profile.required /\ PassedCheck /\ Latest.fresh
    /\ profile' = mark_identity_submitted(profile)
    /\ UNCHANGED <<account, checks, calls, faceid>>

(* _run_identity_check, first transaction: a manual submission while the     *)
(* feature is off and no check was ever started.                             *)
SubmitManual ==
    /\ account /\ ensure_not_checking
    /\ ~NeedsCheck("manual") /\ validate_identity_submission(FALSE)
    /\ profile' = mark_identity_submitted(profile)
    /\ UNCHANGED <<account, checks, calls, faceid>>

Checkable(scope) ==
    /\ account /\ ensure_not_checking /\ faceid
    /\ validate_assets(scope)
    /\ IF scope = "front" THEN Editable ELSE validate_identity_submission(TRUE)

(* The same materials already passed: nothing is called again.               *)
ReuseCheck ==
    /\ Checkable("all") /\ PassedCheck /\ Latest.fresh
    /\ profile' = mark_identity_submitted(profile)
    /\ UNCHANGED <<account, checks, calls, faceid>>

(* Otherwise an attempt is registered; an unfinished one is given up first.   *)

GivenUp == [i \in DOMAIN checks |->
               IF i = Len(checks) /\ checks[i].status = "processing"
               THEN [checks[i] EXCEPT !.status = "error"] ELSE checks[i]]

StartCheck(scope) ==
    /\ Checkable(scope)
    /\ ~(PassedCheck /\ Latest.fresh)
    /\ HasCheck => Latest.age # "new"
    /\ Len(checks) < DailyLimit
    /\ checks' = Append(GivenUp, Check(fingerprint(profile, scope), scope))
    /\ calls' = [i \in DOMAIN calls \cup {Len(checks) + 1} |->
                    IF i \in DOMAIN calls THEN calls[i]
                    ELSE [name |-> profile.name, front |-> profile.front]]
    /\ profile' = [profile EXCEPT !.required = TRUE]
    /\ UNCHANGED <<account, faceid>>

Returned(i) == [j \in DOMAIN calls \ {i} |-> calls[j]]


Valid(i) ==
    /\ i = Len(checks) /\ active_check(checks[i])
    /\ matches_check(profile, checks[i])
    /\ account /\ Editable

Recognise(i) == [profile EXCEPT !.recognised =
                    [name |-> calls[i].name, number |-> calls[i].front]]

(* The receipt keeps the fingerprint of the materials with what was read.    *)

Receipt(i, p) == [checks[i] EXCEPT !.status = "passed",
                                   !.fp = fingerprint(p, checks[i].scope)]

AnswerPassed(i) ==
    /\ i \in DOMAIN calls /\ Valid(i) /\ calls[i].name = profile.name
    /\ checks' = [checks EXCEPT ![i] = Receipt(i, Recognise(i))]
    /\ profile' = IF checks[i].scope = "front" THEN Recognise(i)
                  ELSE mark_identity_submitted(Recognise(i))
    /\ calls' = Returned(i)
    /\ UNCHANGED <<account, faceid>>

(* The channel refused or failed, or its answer came too late.               *)

AnswerOther(i, status) ==
    /\ i \in DOMAIN calls
    /\ ~Valid(i) => status = "error"
    /\ checks' = [checks EXCEPT ![i].status = status]
    /\ calls' = Returned(i)
    /\ UNCHANGED <<profile, account, faceid>>

(* The worker dies in the call: the attempt stays in processing.             *)
CallLost(i) ==
    /\ i \in DOMAIN calls
    /\ calls' = Returned(i)
    /\ UNCHANGED <<profile, account, checks, faceid>>

--------------------------------------------------------------------------------
(* Staff.                                                                    *)

SameName == profile.recognised # None /\ profile.recognised.name = profile.name

(* review_provider_onboarding's part for the identity.                       *)
ApproveOnboarding ==
    /\ profile.identity = "pending" /\ SameName /\ require_verified_check
    /\ profile' = [profile EXCEPT !.identity = "verified"]
    /\ UNCHANGED <<account, checks, calls, faceid>>

(* review_provider_identity: a provider opened before identities were kept.  *)
ApproveIdentity ==
    /\ account /\ profile.identity = "pending" /\ require_verified_check
    /\ profile' = [profile EXCEPT !.identity = "verified"]
    /\ UNCHANGED <<account, checks, calls, faceid>>

RejectIdentity ==
    /\ profile.identity = "pending"
    /\ profile' = [profile EXCEPT !.identity = "rejected"]
    /\ UNCHANGED <<account, checks, calls, faceid>>

(* correct_provider_application_name.                                        *)

CorrectName(name) ==
    /\ account /\ ensure_not_checking /\ Editable /\ name # profile.name
    /\ profile' = [profile EXCEPT !.name = name]
    /\ UNCHANGED <<account, checks, calls, faceid>>

(* Staff suspend or restore the account or the qualification.                *)
ChangeAccount ==
    /\ account' = ~account
    /\ UNCHANGED <<profile, checks, calls, faceid>>

(* The feature is switched by a deployment.                                  *)
ToggleFeature ==
    /\ faceid' = ~faceid
    /\ UNCHANGED <<profile, account, checks, calls>>

--------------------------------------------------------------------------------
(* The clock: 30 seconds, then LEASE after the attempt was created, then 24  *)
(* hours after it was completed.                                             *)

Aged(check) ==
    IF check.age = "new" THEN [check EXCEPT !.age = "leased"]
    ELSE IF check.age = "leased" THEN [check EXCEPT !.age = "old"]
    ELSE [check EXCEPT !.fresh = FALSE]

Tick ==
    /\ HasCheck
    /\ Latest.age = "old" => Latest.status = "passed"
    /\ checks' = [checks EXCEPT ![Len(checks)] = Aged(@)]
    /\ checks' # checks
    /\ UNCHANGED <<profile, account, calls, faceid>>

Next ==
    \/ \E front \in Fronts, rest \in Rests \cup {None}, mode \in {"photo", ""} :
           SavePhotos(front, rest, mode)
    \/ \E name \in Names : SaveTyped(name) \/ CorrectName(name)
    \/ SubmitVerified \/ SubmitManual \/ ReuseCheck
    \/ \E scope \in Scopes : StartCheck(scope)
    \/ \E i \in 1..DailyLimit :
           \/ AnswerPassed(i) \/ CallLost(i)
           \/ \E status \in ChannelOutcomes \ {"passed"} : AnswerOther(i, status)
    \/ ApproveOnboarding \/ ApproveIdentity \/ RejectIdentity
    \/ ChangeAccount \/ ToggleFeature \/ Tick

Spec == Init /\ [][Next]_vars

(* The clock runs whatever anybody does.                                     *)
LiveSpec == Spec /\ WF_vars(Tick)

--------------------------------------------------------------------------------
(* The columns hold what the models allow; an attempt in flight has a row.    *)
TypeOK ==
    /\ profile \in Profiles /\ account \in BOOLEAN /\ faceid \in BOOLEAN
    /\ Len(checks) <= DailyLimit /\ DOMAIN calls \subseteq DOMAIN checks
    /\ \A i \in DOMAIN checks :
           /\ checks[i].status \in {"processing"} \cup ChannelOutcomes
           /\ checks[i].age \in {"new", "leased", "old"} /\ checks[i].scope \in Scopes


(* An identity in the queue can be approved: the gate of both reviews still   *)
(* holds for it, because nothing the receipt covers changes while it waits.   *)
SubmittedIsApprovable ==
    profile.identity = "pending" => (SameName /\ require_verified_check)

(* A verified identity of a provider who had to be verified stays backed by   *)
(* the latest receipt, so that staff can always show what it rests on.        *)
VerifiedKeepsReceipt ==
    (profile.required /\ profile.identity = "verified") => PassedCheck

(* Only the latest attempt can be in processing: at most one paid call is      *)
(* waited for, and one that was given up is marked so.                        *)
OneProcessing ==
    \A i \in DOMAIN checks : checks[i].status = "processing" => i = Len(checks)

(* An attempt whose worker died does not lock the provider out of editing.    *)
NotLockedOut == ~ensure_not_checking ~> ensure_not_checking
================================================================================
