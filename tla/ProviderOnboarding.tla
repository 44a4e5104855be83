--------------------------- MODULE ProviderOnboarding ---------------------------
(***************************************************************************)
(* One provider from the application to receiving orders                   *)
(* (providers/services.py, training.py, presence.py and the reviews of     *)
(* backoffice/services.py).  What is shown to customers is a model value   *)
(* (the profile's text and photos taken together); a category stands for   *)
(* one service of it; the identity is checked in ProviderIdentity and is   *)
(* here only a status.                                                     *)
(***************************************************************************)
EXTENDS Naturals, FiniteSets

CONSTANTS Categories,      \* service categories
          Contents,        \* versions of the public profile
          None,
          MaxSessions,     \* bound: times the provider goes online
          MaxCourses,      \* bound: published versions of the course
          SuspendedEdits   \* whether a suspended provider uses the application form

BoundsAssumption == MaxSessions \in Nat /\ MaxCourses \in Nat \ {0}

VARIABLES p,        \* the ProviderProfile row
          services, \* ProviderService: category -> none, active or disabled
          changes,  \* categories with a pending ProviderServiceRevision
          offered,  \* categories that are active and whose range holds the price
          city,     \* the service city is open
          account,  \* the user's account is active
          course,   \* the active course version and the one the provider has read
          online,   \* ProviderLiveLocation: session, whether it is recent, last id given
          asked,    \* a start request has passed its view and waits for the row lock
          reviewed  \* contents a member of staff has approved (history)
vars == <<p, services, changes, offered, city, account, course, online, asked, reviewed>>
(* Groups the actions leave alone together. *)
shopVars == <<services, changes>>
worldVars == <<offered, city, account, course>>
onlineVars == <<online, asked>>

Profile(app, identity, onboarding, live, grants, trained) ==
    [app |-> app, identity |-> identity, onboarding |-> onboarding, live |-> live,
     pending |-> None, grants |-> grants, trained |-> trained,
     accepting |-> FALSE, restricted |-> FALSE]

(* A new provider; one from before the reviews who was complete, and one who *)
(* had services but was not: migration 0014 gave both their grants.          *)
Init ==
    /\ \/ /\ p = Profile("draft", "unverified", "incomplete", None, {}, FALSE)
          /\ services = [c \in Categories |-> "none"] /\ reviewed = {}
       \/ \E c \in Categories, old \in Contents :
             /\ services = [x \in Categories |-> IF x = c THEN "active" ELSE "none"]
             /\ p \in {Profile("approved", "verified", "approved", old, {c}, TRUE),
                       Profile("approved", "verified", "incomplete", old, {c}, FALSE)}
             /\ reviewed = {old}
    /\ changes = {} /\ offered = Categories /\ city = TRUE /\ account = TRUE
    /\ course = [version |-> 1, read |-> 0]
    /\ online = [session |-> 0, recent |-> FALSE, last |-> 0] /\ asked = FALSE

--------------------------------------------------------------------------------
(* The application.                                                          *)

save_provider_application(content) ==
    /\ p.app \notin {"pending", "approved"}
    /\ p.app = "suspended" => SuspendedEdits
    /\ p' = [p EXCEPT !.live = content, !.app = IF @ = "rejected" THEN "draft" ELSE @]
    /\ UNCHANGED <<shopVars, worldVars, onlineVars, reviewed>>

submit_provider_application ==
    /\ p.app \in {"draft", "rejected"} /\ p.live # None /\ city
    /\ p' = [p EXCEPT !.app = "pending"]
    /\ UNCHANGED <<shopVars, worldVars, onlineVars, reviewed>>

(* review_provider_application: approval grants the chosen categories.       *)
ApproveApplication(cats) ==
    /\ p.app = "pending" /\ city /\ cats \subseteq offered
    /\ p' = [p EXCEPT !.app = "approved", !.grants = cats, !.accepting = FALSE]
    /\ reviewed' = reviewed \cup {p.live}
    /\ UNCHANGED <<shopVars, worldVars, onlineVars>>

RejectApplication ==
    /\ p.app = "pending"
    /\ p' = [p EXCEPT !.app = "rejected"]
    /\ UNCHANGED <<shopVars, worldVars, onlineVars, reviewed>>

--------------------------------------------------------------------------------
(* Materials for the opening, and the queue they lead to.                    *)

Ready(q, pendingServices) ==
    /\ q.onboarding \notin {"approved", "pending_review"}
    /\ q.identity \in {"pending", "verified"}
    /\ q.pending # None /\ pendingServices # {}

maybe_submit_provider_onboarding(q, pendingServices) ==
    IF Ready(q, pendingServices)
    THEN [q EXCEPT !.onboarding = "pending_review", !.accepting = FALSE] ELSE q

InProviderApp == p.app = "approved" /\ account    \* current_approved_provider

submit_provider_profile_revision(content) ==
    /\ InProviderApp /\ p.pending = None /\ city
    /\ p' = maybe_submit_provider_onboarding([p EXCEPT !.pending = content], changes)
    /\ UNCHANGED <<shopVars, worldVars, onlineVars, reviewed>>

submit_provider_service_revision(c) ==
    /\ InProviderApp /\ c \in p.grants /\ c \notin changes /\ c \in offered
    /\ changes' = changes \cup {c}
    /\ p' = maybe_submit_provider_onboarding(p, changes')
    /\ UNCHANGED <<services, worldVars, onlineVars, reviewed>>

(* disable_provider_service: at once, and its pending change ends with it.   *)
disable_provider_service(c) ==
    /\ InProviderApp /\ services[c] # "none"
    /\ services' = [services EXCEPT ![c] = "disabled"]
    /\ changes' = changes \ {c}
    /\ UNCHANGED <<p, worldVars, onlineVars, reviewed>>

mark_identity_submitted ==
    /\ InProviderApp /\ p.identity \in {"unverified", "rejected"}
    /\ p' = maybe_submit_provider_onboarding(
                [p EXCEPT !.identity = "pending", !.accepting = FALSE], changes)
    /\ UNCHANGED <<shopVars, worldVars, onlineVars, reviewed>>

--------------------------------------------------------------------------------
(* Reviews by staff.                                                         *)

(* _validate_service_revision_for_approval: the grant and the category of    *)
(* today, not of the day the change was submitted.                           *)

Approvable(cs) == cs \subseteq (offered \cap p.grants)

Applied(cs) == [c \in Categories |-> IF c \in cs THEN "active" ELSE services[c]]

Reviewable ==
    /\ p.onboarding = "pending_review"
    /\ p.pending # None /\ changes # {} /\ p.identity \in {"pending", "verified"}

ApproveOnboarding ==
    /\ Reviewable /\ city /\ Approvable(changes)
    /\ services' = Applied(changes) /\ changes' = {}
    /\ reviewed' = reviewed \cup {p.pending}
    /\ p' = [p EXCEPT !.live = p.pending, !.pending = None, !.identity = "verified",
                      !.onboarding = "approved", !.accepting = FALSE]
    /\ UNCHANGED <<worldVars, onlineVars>>

(* A rejection takes back only an identity that was still waiting.           *)

RejectedIdentity(identity) == IF identity = "pending" THEN "rejected" ELSE identity

RejectOnboarding ==
    /\ Reviewable
    /\ changes' = {}
    /\ p' = [p EXCEPT !.pending = None, !.identity = RejectedIdentity(@),
                      !.onboarding = "rejected", !.accepting = FALSE]
    /\ UNCHANGED <<services, worldVars, onlineVars, reviewed>>

(* review_provider_profile_revision and review_provider_service_revision:     *)
(* only once the provider was opened.                                        *)

ReviewProfile(approve) ==
    /\ p.pending # None /\ p.onboarding = "approved"
    /\ approve => city
    /\ p' = [p EXCEPT !.live = IF approve THEN p.pending ELSE @, !.pending = None]
    /\ reviewed' = IF approve THEN reviewed \cup {p.pending} ELSE reviewed
    /\ UNCHANGED <<shopVars, worldVars, onlineVars>>

ReviewService(c, approve) ==
    /\ c \in changes /\ p.onboarding = "approved"
    /\ approve => Approvable({c})
    /\ services' = IF approve THEN Applied({c}) ELSE services
    /\ changes' = changes \ {c}
    /\ UNCHANGED <<p, worldVars, onlineVars, reviewed>>

--------------------------------------------------------------------------------
(* The course before the first order.                                        *)

complete_training_lesson ==
    /\ InProviderApp /\ course.read # course.version
    /\ course' = [course EXCEPT !.read = course.version]
    /\ UNCHANGED <<p, shopVars, offered, city, account, onlineVars, reviewed>>

(* Wrong answers leave only an attempt row.                                  *)
submit_training_answers ==
    /\ InProviderApp /\ ~p.trained /\ course.read = course.version
    /\ p' = [p EXCEPT !.trained = TRUE]
    /\ UNCHANGED <<shopVars, worldVars, onlineVars, reviewed>>

publish_training ==
    /\ course.version < MaxCourses /\ ~p.trained
    /\ course' = [course EXCEPT !.version = @ + 1]
    /\ UNCHANGED <<p, shopVars, offered, city, account, onlineVars, reviewed>>

--------------------------------------------------------------------------------
(* Being online.                                                             *)

(* provider_profile_blockers.                                                *)

Unblocked ==
    /\ p.onboarding = "approved" /\ p.identity = "verified" /\ p.live # None /\ city
    /\ \E c \in offered : services[c] = "active"
    /\ ~p.restricted /\ p.trained

(* The view looks at account and application before the row is locked.       *)
AskOnline ==
    /\ InProviderApp /\ ~asked /\ online.last < MaxSessions
    /\ asked' = TRUE
    /\ UNCHANGED <<p, shopVars, worldVars, online, reviewed>>

start_provider_online ==
    /\ asked /\ Unblocked
    /\ online' = [session |-> online.last + 1, recent |-> TRUE, last |-> online.last + 1]
    /\ p' = [p EXCEPT !.accepting = TRUE]
    /\ asked' = FALSE
    /\ UNCHANGED <<shopVars, worldVars, reviewed>>

StartRefused ==
    /\ asked /\ ~Unblocked
    /\ asked' = FALSE
    /\ UNCHANGED <<p, shopVars, worldVars, online, reviewed>>

(* A device reports its position under a session it was given.               *)
update_provider_live_location(session) ==
    /\ InProviderApp /\ p.accepting /\ ~p.restricted
    /\ session \in 1..online.last /\ online.session = session /\ ~online.recent
    /\ online' = [online EXCEPT !.recent = TRUE]
    /\ UNCHANGED <<p, shopVars, worldVars, asked, reviewed>>

stop_provider_online ==
    /\ InProviderApp /\ p.accepting
    /\ p' = [p EXCEPT !.accepting = FALSE]
    /\ online' = [online EXCEPT !.session = 0]
    /\ UNCHANGED <<shopVars, worldVars, asked, reviewed>>

LocationTimeout ==
    /\ p.accepting /\ online.recent
    /\ online' = [online EXCEPT !.recent = FALSE]
    /\ UNCHANGED <<p, shopVars, worldVars, asked, reviewed>>

(* provider_is_online.                                                       *)
provider_is_online ==
    /\ p.app = "approved" /\ p.onboarding = "approved" /\ p.identity = "verified"
    /\ p.live # None /\ p.accepting /\ p.trained /\ ~p.restricted /\ account /\ city
    /\ online.session # 0 /\ online.recent

--------------------------------------------------------------------------------
(* Measures of staff.                                                        *)

(* change_provider_operational_status: every one of the four takes the       *)
(* provider offline.                                                         *)

Measures(app, restricted) ==
    /\ p' = [p EXCEPT !.app = app, !.restricted = restricted, !.accepting = FALSE]
    /\ online' = [online EXCEPT !.session = 0]

change_provider_operational_status ==
    /\ \/ p.app = "approved" /\ ~p.restricted /\ Measures("approved", TRUE)
       \/ p.app = "approved" /\ p.restricted /\ Measures("approved", FALSE)
       \/ p.app = "approved" /\ Measures("suspended", TRUE)
       \/ p.app = "suspended" /\ Measures("approved", FALSE)
    /\ UNCHANGED <<shopVars, worldVars, asked, reviewed>>

(* change_user_account_status: taking the account away also ends the session.*)
change_user_account_status ==
    /\ account' = ~account
    /\ IF account
       THEN /\ p' = [p EXCEPT !.accepting = FALSE]
            /\ online' = [online EXCEPT !.session = 0]
       ELSE UNCHANGED <<p, online>>
    /\ UNCHANGED <<shopVars, offered, city, course, asked, reviewed>>

(* Operations closes or opens a category or the city.                        *)
ConfigureCategory(c) ==
    /\ offered' = IF c \in offered THEN offered \ {c} ELSE offered \cup {c}
    /\ UNCHANGED <<p, shopVars, city, account, course, onlineVars, reviewed>>

ConfigureCity ==
    /\ city' = ~city
    /\ UNCHANGED <<p, shopVars, offered, account, course, onlineVars, reviewed>>

Next ==
    \/ \E content \in Contents :
           save_provider_application(content) \/ submit_provider_profile_revision(content)
    \/ submit_provider_application \/ RejectApplication
    \/ \E cats \in SUBSET Categories \ {{}} : ApproveApplication(cats)
    \/ \E c \in Categories :
           \/ submit_provider_service_revision(c) \/ disable_provider_service(c)
           \/ ConfigureCategory(c)
           \/ \E approve \in BOOLEAN : ReviewService(c, approve)
    \/ mark_identity_submitted \/ ApproveOnboarding \/ RejectOnboarding
    \/ \E approve \in BOOLEAN : ReviewProfile(approve)
    \/ complete_training_lesson \/ submit_training_answers \/ publish_training
    \/ AskOnline \/ start_provider_online \/ StartRefused \/ stop_provider_online
    \/ \E s \in 1..MaxSessions : update_provider_live_location(s)
    \/ LocationTimeout
    \/ change_provider_operational_status \/ change_user_account_status \/ ConfigureCity

Spec == Init /\ [][Next]_vars

--------------------------------------------------------------------------------
(* The columns hold what the models allow.                                    *)
TypeOK ==
    /\ p.app \in {"draft", "pending", "approved", "rejected", "suspended"}
    /\ p.identity \in {"unverified", "pending", "verified", "rejected"}
    /\ p.onboarding \in {"incomplete", "pending_review", "approved", "rejected"}
    /\ p.live \in Contents \cup {None} /\ p.pending \in Contents \cup {None}
    /\ services \in [Categories -> {"none", "active", "disabled"}]
    /\ changes \subseteq Categories /\ online.session \in {0, online.last}

(* A provider in the opening queue has a profile, a service and an identity   *)
(* for staff to decide on; only the provider's own disabling of a service     *)
(* can take the last service out of the queue, since single reviews wait for  *)
(* the opening.                                                               *)
QueueReviewable ==
    p.onboarding = "pending_review" =>
        /\ p.pending # None /\ p.identity \in {"pending", "verified"}
        /\ changes # {} \/ \E c \in Categories : services[c] = "disabled"

(* An opened provider has a verified identity and a profile: staff never has  *)
(* to review the identity of an opened provider again.                        *)
OpenedIsVerified ==
    p.onboarding = "approved" => (p.identity = "verified" /\ p.live # None)

(* The flag that bookings look at is never set for a provider who may not     *)
(* take orders, also when a start request that was admitted earlier meets a   *)
(* restriction or a suspension at the row lock.                               *)
AcceptingIsCleared ==
    p.accepting =>
        /\ p.app = "approved" /\ p.onboarding = "approved" /\ p.identity = "verified"
        /\ ~p.restricted /\ p.trained


(* An identity once verified is not lost by a rejected profile or service.    *)
IdentityKept == p.identity = "verified" => p'.identity = "verified"

(* A service goes live only in a category that is offered and granted at that *)
(* moment, although the change was submitted earlier.                         *)
LiveOnlyWhileOffered ==
    \A c \in Categories :
       (services[c] # "active" /\ services'[c] = "active")
           => c \in offered \cap p.grants

(* A measure that is lifted does not put the provider back online: only a new *)
(* start does ("restart receiving orders in the provider app").               *)
LiftedIsOffline ==
    (p.restricted /\ ~p'.restricted) => ~provider_is_online'
================================================================================
