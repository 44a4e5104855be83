----------------------------- MODULE MCProviders ------------------------------
(***************************************************************************)
(* The provider's side: withdrawals from the income wallet (Withdrawal     *)
(* itself), the fulfilment of an order (Fulfilment, twice: with            *)
(* after-sales cases, with the credit score), the provider's identity      *)
(* (ProviderIdentity), onboarding and services (ProviderOnboarding) and    *)
(* the moderation of what is published (Moderation, three times: profiles, *)
(* nicknames, videos), checked side by side: every behaviour is one of the *)
(* component named by focus.  x1, x2, ... are the variables of the other   *)
(* components, which leave the withdrawals at rest.                        *)
(***************************************************************************)
EXTENDS Withdrawal, TLC

CONSTANTS First, Default, None, Typed

VARIABLES
  focus,  \* the component this behaviour is of
  x1, x2, x3, x4, x5, x6, x7, x8, x9, x10  \* its variables; the ones it does not have are zero

slots == <<x1, x2, x3, x4, x5, x6, x7, x8, x9, x10>>
allVars == <<focus, vars, slots>>

F == INSTANCE Fulfilment WITH Cases <- Keys, Service <- 1, Transport <- 1, Other <- 1, Transit <- TRUE,
     TransitEarly <- 1, TransitLate <- 2, NoShow <- 1, ArrivedPercent <- 50, Penalty <- 2,
     MaxScore <- 2, Scores <- {2}, Interventions <- {"case"}, Deltas <- {}, order <- x1,
     issues <- x2, passed <- x3, watch <- x4, case <- x5, refunds <- x6, settle <- x7, quotes <- x8,
     support <- x9, credit <- x10
C == INSTANCE Fulfilment WITH Cases <- {}, Service <- 1, Transport <- 1, Other <- 1,
     Transit <- FALSE, TransitEarly <- 1, TransitLate <- 2, NoShow <- 1, ArrivedPercent <- 50,
     Penalty <- 2, MaxScore <- 2, Scores <- {0, 1, 2}, Interventions <- {"note", "case"},
     Deltas <- {1}, order <- x1, issues <- x2, passed <- x3, watch <- x4, case <- x5, refunds <- x6,
     settle <- x7, quotes <- x8, support <- x9, credit <- x10
I == INSTANCE ProviderIdentity WITH Names <- Keys, Fronts <- Procs, Rests <- {"rest"}, None <- None,
     Typed <- Typed, DailyLimit <- 2, profile <- x1, account <- x2, checks <- x3, calls <- x4,
     faceid <- x5
O == INSTANCE ProviderOnboarding WITH Categories <- Keys, Contents <- Procs, None <- None,
     MaxSessions <- 2, MaxCourses <- 2, SuspendedEdits <- FALSE, p <- x1, services <- x2,
     changes <- x3, offered <- x4, city <- x5, account <- x6, course <- x7, online <- x8,
     asked <- x9, reviewed <- x10
M == INSTANCE Moderation WITH Workers <- {"worker"}, Kinds <- {"revision", "provider"},
     Contents <- Procs, First <- First, Default <- Default, None <- None, WithVideo <- FALSE,
     MaxReviews <- 2, MaxAttempts <- 3, MaxCrashes <- 0, reviews <- x1, live <- x2, pending <- x3,
     nick <- x4, screen <- x5, work <- x6, calls <- x7, crashes <- x8
N == INSTANCE Moderation WITH Workers <- Keys, Kinds <- {"nickname"}, Contents <- Procs, First <- First,
     Default <- Default, None <- None, WithVideo <- FALSE, MaxReviews <- 2, MaxAttempts <- 3,
     MaxCrashes <- 1, reviews <- x1, live <- x2, pending <- x3, nick <- x4, screen <- x5,
     work <- x6, calls <- x7, crashes <- x8
V == INSTANCE Moderation WITH Workers <- Keys, Kinds <- {"revision"}, Contents <- {"video"},
     First <- First, Default <- Default, None <- None, WithVideo <- TRUE, MaxReviews <- 1,
     MaxAttempts <- 2, MaxCrashes <- 1, reviews <- x1, live <- x2, pending <- x3, nick <- x4,
     screen <- x5, work <- x6, calls <- x7, crashes <- x8
ASSUME ComponentsAssumption ==
  /\ F!FulfilmentAssumption
  /\ C!FulfilmentAssumption
  /\ I!DailyLimitAssumption
  /\ O!BoundsAssumption
  /\ M!BoundsAssumption
  /\ N!BoundsAssumption
  /\ V!BoundsAssumption

-----------------------------------------------------------------------------
\* A state in which the withdrawals rest while another component is in focus.
AtRest == Init /\ account.card = CHOOSE c \in Cards : TRUE

InitAll ==
  \/ focus = "withdrawal" /\ Init
     /\ x1 = 0 /\ x2 = 0 /\ x3 = 0 /\ x4 = 0 /\ x5 = 0 /\ x6 = 0 /\ x7 = 0 /\ x8 = 0 /\ x9 = 0 /\ x10 = 0
  \/ focus = "fulfilment" /\ AtRest /\ F!Init
  \/ focus = "credit" /\ AtRest /\ C!Init
  \/ focus = "identity" /\ AtRest /\ I!Init /\ x6 = 0 /\ x7 = 0 /\ x8 = 0 /\ x9 = 0 /\ x10 = 0
  \/ focus = "onboarding" /\ AtRest /\ O!Init
  \/ focus = "profile" /\ AtRest /\ M!Init /\ x9 = 0 /\ x10 = 0
  \/ focus = "nickname" /\ AtRest /\ N!Init /\ x9 = 0 /\ x10 = 0
  \/ focus = "video" /\ AtRest /\ V!Init /\ x9 = 0 /\ x10 = 0

NextAll ==
  \/ focus = "withdrawal" /\ Next /\ UNCHANGED <<focus, slots>>
  \/ focus = "fulfilment" /\ F!Next /\ UNCHANGED <<focus, vars>>
  \/ focus = "credit" /\ C!Next /\ UNCHANGED <<focus, vars>>
  \/ focus = "identity" /\ I!Next /\ UNCHANGED <<focus, vars, x6, x7, x8, x9, x10>>
  \/ focus = "onboarding" /\ O!Next /\ UNCHANGED <<focus, vars>>
  \/ focus = "profile" /\ M!Next /\ UNCHANGED <<focus, vars, x9, x10>>
  \/ focus = "nickname" /\ N!Next /\ UNCHANGED <<focus, vars, x9, x10>>
  \/ focus = "video" /\ V!Next /\ UNCHANGED <<focus, vars, x9, x10>>

SpecAll == InitAll /\ [][NextAll]_allVars

Symmetry == Permutations(Keys) \cup Permutations(Procs)

-----------------------------------------------------------------------------
\* Fulfilment: refunds stay within the payment, an order is decided once, a timeout repays
\* the rest, what was handed to the staff stays with them, a review holds the order; the
\* penalty of a late departure is returned at most once, whatever the score was and whoever
\* adjusted it in between.
DecidedOnce ==
  /\ focus = "fulfilment" =>
       /\ F!TypeOK /\ F!RefundsWithinPaid /\ F!DecidedOnce /\ F!TimeoutRepaysRest
       /\ F!HandedOverStaysManual /\ F!ReviewHolds
  /\ focus = "credit" => C!PenaltyReturnedOnce

\* Fulfilment: a customer pays what the quote showed, and the money kept from a dispute enters
\* its settlement frozen.
PaysWhatWasShown ==
  [][focus = "fulfilment" => F!CustomerPaysWhatWasShown /\ F!KeptIsFrozen]_allVars



\* Step by step: identity is not lost, a service goes live only while offered, a
\* lifted restriction leaves the provider offline, a hidden profile returns only by the review
\* that hid it, a decided review is not decided again, a nickname applied is the latest; and no
\* withdrawal starts while the wallet is on hold.
DecisionStands ==
  [][/\ focus = "onboarding" => O!IdentityKept /\ O!LiveOnlyWhileOffered /\ O!LiftedIsOffline
     /\ focus = "profile" => M!HoldStands
     /\ focus = "nickname" => N!DecisionStands /\ N!NicknameIsLatest
     /\ focus = "withdrawal" => HoldStops]_allVars
=============================================================================
