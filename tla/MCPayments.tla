------------------------------ MODULE MCPayments ------------------------------
(***************************************************************************)
(* Money coming in: the payment of a provider order (ProviderPayment       *)
(* itself), the authorization that precedes a payment in WeChat            *)
(* (PaymentAuthorization), the recharge of a wallet (Recharge, twice: its  *)
(* messages, its prices) and the calls to the channel (HuifuSdk), checked  *)
(* side by side: every behaviour is one of the component named by focus.   *)
(* x1, x2, ... are the variables of the other components, which leave the  *)
(* provider order at rest.                                                 *)
(***************************************************************************)
EXTENDS ProviderPayment, TLC

CONSTANTS Sessions, NoThread

VARIABLES
  focus,  \* the component this behaviour is of
  x1, x2, x3, x4, x5, x6, x7, x8, x9, x10, x11, x12, x13, x14  \* its variables; the ones it does not have are zero

slots == <<x1, x2, x3, x4, x5, x6, x7, x8, x9, x10, x11, x12, x13, x14>>
allVars == <<focus, vars, slots>>

\* Calls also stand for the requests and threads of the other components, and notices for the
\* states, persons and payers they have two of.
A == INSTANCE PaymentAuthorization WITH Sessions <- Sessions,
     Kinds <- {"activity_publish", "activity_participation"}, Persons <- {"payer"},
     Requests <- Calls, States <- Notices, Life <- 2, RequestTime <- 1, MaxTime <- 3, clock <- x1,
     valid <- x2, payable <- x3, state <- x4, redeemed <- x5, grant <- x6, consumed <- x7,
     request <- x8, issued <- x9, granted <- x10, started <- x11
R == INSTANCE Recharge WITH Orders <- {"first"}, Requests <- Calls, Payers <- Notices,
     MaxQuantity <- 2, Rates <- {9000}, MaxPatches <- 1, MaxCrashes <- 1,
     Signals <- {"poll", "notification"}, Stuck <- {}, campaign <- x1, patches <- x2, crashes <- x3,
     order <- x4, unseen <- x5, seen <- x6, balance <- x7, lots <- x8, note <- x9, request <- x10,
     wire <- x11, trade <- x12, creates <- x13, invoked <- x14
L == INSTANCE Recharge WITH Orders <- {"first"}, Requests <- {"create"}, Payers <- {"payer"},
     MaxQuantity <- 2, Rates <- {9000}, MaxPatches <- 2, MaxCrashes <- 1,
     Signals <- {"notification"}, Stuck <- {}, campaign <- x1, patches <- x2, crashes <- x3,
     order <- x4, unseen <- x5, seen <- x6, balance <- x7, lots <- x8, note <- x9, request <- x10,
     wire <- x11, trade <- x12, creates <- x13, invoked <- x14
H == INSTANCE HuifuSdk WITH Threads <- Calls, NoThread <- NoThread, owner <- x1, sdk <- x2,
     call <- x3

ASSUME ComponentsAssumption == A!AuthorizationAssumption

-----------------------------------------------------------------------------
InitAll ==
  /\ Init
  /\ \/ /\ focus = "provider_payment"
        /\ x1 = 0 /\ x2 = 0 /\ x3 = 0 /\ x4 = 0 /\ x5 = 0 /\ x6 = 0 /\ x7 = 0 /\ x8 = 0 /\ x9 = 0
        /\ x10 = 0 /\ x11 = 0 /\ x12 = 0 /\ x13 = 0 /\ x14 = 0
     \/ focus = "authorization" /\ A!Init /\ x12 = 0 /\ x13 = 0 /\ x14 = 0
     \/ focus = "recharge" /\ R!Init
     \/ focus = "pricing" /\ L!Init
     \/ focus = "sdk" /\ H!Init
        /\ x4 = 0 /\ x5 = 0 /\ x6 = 0 /\ x7 = 0 /\ x8 = 0 /\ x9 = 0 /\ x10 = 0 /\ x11 = 0
        /\ x12 = 0 /\ x13 = 0 /\ x14 = 0

NextAll ==
  \/ focus = "provider_payment" /\ Next /\ UNCHANGED <<focus, slots>>
  \/ focus = "authorization" /\ A!Next /\ UNCHANGED <<focus, vars, x12, x13, x14>>
  \/ focus = "recharge" /\ R!Next /\ UNCHANGED <<focus, vars>>
  \/ focus = "pricing" /\ L!Next /\ UNCHANGED <<focus, vars>>
  \/ focus = "sdk" /\ H!Next
     /\ UNCHANGED <<focus, vars, x4, x5, x6, x7, x8, x9, x10, x11, x12, x13, x14>>

SpecAll == InitAll /\ [][NextAll]_allVars

Symmetry == Permutations(Calls) \cup Permutations(Notices) \cup Permutations(Sessions)

-----------------------------------------------------------------------------
\* Authorization: a state and a grant serve once, and only the session, person and business
\* they were issued for.
AuthorizedOnce ==
  focus = "authorization" => A!TypeOK /\ A!GrantOnce /\ A!StateOnce /\ A!OwnAuthorization

\* Recharge: the channel is asked once, the balance is what was charged at the price shown,
\* a closed order was never paid, an acknowledged notice is credited.
ChargedOnce ==
  /\ focus = "recharge" =>
       /\ R!TypeOK /\ R!SentOnce /\ R!BalanceIsCharged /\ R!ClosedIsUnpaid
       /\ R!AcknowledgedIsCredited /\ R!PayerKept
  /\ focus = "pricing" => L!LotsAsPriced

\* Channel: a call runs with its own configuration, trusts only a checked answer, and leaves
\* the SDK as it was.
OwnConfig ==
  focus = "sdk" => H!TypeOK /\ H!OwnConfig /\ H!AnswersAreChecked /\ H!LeftClean
=============================================================================
