------------------------------ MODULE MCAccounts ------------------------------
(***************************************************************************)
(* Accounts: binding a WeChat identity (WechatLogin itself) and logging in *)
(* with one (a second instance), codes by SMS (SmsCode), the login of the  *)
(* mini program (MiniProgramLogin) and the closing of an account           *)
(* (AccountClosure), checked side by side: every behaviour is one of the   *)
(* component named by focus.  x1, x2, ... are the variables of the other   *)
(* components, which the binding leaves alone and which leave it at rest.  *)
(***************************************************************************)
EXTENDS WechatLogin, TLC

VARIABLES
  focus,  \* the component this behaviour is of
  x1, x2, x3, x4, x5, x6, x7, x8, x9, x10, x11, x12, x13  \* its variables; the ones it does not have are zero

slots == <<x1, x2, x3, x4, x5, x6, x7, x8, x9, x10, x11, x12, x13>>
allVars == <<focus, vars, slots>>

L == INSTANCE WechatLogin WITH Devices <- {"device"}, Tickets <- {"first", "second"},
     Ops <- {"resolve", "phone"}, MaxVersion <- 1, status <- x1, version <- x2, row <- x3,
     claim <- x4, ticket <- x5, used <- x6, request <- x7, redeemed <- x8
S == INSTANCE SmsCode WITH Purposes <- Persons, Senders <- Users, Verifiers <- Requests,
     MaxCodes <- 3, DailyLimit <- 2, MaxAttempts <- 2, cooldown <- x1, daily <- x2, code <- x3,
     attempts <- x4, sender <- x5, verifier <- x6, last <- x7, calls <- x8, today <- x9,
     accepted <- x10, activated <- x11, misses <- x12, passed <- x13
M == INSTANCE MiniProgramLogin WITH Phones <- {"phone", "other"}, phone <- x1, usable <- x2,
     row <- x3, request <- x4, created <- x5
C == INSTANCE AccountClosure WITH MaxVersion <- 6, MaxRequests <- 2, MaxInFlight <- 2,
     MaxCrashes <- 1, user <- x1, requests <- x2, owes <- x3, passed <- x4, token <- x5,
     worker <- x6, crashes <- x7

ASSUME ComponentsAssumption ==
  /\ L!LoginAssumption
  /\ S!SmsAssumption
  /\ C!BoundsAssumption

-----------------------------------------------------------------------------
\* A state in which the binding rests while another component is in focus.
AtRest == Init /\ status = [u \in Users |-> "none"]

InitAll ==
  \/ focus = "binding" /\ Init
     /\ x1 = 0 /\ x2 = 0 /\ x3 = 0 /\ x4 = 0 /\ x5 = 0 /\ x6 = 0 /\ x7 = 0 /\ x8 = 0 /\ x9 = 0
     /\ x10 = 0 /\ x11 = 0 /\ x12 = 0 /\ x13 = 0
  \/ focus = "login" /\ AtRest /\ L!Init /\ x9 = 0 /\ x10 = 0 /\ x11 = 0 /\ x12 = 0 /\ x13 = 0
  \/ focus = "code" /\ AtRest /\ S!Init
  \/ focus = "mini_program" /\ AtRest /\ M!Init
     /\ x6 = 0 /\ x7 = 0 /\ x8 = 0 /\ x9 = 0 /\ x10 = 0 /\ x11 = 0 /\ x12 = 0 /\ x13 = 0
  \/ focus = "closure" /\ AtRest /\ C!Init
     /\ x8 = 0 /\ x9 = 0 /\ x10 = 0 /\ x11 = 0 /\ x12 = 0 /\ x13 = 0

NextAll ==
  \/ focus = "binding" /\ Next /\ UNCHANGED <<focus, slots>>
  \/ focus = "login" /\ L!Next /\ UNCHANGED <<focus, vars, x9, x10, x11, x12, x13>>
  \/ focus = "code" /\ S!Next /\ UNCHANGED <<focus, vars>>
  \/ focus = "mini_program" /\ M!Next
     /\ UNCHANGED <<focus, vars, x6, x7, x8, x9, x10, x11, x12, x13>>
  \/ focus = "closure" /\ C!Next /\ UNCHANGED <<focus, vars, x8, x9, x10, x11, x12, x13>>

SpecAll == InitAll /\ [][NextAll]_allVars

Symmetry == Permutations(Users) \cup Permutations(Persons) \cup Permutations(Requests)

-----------------------------------------------------------------------------

=============================================================================
