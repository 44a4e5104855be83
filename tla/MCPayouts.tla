------------------------------ MODULE MCPayouts -------------------------------
(***************************************************************************)
(* What becomes of the money of a finished order: the payment to the       *)
(* provider (Distribution itself), the settlement of the order (Settlement,*)
(* twice: two cases, lost leases) and the provider's account at the        *)
(* channel (ReceivingAccount), checked side by side: every behaviour is    *)
(* one of the component named by focus.  x1, x2, ... are the variables of  *)
(* the other components, which leave the distribution at rest.             *)
(***************************************************************************)
EXTENDS Distribution, TLC

CONSTANTS Instants, NoInstant

VARIABLES
  focus,  \* the component this behaviour is of
  x1, x2, x3, x4, x5, x6  \* its variables; the ones it does not have are zero

slots == <<x1, x2, x3, x4, x5, x6>>
allVars == <<focus, vars, slots>>

S == INSTANCE Settlement WITH Instants <- Instants, NoInstant <- NoInstant, MaxAttempts <- 1,
     Cases <- Orders, Payable <- 2, Workers <- Jobs, AttemptCap <- 1, order <- x1,
     settlement <- x2, case <- x3, refund <- x4, row <- x5, exec <- x6
L == INSTANCE Settlement WITH Instants <- Instants, NoInstant <- NoInstant, MaxAttempts <- 2,
     Cases <- {"case"}, Payable <- 2, Workers <- Jobs, AttemptCap <- 2, order <- x1,
     settlement <- x2, case <- x3, refund <- x4, row <- x5, exec <- x6
R == INSTANCE ReceivingAccount WITH Requests <- Jobs, MaxAttempts <- 4, Overlap <- FALSE,
     account <- x1, attempts <- x2, proc <- x3, channel <- x4

ASSUME ComponentsAssumption ==
  /\ S!SettlementAssumption
  /\ L!SettlementAssumption
  /\ R!RequestsAssumption

-----------------------------------------------------------------------------
\* A state in which the distribution rests while another component is in focus.
AtRest == Init /\ route = [o \in Orders |-> "delayed"]

InitAll ==
  \/ focus = "distribution" /\ Init /\ x1 = 0 /\ x2 = 0 /\ x3 = 0 /\ x4 = 0 /\ x5 = 0 /\ x6 = 0
  \/ focus = "settlement" /\ AtRest /\ S!Init
  \/ focus = "leases" /\ AtRest /\ L!Init
  \/ focus = "receiving" /\ AtRest /\ R!Init /\ x5 = 0 /\ x6 = 0

NextAll ==
  \/ focus = "distribution" /\ Next /\ UNCHANGED <<focus, slots>>
  \/ focus = "settlement" /\ S!Next /\ UNCHANGED <<focus, vars>>
  \/ focus = "leases" /\ L!Next /\ UNCHANGED <<focus, vars>>
  \/ focus = "receiving" /\ R!Next /\ UNCHANGED <<focus, vars, x5, x6>>

SpecAll == InitAll /\ [][NextAll]_allVars

Symmetry == Permutations(Orders) \cup Permutations(Jobs) \cup Permutations(Instants)

-----------------------------------------------------------------------------

\* No step takes back a settlement, or what the channel decided of an account.
PayoutsStand ==
  [][/\ focus = "settlement" => S!SettlementFinal
     /\ focus = "leases" => L!SettlementFinal
     /\ focus = "receiving" => R!NothingRolledBack]_allVars
=============================================================================
