--------------------------- MODULE FinanceRecovery ---------------------------
(***************************************************************************)
(* A finance case on a paused platform payment pool                        *)
(* (financeops/recovery.py). Two people work on it: one submits what was   *)
(* found, another approves; approving a "resume" asks the channel again,   *)
(* outside every lock, and only then frees the reserve of the failed       *)
(* payment and lifts the pause.                                            *)
(*                                                                         *)
(* The case's revision, a lease with a run token, the fingerprint of the   *)
(* financial rows and the number of the newest observation keep a slow or  *)
(* abandoned run from acting on what is no longer so.                      *)
(***************************************************************************)
EXTENDS Integers, FiniteSets

CONSTANTS
    Staff,            \* finance staff, each with one request in flight
    MaxRevision,      \* bound: changes of the case
    MaxObservations   \* bound: query results recorded on the payment

FinanceAssumption == MaxRevision \in Nat /\ MaxObservations \in Nat /\ Staff # {}

VARIABLES
    case,     \* the FinanceRecoveryCase
    payment,  \* the payment the pool waits for: status, conflict, released, newest observation
    pool,     \* the payment pool: hold and generation
    funds,    \* whether the channel's balance covers the reserve
    seen,     \* the revision each member of staff has on the screen
    proc      \* the request of each

vars == <<case, payment, pool, funds, seen, proc>>

Nobody == "nobody"
Idle == [pc |-> "idle"]
NoCase == [status |-> "none", revision |-> 0, creator |-> Nobody, submitter |-> Nobody, resolution |-> "record",
           print |-> <<>>, token |-> <<>>, leased |-> FALSE]

\* fingerprint: every fact of the pool and of its unreleased payment that a decision rests on.
Fingerprint == <<pool.hold, pool.generation, payment.status, payment.conflict, payment.released>>

\* pool_candidate: the only state a pause can be lifted from.
PoolCandidate == pool.hold /\ ~payment.released /\ payment.status = "failed" /\ ~payment.conflict

-----------------------------------------------------------------------------
(* The rest of the system *)

\* A query by the job or by a case: it is recorded, and a contradiction marks the payment for good.
Observe(s) ==
    /\ payment.observation < MaxObservations
    /\ payment' = [payment EXCEPT !.observation = @ + 1, !.last = s,
                     !.conflict = @ \/ (payment.status = "failed" /\ s = "succeeded"),
                     !.status = IF @ = "unknown" /\ s # "unknown" THEN s ELSE @,
                     !.released = @ \/ (payment.status = "unknown" /\ s = "succeeded")]
    /\ pool' = [pool EXCEPT !.hold = @ \/ (payment.status = "unknown" /\ s = "failed") \/ (payment.status = "failed" /\ s = "succeeded")]
    /\ UNCHANGED <<case, funds, seen, proc>>

FundsChange == funds' = ~funds /\ UNCHANGED <<case, payment, pool, seen, proc>>

-----------------------------------------------------------------------------
(* Opening, reading, submitting, returning *)

CreateCase(u) ==
    /\ case.status = "none"
    /\ case' = [NoCase EXCEPT !.status = "open", !.revision = 1, !.creator = u]
    /\ UNCHANGED <<payment, pool, funds, seen, proc>>

Look(u) ==
    /\ seen[u] # case.revision
    /\ seen' = [seen EXCEPT ![u] = case.revision]
    /\ UNCHANGED <<case, payment, pool, funds, proc>>

\* _validate_revision: what the member of staff saw, and nobody verifying.
ValidateRevision(u) == case.revision < MaxRevision /\ seen[u] = case.revision /\ ~case.leased

Submit(u, r) ==
    /\ proc[u] = Idle /\ ValidateRevision(u) /\ case.status = "open"
    /\ r = "resume" => PoolCandidate
    /\ case' = [case EXCEPT !.resolution = r, !.print = Fingerprint, !.submitter = u, !.status = "review", !.revision = @ + 1]
    /\ UNCHANGED <<payment, pool, funds, seen, proc>>

ReturnCase(u) ==
    /\ proc[u] = Idle /\ ValidateRevision(u) /\ case.status = "review"
    /\ case' = [case EXCEPT !.status = "open", !.revision = @ + 1]
    /\ UNCHANGED <<payment, pool, funds, seen, proc>>

-----------------------------------------------------------------------------
(* Querying and approving: a lease, the channel, a second transaction *)

Independent(u) == case.creator # u /\ case.submitter # u

\* Every run has a token of its own, here the member of staff and the revision it starts from, and a fresh mark.
Lease(u, a) ==
    /\ case' = [case EXCEPT !.token = <<u, case.revision, a>>, !.leased = TRUE]
    /\ proc' = [proc EXCEPT ![u] = [pc |-> "channel", action |-> a, revision |-> case.revision,
                                    token |-> <<u, case.revision, a>>, proof |-> 0]]
    /\ UNCHANGED <<payment, pool, funds, seen>>

BeginQuery(u) ==
    /\ proc[u] = Idle /\ ValidateRevision(u) /\ case.status = "open"
    /\ Lease(u, "query")

BeginApprove(u) ==
    /\ proc[u] = Idle /\ ValidateRevision(u) /\ case.status = "review" /\ Independent(u)
    /\ Fingerprint = case.print
    /\ Lease(u, "approve")

\* query_original, and the approval of a case that only records a result.
AskChannel(u) ==
    /\ proc[u].pc = "channel"
    /\ proc[u].action = "query" \/ case.resolution = "record"
    /\ proc' = [proc EXCEPT ![u].pc = "write"]
    /\ UNCHANGED <<case, payment, pool, funds, seen>>

\* prove_pool_failure: a failed original, queried just now, and then the balance.
ProvePoolFailure(u) ==
    /\ proc[u].pc = "channel" /\ proc[u].action = "approve" /\ case.resolution = "resume"
    /\ PoolCandidate /\ payment.observation < MaxObservations /\ funds
    /\ payment' = [payment EXCEPT !.observation = @ + 1, !.last = "failed"]
    /\ proc' = [proc EXCEPT ![u] = [@ EXCEPT !.pc = "write", !.proof = payment.observation + 1]]
    /\ UNCHANGED <<case, pool, funds, seen>>

Fenced(u) == case.token = proc[u].token /\ case.revision = proc[u].revision /\ case.leased

\* Mutant: the evidence is not looked at again after the channel answered.
StillProven_Trusting(u) == TRUE

\* Same facts as submitted, and no observation newer than the proof.
StillProven(u) == Fingerprint = case.print /\ PoolCandidate /\ payment.observation = proc[u].proof

WriteQuery(u) ==
    /\ proc[u].pc = "write" /\ proc[u].action = "query" /\ Fenced(u)
    /\ case' = [case EXCEPT !.revision = @ + 1, !.leased = FALSE]
    /\ proc' = [proc EXCEPT ![u] = Idle]
    /\ UNCHANGED <<payment, pool, funds, seen>>

WriteResolved(u) ==
    /\ proc[u].pc = "write" /\ proc[u].action = "approve" /\ proc[u].proof = 0
    /\ Fenced(u) /\ Fingerprint = case.print
    /\ case' = [case EXCEPT !.status = "resolved", !.revision = @ + 1, !.leased = FALSE]
    /\ proc' = [proc EXCEPT ![u] = Idle]
    /\ UNCHANGED <<payment, pool, funds, seen>>

WriteRestored(u) ==
    /\ proc[u].pc = "write" /\ proc[u].proof > 0 /\ Fenced(u) /\ StillProven(u)
    /\ payment' = [payment EXCEPT !.released = TRUE]
    /\ pool' = [hold |-> FALSE, generation |-> pool.generation + 1]
    /\ case' = [case EXCEPT !.status = "restored", !.revision = @ + 1, !.leased = FALSE]
    /\ proc' = [proc EXCEPT ![u] = Idle]
    /\ UNCHANGED <<funds, seen>>

\* A failed run only ends its own lease.
EndLease(u) == IF case.token = proc[u].token THEN [case EXCEPT !.revision = @ + 1, !.leased = FALSE] ELSE case

CheckFailed(u) ==
    /\ proc[u].pc \in {"channel", "write"}
    /\ case' = EndLease(u)
    /\ proc' = [proc EXCEPT ![u] = Idle]
    /\ UNCHANGED <<payment, pool, funds, seen>>

\* Five minutes pass; the run may be dead or slow.
LeaseExpires ==
    /\ case.leased
    /\ case' = [case EXCEPT !.leased = FALSE]
    /\ UNCHANGED <<payment, pool, funds, seen, proc>>

Crash(u) ==
    /\ proc[u] # Idle
    /\ proc' = [proc EXCEPT ![u] = Idle]
    /\ UNCHANGED <<case, payment, pool, funds, seen>>

-----------------------------------------------------------------------------

\* The pool is paused by a failed or an unknown payment.
Init ==
    /\ case = NoCase
    /\ \E s \in {"unknown", "failed"} :
         payment = [status |-> s, conflict |-> FALSE, released |-> FALSE, observation |-> 0, last |-> "none"]
    /\ pool = [hold |-> TRUE, generation |-> 0]
    /\ funds = FALSE
    /\ seen = [u \in Staff |-> 0]
    /\ proc = [u \in Staff |-> Idle]

Next ==
    \/ \E s \in {"failed", "succeeded", "unknown"} : Observe(s)
    \/ FundsChange \/ LeaseExpires
    \/ \E u \in Staff :
         \/ CreateCase(u) \/ Look(u) \/ ReturnCase(u)
         \/ \E r \in {"record", "resume"} : Submit(u, r)
         \/ BeginQuery(u) \/ BeginApprove(u) \/ AskChannel(u) \/ ProvePoolFailure(u)
         \/ WriteQuery(u) \/ WriteResolved(u) \/ WriteRestored(u) \/ CheckFailed(u) \/ Crash(u)

Spec == Init /\ [][Next]_vars

-----------------------------------------------------------------------------
(* Properties *)

TypeOK ==
    /\ case.status \in {"none", "open", "review", "resolved", "restored"} /\ case.revision \in 0 .. MaxRevision + 1
    /\ case.creator \in Staff \cup {Nobody} /\ case.leased \in BOOLEAN
    /\ payment.status \in {"unknown", "failed", "succeeded"} /\ pool.generation \in 0 .. 1
    /\ \A u \in Staff : seen[u] \in 0 .. case.revision

\* The pause is lifted only while the payment is a failure nobody contradicts, its newest recorded
\* observation says so, and the facts are the ones that were submitted.
LiftedOnEvidence ==
    pool.generation' > pool.generation =>
      /\ payment.status = "failed" /\ ~payment.conflict /\ payment.last = "failed"
      /\ case.print = Fingerprint

\* A case is closed by somebody who neither opened it nor submitted it, on the submission they read.
ClosedIndependently ==
    case'.status \in {"resolved", "restored"} /\ case.status = "review" =>
      \E u \in Staff : /\ proc[u] # Idle /\ proc'[u] = Idle
                       /\ u \notin {case.creator, case.submitter} /\ seen[u] >= proc[u].revision

\* Only the run that holds the lease writes; a run that outlived its lease changes nothing of a newer one.
OthersKeepTheirLease ==
    \A u \in Staff : (proc[u] # Idle /\ proc'[u] = Idle /\ proc[u].token # case.token) => case' = case

\* A case is closed only under the lease of the run that closes it.
ClosedUnderLease == case'.status \in {"resolved", "restored"} /\ case.status = "review" => case.leased
=============================================================================
