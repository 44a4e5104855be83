---------------------------- MODULE ManualRefund ----------------------------
(***************************************************************************)
(* Manual refunds of a settled order (backoffice/manual_refunds.py): money *)
(* is sent back outside the system, and a case registers it. Nobody checks *)
(* their own evidence, a receipt belongs to one case, the amounts of all   *)
(* refunds stay within what was paid, and while a case stands neither an   *)
(* automatic refund nor a distribution of the order starts.                *)
(*                                                                         *)
(* Every request is one transaction under the lock of the order; staff act *)
(* on the revision they have on the screen.                                *)
(***************************************************************************)
EXTENDS Integers, FiniteSets, FiniteSetsExt

CONSTANTS
    Cases,      \* request keys of cases
    Staff,      \* finance staff, all of them supervisors
    Receipts,   \* receipt numbers of transfers made by hand
    Paid        \* what the customer paid

ManualRefundAssumption == Paid \in Nat \ {0}

VARIABLES
    cases,        \* ProviderManualRefundCase by request key
    automatic,    \* refunds of the order made through the gateway: amount and whether one is unfinished
    distribution, \* "none", "submitting", "succeeded", "failed" or "conflict"
    seen          \* the cases whose present revision each member of staff has on the screen

vars == <<cases, automatic, distribution, seen>>

Nobody == "nobody"
OpenStatuses == {"pending", "processing", "reviewing"}
NoCase == [status |-> "none", amount |-> 0, creator |-> Nobody, processor |-> Nobody,
           reviewer |-> Nobody, receipt |-> "none", submitters |-> {}]

AmountOf(statuses) == MapThenSumSet(LAMBDA c : cases[c].amount, {c \in Cases : cases[c].status \in statuses})

\* assert_no_manual_refund: a case that was not rejected stops automatic money for good.
NoManualRefund == \A c \in Cases : cases[c].status \in {"none", "rejected"}

\* assert_distribution_verified
DistributionVerified == distribution \in {"none", "succeeded", "failed"}

-----------------------------------------------------------------------------
(* The other money of the order *)

\* An automatic refund: refused once the order is in distribution or has a manual case.
StartRefund(a) ==
    /\ NoManualRefund /\ distribution = "none" /\ ~automatic.open /\ automatic.amount + a <= Paid
    /\ automatic' = [amount |-> automatic.amount + a, open |-> TRUE]
    /\ UNCHANGED <<cases, distribution, seen>>

FinishRefund ==
    /\ automatic.open
    /\ automatic' = [automatic EXCEPT !.open = FALSE]
    /\ UNCHANGED <<cases, distribution, seen>>

StartDistribution ==
    /\ NoManualRefund /\ distribution = "none" /\ ~automatic.open
    /\ distribution' = "submitting"
    /\ UNCHANGED <<cases, automatic, seen>>

\* A result, or evidence that contradicts it.
DistributionResult(d) ==
    /\ distribution # "none" /\ d # distribution
    /\ d \in (IF distribution = "submitting" THEN {"succeeded", "failed", "conflict"} ELSE {"conflict"})
    /\ distribution' = d
    /\ UNCHANGED <<cases, automatic, seen>>

-----------------------------------------------------------------------------
(* Cases *)

\* context: what is left of the payment once every refund and every case that stands is taken off.
Remaining == Paid - automatic.amount - AmountOf({"completed"}) - AmountOf(OpenStatuses)

\* One open case at a time, no automatic refund unfinished.
MayCreate == AmountOf(OpenStatuses) = 0 /\ ~automatic.open

Create(u, c, a) ==
    /\ cases[c].status = "none" /\ MayCreate /\ a \in 1 .. Remaining
    /\ cases' = [cases EXCEPT ![c] = [NoCase EXCEPT !.status = "pending", !.amount = a, !.creator = u]]
    /\ UNCHANGED <<automatic, distribution, seen>>

Read(u, c) ==
    /\ cases[c].status # "none" /\ c \notin seen[u]
    /\ seen' = [seen EXCEPT ![u] = @ \cup {c}]
    /\ UNCHANGED <<cases, automatic, distribution>>

\* The revision sent with the request is the row's.
Current(u, c) == c \in seen[u]

\* Every change makes a new revision, which nobody has on the screen yet.
Update(c, row) ==
    /\ cases' = [cases EXCEPT ![c] = row]
    /\ seen' = [u \in Staff |-> seen[u] \ {c}]
    /\ UNCHANGED <<automatic, distribution>>

Start(u, c) ==
    /\ Current(u, c) /\ cases[c].status = "pending"
    /\ Update(c, [cases[c] EXCEPT !.status = "processing", !.processor = u])

\* The receipt is fixed by the first evidence and unique among all cases.
ReceiptFits(c, r) ==
    /\ cases[c].receipt \in {"none", r}
    /\ \A d \in Cases \ {c} : cases[d].receipt # r

SubmitEvidence(u, c, r) ==
    /\ Current(u, c) /\ cases[c].status = "processing" /\ ReceiptFits(c, r) /\ DistributionVerified
    /\ Update(c, [cases[c] EXCEPT !.status = "reviewing", !.processor = u, !.receipt = r, !.submitters = @ \cup {u}])

\* Mutant: only the present processor is kept from reviewing.
Independent_Processor(u, c) == u \notin {cases[c].creator, cases[c].processor}

\* Neither the creator, nor the processor, nor anybody who ever submitted evidence.
Independent(u, c) == u \notin {cases[c].creator, cases[c].processor} \cup cases[c].submitters

Verify(u, c) ==
    /\ Current(u, c) /\ cases[c].status = "reviewing" /\ Independent(u, c) /\ DistributionVerified
    /\ Update(c, [cases[c] EXCEPT !.status = "completed", !.reviewer = u])

ReturnCase(u, c) ==
    /\ Current(u, c) /\ cases[c].status = "reviewing" /\ Independent(u, c)
    /\ Update(c, [cases[c] EXCEPT !.status = "processing"])

\* Only a case with no receipt can be rejected: a receipt means money has left.
MayReject(c) == cases[c].status \in {"pending", "processing"} /\ cases[c].receipt = "none"

Reject(u, c) ==
    /\ Current(u, c) /\ MayReject(c)
    /\ Update(c, [cases[c] EXCEPT !.status = "rejected", !.reviewer = u])

-----------------------------------------------------------------------------

\* A settled order, some of its money perhaps sent back already.
Init ==
    /\ cases = [c \in Cases |-> NoCase]
    /\ \E a \in 0 .. Paid - 1 : automatic = [amount |-> a, open |-> FALSE]
    /\ distribution = "none"
    /\ seen = [u \in Staff |-> {}]

Next ==
    \/ \E a \in 1 .. Paid : StartRefund(a)
    \/ FinishRefund \/ StartDistribution
    \/ \E d \in {"succeeded", "failed", "conflict"} : DistributionResult(d)
    \/ \E u \in Staff, c \in Cases :
         \/ \E a \in 1 .. Paid : Create(u, c, a)
         \/ Read(u, c) \/ Start(u, c) \/ Verify(u, c) \/ ReturnCase(u, c) \/ Reject(u, c)
         \/ \E r \in Receipts : SubmitEvidence(u, c, r)

Spec == Init /\ [][Next]_vars

-----------------------------------------------------------------------------
(* Properties *)

TypeOK ==
    /\ \A c \in Cases : /\ cases[c].status \in {"none", "completed", "rejected"} \cup OpenStatuses
                        /\ cases[c].amount \in 0 .. Paid
                        /\ cases[c].reviewer # Nobody <=> cases[c].status \in {"completed", "rejected"}
    /\ distribution \in {"none", "submitting", "succeeded", "failed", "conflict"}
    /\ \A u \in Staff : seen[u] \subseteq {c \in Cases : cases[c].status # "none"}

\* Automatic refunds, registered manual ones and those under way together stay within the payment.
WithinPayment == automatic.amount + AmountOf({"completed"} \cup OpenStatuses) <= Paid

\* Money is verified by somebody who took no part in it, however often the case changed hands.
VerifiedIndependently ==
    \A c \in Cases : cases[c].status = "completed" => cases[c].reviewer \notin {cases[c].creator} \cup cases[c].submitters

\* A transfer that was made is never forgotten: its case is not rejected and keeps its receipt.
ReceiptsStand ==
    \A c \in Cases : cases[c].receipt # "none" => cases'[c].receipt = cases[c].receipt /\ cases'[c].status # "rejected"

\* Two cases never rest on one receipt.
ReceiptsApart == \A c, d \in Cases : c # d /\ cases[c].receipt # "none" => cases[c].receipt # cases[d].receipt

\* No automatic money runs beside a case: a refund or distribution never starts once one stands.
OneKindOfMoney ==
    AmountOf({"completed"} \cup OpenStatuses) > 0 =>
      automatic'.amount = automatic.amount /\ (distribution = "none" => distribution' = "none")

\* The evidence verified is the evidence the reviewer read.
ReviewedAsRead ==
    \A c \in Cases : cases[c].status = "reviewing" /\ cases'[c].status = "completed" =>
      c \in seen[cases'[c].reviewer]
=============================================================================
