------------------------------- MODULE Moderation -------------------------------
(***************************************************************************)
(* Review of public content (moderation/services.py, targets.py, tasks.py) *)
(* for one provider's profile and one user's nickname.  A submission is an *)
(* immutable row; workers claim it under a lease, ask Tencent about each   *)
(* item outside any transaction and write back under the lease's token;    *)
(* staff decide on the revision they read; publication by the business     *)
(* review asks ensure_approved.  A content is a model value and its own    *)
(* fingerprint; a profile revision is named by the review made for it.     *)
(***************************************************************************)
EXTENDS Naturals, Sequences, FiniteSets

CONSTANTS Workers,      \* celery workers
          Kinds,        \* subset of nickname, revision, provider
          Contents,     \* contents users submit
          First,        \* what is public before anything was submitted
          Default,      \* the nickname given when one is withdrawn
          None,
          WithVideo,    \* whether a profile carries a video
          MaxReviews,   \* bound: submissions
          MaxAttempts,  \* item.attempts at which a query is given up (120 in the code)
          MaxCrashes    \* bound: workers that die or stall past their lease

BoundsAssumption == {MaxReviews, MaxAttempts, MaxCrashes} \subseteq Nat

VARIABLES reviews,  \* ContentReview rows with their items, oldest first
          live,     \* the public profile: content, hidden, and the review that hid it
          pending,  \* the pending profile revision (its review), or 0
          nick,     \* User.nickname
          screen,   \* the review a member of staff has open at its present revision, or 0
          work,     \* worker -> what it does
          calls,    \* review -> video tasks created at Tencent (history)
          crashes
vars == <<reviews, live, pending, nick, screen, work, calls, crashes>>

Idle == [at |-> "idle", review |-> 0, done |-> {}]
Final == {"pass", "review", "block", "error"}
Items(kind) == IF kind # "nickname" /\ WithVideo THEN {"text", "video"} ELSE {"text"}

Review(kind, content, base) ==
    [kind |-> kind, content |-> content, base |-> base, current |-> TRUE,
     status |-> "queued", token |-> None, lease |-> "none",
     attempts |-> [i \in Items(kind) |-> 0],
     items |-> [i \in Items(kind) |-> "pending"]]

Init ==
    /\ reviews = <<>> /\ live = [content |-> First, hidden |-> FALSE, hold |-> 0]
    /\ pending = 0 /\ nick = First /\ screen = 0
    /\ work = [w \in Workers |-> Idle] /\ calls = [r \in 1..MaxReviews |-> 0] /\ crashes = 0

--------------------------------------------------------------------------------
(* Targets.                                                                  *)

(* public_matches: what is public now is what the review is about.           *)
public_matches(r) ==
    IF reviews[r].kind = "nickname" THEN nick = reviews[r].content
    ELSE live.content = reviews[r].content

(* _current: the row is current and its target still holds what was reviewed.*)
Current(r) ==
    /\ reviews[r].current
    /\ CASE reviews[r].kind = "nickname" -> nick \in {reviews[r].base, reviews[r].content}
         [] reviews[r].kind = "provider" -> live.content = reviews[r].content
         [] OTHER -> TRUE

(* set_hidden on a profile: another review's hold is never taken over, and    *)
(* only the owner of a hold can lift it.                                      *)
HeldByOther(r) == live.hidden /\ live.hold \notin {0, r}

Hidden(r) == IF HeldByOther(r) THEN live ELSE [live EXCEPT !.hidden = TRUE, !.hold = r]

MayRestore(r) == public_matches(r) /\ ~HeldByOther(r)

Shown == [live EXCEPT !.hidden = FALSE, !.hold = 0]

(* A publication that is taken away: a profile is hidden, a nickname replaced.*)
TakeDown(r) ==
    IF reviews[r].kind = "nickname"
    THEN nick' = Default /\ UNCHANGED live
    ELSE live' = Hidden(r) /\ UNCHANGED nick

(* publish_candidate: only nicknames are published by the review itself.      *)
Publish(r) ==
    /\ nick' = IF reviews[r].kind = "nickname" THEN reviews[r].content ELSE nick
    /\ UNCHANGED live

(* restore.                                                                   *)
Restore(r) ==
    IF reviews[r].kind = "nickname" THEN Publish(r)
    ELSE MayRestore(r) /\ live' = Shown /\ UNCHANGED nick

--------------------------------------------------------------------------------
(* Submissions.                                                              *)

(* The previous row of the same target; every revision is a target of its own.*)

Previous(kind) == {r \in DOMAIN reviews : reviews[r].kind = kind /\ reviews[r].current
                                              /\ kind # "revision"}

Superseded(rs) == [r \in DOMAIN reviews |->
    IF r \in rs THEN [reviews[r] EXCEPT !.current = FALSE, !.status = "superseded",
                                        !.token = None, !.lease = "none"]
    ELSE reviews[r]]

(* submit: the same content again changes nothing.                           *)
submit(kind, content, base) ==
    /\ kind \in Kinds /\ Len(reviews) < MaxReviews
    /\ \A r \in Previous(kind) : reviews[r].content # content
    /\ reviews' = Append(Superseded(Previous(kind)), Review(kind, content, base))
    /\ screen' = IF screen \in Previous(kind) THEN 0 ELSE screen
    /\ UNCHANGED <<live, nick, work, calls, crashes>>

SubmitNickname(content) == submit("nickname", content, nick) /\ UNCHANGED pending

SubmitRevision(content) ==
    /\ pending = 0
    /\ submit("revision", content, None)
    /\ pending' = Len(reviews) + 1

(* Staff put what is public under review (ContentReviewListView.post).        *)
RegisterLive == submit("provider", live.content, None) /\ UNCHANGED pending

(* ensure_approved for the pending revision.                                  *)


ensure_approved(r) ==
    /\ ~(live.hidden /\ live.hold # 0 /\ reviews[live.hold].content = reviews[r].content
            /\ reviews[live.hold].status \in {"rejected", "withdrawn"})
    /\ reviews[r].current /\ reviews[r].status = "approved"

(* review_provider_profile_revision publishes the revision and lifts holds.   *)
ApproveRevision ==
    /\ pending # 0 /\ ensure_approved(pending)
    /\ live' = [content |-> reviews[pending].content, hidden |-> FALSE, hold |-> 0]
    /\ pending' = 0
    /\ UNCHANGED <<reviews, nick, screen, work, calls, crashes>>

RejectRevision ==
    /\ pending # 0 /\ pending' = 0
    /\ UNCHANGED <<reviews, live, nick, screen, work, calls, crashes>>

--------------------------------------------------------------------------------
(* decide: staff act on the revision they read.                              *)

Open(r) ==
    /\ r \in DOMAIN reviews /\ screen = 0
    /\ screen' = r
    /\ UNCHANGED <<reviews, live, pending, nick, work, calls, crashes>>

(* Every decision takes the lease away and makes a new revision.              *)

Decided(r, status) ==
    reviews' = [reviews EXCEPT ![r].status = status, ![r].token = None, ![r].lease = "none",
                ![r].base = IF nick' = Default THEN Default ELSE @]

Decide(r) == r \in DOMAIN reviews /\ screen = r /\ Current(r) /\ screen' = 0
             /\ UNCHANGED <<pending, work, calls, crashes>>

Approve(r) ==
    /\ Decide(r) /\ reviews[r].status \in {"queued", "processing", "manual", "rejected"}
    /\ IF reviews[r].status = "rejected" /\ public_matches(r) THEN Restore(r) ELSE Publish(r)
    /\ Decided(r, "approved")

Reject(r) ==
    /\ Decide(r) /\ reviews[r].status \in {"queued", "processing", "manual", "approved"}
    /\ IF public_matches(r) THEN TakeDown(r) ELSE UNCHANGED <<live, nick>>
    /\ Decided(r, "rejected")

Withdraw(r) ==
    /\ Decide(r) /\ reviews[r].status = "approved" /\ public_matches(r)
    /\ TakeDown(r)
    /\ Decided(r, "withdrawn")

RestoreContent(r) ==
    /\ Decide(r) /\ reviews[r].status \in {"withdrawn", "rejected"}
    /\ Restore(r)
    /\ Decided(r, "approved")

(* retry: a video whose submission is unknown is never submitted again.       *)
Retriable(items) ==
    [i \in DOMAIN items |-> IF items[i] = "error" /\ i # "video" THEN "pending"
                            ELSE IF items[i] = "lost" THEN "polling" ELSE items[i]]

Retry(r) ==
    /\ Decide(r) /\ reviews[r].status = "manual"
    /\ \E i \in DOMAIN reviews[r].items : Retriable(reviews[r].items)[i] # reviews[r].items[i]
    /\ reviews' = [reviews EXCEPT ![r].status = "queued", ![r].token = None,
                                  ![r].lease = "none", ![r].items = Retriable(@),
                                  ![r].attempts = [i \in DOMAIN @ |->
                                      IF Retriable(reviews[r].items)[i] # reviews[r].items[i]
                                      THEN 0 ELSE @[i]]]
    /\ UNCHANGED <<live, nick>>

--------------------------------------------------------------------------------
(* Workers.                                                                  *)

Claim(w, r) ==
    /\ work[w] = Idle /\ r \in DOMAIN reviews
    /\ reviews[r].current /\ reviews[r].status \in {"queued", "processing"}
    /\ reviews[r].lease # "held"
    /\ reviews' = [reviews EXCEPT ![r].token = w, ![r].lease = "held",
                                  ![r].status = "processing"]
    /\ work' = [work EXCEPT ![w] = [at |-> "item", review |-> r, done |-> {}]]
    /\ UNCHANGED <<live, pending, nick, screen, calls, crashes>>

(* _persist_item and _finish write only under the token and an unexpired lease.*)
\* Mutant of Fence: the row is looked up again but its token is not compared.
Fence_NoToken(w) == TRUE

Fence(w) ==
    LET r == work[w].review IN
    reviews[r].token = w /\ reviews[r].lease = "held" /\ reviews[r].current
        /\ reviews[r].status = "processing"

Todo(w) == {i \in DOMAIN reviews[work[w].review].items :
                /\ i \notin work[w].done
                /\ reviews[work[w].review].items[i] \notin Final \cup {"lost"}}
Item(w) == IF "text" \in Todo(w) THEN "text" ELSE "video"
State(w) == reviews[work[w].review].items[Item(w)]

Persist(w, i, state) ==
    reviews' = IF Fence(w) THEN [reviews EXCEPT ![work[w].review].items[i] = state] ELSE reviews

(* An attempt is counted with the state the item has while it is called.      *)
\* Mutant of Attempt: the attempt is not counted.
Attempt_Free(w, state) ==
    reviews' = [reviews EXCEPT ![work[w].review].items[Item(w)] = state]

Attempt(w, state) ==
    reviews' = [reviews EXCEPT ![work[w].review].items[Item(w)] = state,
                               ![work[w].review].attempts[Item(w)] = @ + 1]

Goto(w, at) == work' = [work EXCEPT ![w].at = at]
NextItem(w, i) == work' = [work EXCEPT ![w].at = "item", ![w].done = @ \cup {i}]
Same == UNCHANGED <<live, pending, nick, screen, crashes>>

(* Before a call the attempt is written; a worker that lost its row stops.    *)

BeginItem(w) ==
    /\ work[w].at = "item" /\ Todo(w) # {} /\ Fence(w)
    /\ IF Item(w) = "video" /\ State(w) = "submitting"
       THEN Persist(w, "video", "error") /\ NextItem(w, "video")
       ELSE IF Item(w) = "video" /\ State(w) = "pending"
       THEN Attempt(w, "submitting") /\ Goto(w, "creating")
       ELSE IF reviews[work[w].review].attempts[Item(w)] >= MaxAttempts
       THEN Persist(w, Item(w), IF Item(w) = "video" THEN "lost" ELSE "error")
            /\ NextItem(w, Item(w))
       ELSE Attempt(w, State(w)) /\ Goto(w, "calling")
    /\ UNCHANGED calls /\ Same

LostRow(w) ==
    /\ work[w].at = "item" /\ Todo(w) # {} /\ ~Fence(w)
    /\ work' = [work EXCEPT ![w] = Idle]
    /\ UNCHANGED <<reviews, calls>> /\ Same

(* create_video: the task exists at Tencent before its id can be written.     *)
CreateVideo(w) ==
    /\ work[w].at = "creating"
    /\ calls' = [calls EXCEPT ![work[w].review] = @ + 1]
    /\ Goto(w, "created")
    /\ UNCHANGED reviews /\ Same

CreateRefused(w) ==
    /\ work[w].at = "creating"
    /\ Persist(w, "video", "error") /\ NextItem(w, "video")
    /\ UNCHANGED calls /\ Same

(* The answer with the task id, or an answer that cannot be read.             *)
SaveVideo(w, known) ==
    /\ work[w].at = "created"
    /\ Persist(w, "video", IF known THEN "polling" ELSE "error")
    /\ IF Fence(w) \/ ~known THEN NextItem(w, "video") ELSE work' = [work EXCEPT ![w] = Idle]
    /\ UNCHANGED calls /\ Same

(* What _decision and the calls make of Tencent's answers.                    *)
Answers == {"pass", "review", "block", "error", "none"}

(* detect_text, detect_image, query_video: a decision, nothing yet (a video   *)
(* that is still being looked at) or an error.                                *)
Answer(w, outcome) ==
    /\ work[w].at = "calling"
    /\ outcome = "none" => Item(w) = "video"
    /\ IF outcome = "none" THEN UNCHANGED reviews
       ELSE Persist(w, Item(w), IF Item(w) = "video" /\ outcome = "error" THEN "lost" ELSE outcome)
    /\ NextItem(w, Item(w))
    /\ UNCHANGED calls /\ Same

(* _finish: the answers together decide; nothing is written without the fence.*)
Verdict(r) ==
    LET states == {reviews[r].items[i] : i \in DOMAIN reviews[r].items} IN
    IF "block" \in states THEN "rejected"
    ELSE IF states \cap {"review", "error", "lost"} # {} THEN "manual"
    ELSE IF states \ {"pass"} # {} THEN "queued" ELSE "approved"

(* A nickname that cannot be published now goes to staff.                     *)
Verdicts(r) == {Verdict(r)} \cup
    IF Verdict(r) = "approved" /\ reviews[r].kind = "nickname" THEN {"manual"} ELSE {}

Settle(r, status) ==
    /\ reviews' = [reviews EXCEPT ![r].status = status, ![r].token = None, ![r].lease = "none",
                       ![r].current = status # "superseded",
                       ![r].base = IF nick' = Default THEN Default ELSE @]
    /\ screen' = IF screen = r THEN 0 ELSE screen

Finish(w) ==
    LET r == work[w].review IN
    /\ work[w].at = "item" /\ Todo(w) = {}
    /\ IF ~Fence(w) THEN UNCHANGED <<reviews, live, nick, screen>>
       ELSE IF ~Current(r) THEN UNCHANGED <<live, nick>> /\ Settle(r, "superseded")
       ELSE \E status \in Verdicts(r) :
            /\ CASE status = "rejected" /\ public_matches(r) -> TakeDown(r)
                 [] status = "approved" -> Publish(r)
                 [] OTHER -> UNCHANGED <<live, nick>>
            /\ Settle(r, status)
    /\ work' = [work EXCEPT ![w] = Idle]
    /\ UNCHANGED <<pending, calls, crashes>>

(* A worker dies, or stalls past its lease, at any point of its run; the lease *)
(* of a dead worker ends six minutes later.                                   *)
Crash(w) ==
    /\ work[w] # Idle /\ crashes < MaxCrashes
    /\ work' = [work EXCEPT ![w] = Idle] /\ crashes' = crashes + 1
    /\ UNCHANGED <<reviews, live, pending, nick, screen, calls>>

LeaseEnds(r) ==
    /\ r \in DOMAIN reviews /\ reviews[r].lease = "held"
    /\ LET stalled == work[reviews[r].token].review = r IN
       IF stalled THEN crashes < MaxCrashes /\ crashes' = crashes + 1 ELSE UNCHANGED crashes
    /\ reviews' = [reviews EXCEPT ![r].lease = "expired"]
    /\ UNCHANGED <<live, pending, nick, screen, work, calls>>

WorkerStep(w) ==
    \/ \E r \in 1..MaxReviews : Claim(w, r)
    \/ BeginItem(w) \/ LostRow(w) \/ CreateVideo(w) \/ CreateRefused(w)
    \/ \E known \in BOOLEAN : SaveVideo(w, known)
    \/ \E outcome \in Answers : Answer(w, outcome)
    \/ Finish(w)

StaffStep(r) == Open(r) \/ Approve(r) \/ Reject(r) \/ Withdraw(r) \/ RestoreContent(r) \/ Retry(r)

Next ==
    \/ \E content \in Contents : SubmitNickname(content) \/ SubmitRevision(content)
    \/ RegisterLive \/ ApproveRevision \/ RejectRevision
    \/ \E r \in 1..MaxReviews : StaffStep(r) \/ LeaseEnds(r)
    \/ \E w \in Workers : WorkerStep(w) \/ Crash(w)

Spec == Init /\ [][Next]_vars

(* Beat hands out pending reviews every 30 seconds, calls time out after 15,   *)
(* and leases end by the clock.                                               *)
LiveSpec == Spec /\ \A w \in Workers : WF_vars(WorkerStep(w))
                 /\ \A r \in 1..MaxReviews : WF_vars(LeaseEnds(r))

--------------------------------------------------------------------------------
(* The columns hold what the models allow.                                    *)
TypeOK ==
    /\ \A r \in DOMAIN reviews :
          /\ reviews[r].status \in {"queued", "processing", "manual", "approved", "rejected",
                                    "withdrawn", "superseded"}
          /\ reviews[r].token \in Workers \cup {None}
          /\ reviews[r].lease = "none" <=> reviews[r].token = None
          /\ reviews[r].status = "processing" <=> reviews[r].token # None
    /\ live.hidden <=> live.hold # 0

(* What the profile shows was cleared: its content has an approved review, or  *)
(* was public before anything was submitted.                                   *)
ShownIsCleared ==
    (~live.hidden /\ live.content # First) =>
        \E r \in DOMAIN reviews : /\ reviews[r].content = live.content
                                  /\ reviews[r].status = "approved"

(* "Never steal its restoration authority": content that was taken down comes  *)
(* back only when the very review that holds it is approved again.             *)
HoldStands ==
    (live.hidden /\ ~live'.hidden /\ live'.content = live.content)
        => reviews'[live.hold].status = "approved"

(* A decision of staff is never overwritten by a late worker: only staff with  *)
(* the review open, or a newer submission, changes it.                         *)
DecisionStands ==
    \A r \in DOMAIN reviews :
       (reviews[r].status \in {"approved", "rejected", "withdrawn"}
          /\ reviews'[r].status # reviews[r].status)
       => screen = r \/ reviews'[r].status = "superseded"

(* A nickname changes only to that of the latest submission, once approved, or *)
(* to the default when it is taken down, however late an older worker ends.    *)
NicknameIsLatest ==
    nick' # nick =>
       \/ nick' = Default
       \/ \E r \in DOMAIN reviews' :
             /\ reviews'[r].status = "approved" /\ reviews'[r].content = nick'
             /\ \A q \in DOMAIN reviews' : reviews'[q].kind = "nickname" => q <= r

(* A video is submitted to Tencent at most once per review: a submission whose *)
(* answer was lost goes to staff instead of being paid for again.              *)
VideoOnce == \A r \in 1..MaxReviews : calls[r] <= 1

Waiting(r) == r \in DOMAIN reviews /\ reviews[r].status \in {"queued", "processing"}

(* Every submission is decided, handed to staff or replaced in the end, also   *)
(* when workers die and a video's verdict never comes.                         *)
QueueDrains == \A r \in 1..MaxReviews : Waiting(r) ~> ~Waiting(r)
================================================================================
