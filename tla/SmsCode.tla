------------------------------ MODULE SmsCode ------------------------------
(***************************************************************************)
(* Verification codes sent to one phone (accounts/services.py,             *)
(* tencent_sms.py).  A send reserves the phone over all purposes, takes    *)
(* one of the day's messages, calls the billable gateway and activates the *)
(* code only if the reservation is still its own.  A verification reads    *)
(* the code of its purpose, compares, and then counts a miss or deletes    *)
(* the code.  Everything is in a shared cache, one call at a time; codes   *)
(* are numbered in the order of their reservations.                        *)
(***************************************************************************)
EXTENDS Naturals, FiniteSets

CONSTANTS
    Purposes,      \* SMS_PURPOSES
    Senders,       \* requests that send, at one time
    Verifiers,     \* requests that verify, at one time
    MaxCodes,      \* bound: reservations
    DailyLimit,    \* SMS_PHONE_DAILY_LIMIT
    MaxAttempts    \* SMS_CODE_MAX_ATTEMPTS

SmsAssumption == MaxCodes \in Nat /\ DailyLimit \in Nat \ {0} /\ MaxAttempts \in Nat \ {0}

Codes == 1..MaxCodes
None == 0
Idle == [pc |-> "idle"]

VARIABLES
    cooldown,   \* cache: the reservation that holds the phone, or None
    daily,      \* cache: messages counted today
    code,       \* cache: purpose -> the active code, or None
    attempts,   \* cache: purpose -> misses counted
    sender, verifier,
    last,       \* history: the last reservation
    calls,      \* history: calls of the gateway since the phone was last free by time
    today,      \* history: calls of the gateway today
    accepted,   \* history: codes the gateway accepted
    activated,  \* history: purpose -> the newest code ever active
    misses,     \* history: code -> wrong guesses compared with it
    passed      \* history: code -> verifications it let pass

cache == <<cooldown, daily, code, attempts>>
sent == <<last, calls, today, accepted, activated>>
vars == <<cache, sender, verifier, sent, misses, passed>>

Init ==
    /\ cooldown = None /\ daily = 0
    /\ code = [p \in Purposes |-> None] /\ attempts = [p \in Purposes |-> 0]
    /\ sender = [s \in Senders |-> Idle] /\ verifier = [v \in Verifiers |-> Idle]
    /\ last = 0 /\ calls = 0 /\ today = 0 /\ accepted = {}
    /\ activated = [p \in Purposes |-> None]
    /\ misses = [c \in Codes |-> 0] /\ passed = [c \in Codes |-> 0]

-----------------------------------------------------------------------------
\* send_sms_code.

PhoneFree(p) == cooldown = None

\* cache.add: the phone is reserved over all purposes before anything is paid for.
Reserve(s, p) ==
    /\ sender[s] = Idle /\ last < MaxCodes
    /\ PhoneFree(p)
    /\ last' = last + 1 /\ cooldown' = last'
    /\ sender' = [sender EXCEPT ![s] = [pc |-> "quota", purpose |-> p, code |-> last']]
    /\ UNCHANGED <<daily, code, attempts, verifier, calls, today, accepted, activated, misses, passed>>

WithinLimit(n) == n <= DailyLimit

\* _increment_counter; a send over the limit ends and keeps the cooldown.
TakeQuota(s) ==
    /\ sender[s].pc = "quota"
    /\ daily' = daily + 1
    /\ IF WithinLimit(daily')
       THEN /\ sender' = [sender EXCEPT ![s].pc = "call"]
            /\ calls' = calls + 1 /\ today' = today + 1
       ELSE sender' = [sender EXCEPT ![s] = Idle] /\ UNCHANGED <<calls, today>>
    /\ UNCHANGED <<cooldown, code, attempts, verifier, last, accepted, activated, misses, passed>>

\* send_verification_sms: accepted for this recipient ...
Accepted(s) ==
    /\ sender[s].pc = "call"
    /\ accepted' = accepted \cup {sender[s].code}
    /\ sender' = [sender EXCEPT ![s].pc = "check"]
    /\ UNCHANGED <<cache, verifier, last, calls, today, activated, misses, passed>>

AfterFailure(s) == UNCHANGED <<cooldown, attempts>>

Failed(s) ==
    /\ sender[s].pc = "call"
    /\ sender' = [sender EXCEPT ![s] = Idle]
    /\ AfterFailure(s)
    /\ UNCHANGED <<daily, code, verifier, sent, misses, passed>>

StillHolds(s) == cooldown = sender[s].code

CheckReservation(s) ==
    /\ sender[s].pc = "check"
    /\ sender' = [sender EXCEPT ![s] = IF StillHolds(s) THEN [@ EXCEPT !.pc = "activate"] ELSE Idle]
    /\ UNCHANGED <<cache, verifier, sent, misses, passed>>

\* The code is set, its misses start anew and the cooldown is renewed.
Activate(s) ==
    /\ sender[s].pc = "activate"
    /\ LET p == sender[s].purpose IN
       /\ code' = [code EXCEPT ![p] = sender[s].code]
       /\ attempts' = [attempts EXCEPT ![p] = 0]
       /\ activated' = [activated EXCEPT ![p] = sender[s].code]
    /\ cooldown' = sender[s].code
    /\ sender' = [sender EXCEPT ![s] = Idle]
    /\ UNCHANGED <<daily, verifier, last, calls, today, accepted, misses, passed>>

-----------------------------------------------------------------------------
\* verify_sms_code.

ReadCode(v, p) ==
    /\ verifier[v] = Idle /\ code[p] # None
    /\ verifier' = [verifier EXCEPT ![v] = [pc |-> "compare", purpose |-> p, code |-> code[p]]]
    /\ UNCHANGED <<cache, sender, sent, misses, passed>>

Exhausted(n) == n >= MaxAttempts

Miss(v) ==
    /\ verifier[v].pc = "compare"
    /\ LET p == verifier[v].purpose IN
       /\ attempts' = [attempts EXCEPT ![p] = @ + 1]
       /\ code' = IF Exhausted(attempts'[p]) THEN [code EXCEPT ![p] = None] ELSE code
    /\ misses' = [misses EXCEPT ![verifier[v].code] = @ + 1]
    /\ verifier' = [verifier EXCEPT ![v] = Idle]
    /\ UNCHANGED <<cooldown, daily, sender, sent, passed>>

\* The code was right: it and its misses are deleted, and the caller goes on.
Pass(v) ==
    /\ verifier[v].pc = "compare"
    /\ LET p == verifier[v].purpose IN
       /\ code' = [code EXCEPT ![p] = None]
       /\ attempts' = [attempts EXCEPT ![p] = 0]
    /\ passed' = [passed EXCEPT ![verifier[v].code] = @ + 1]
    /\ verifier' = [verifier EXCEPT ![v] = Idle]
    /\ UNCHANGED <<cooldown, daily, sender, sent, misses>>

-----------------------------------------------------------------------------
\* Time.  A cooldown, longer than two timeouts, may end while a call hangs, but not
\* between two calls of the cache that follow each other.
\* Codes that are compared are not replaced meanwhile: sends are a minute apart.
CooldownEnds ==
    /\ cooldown # None
    /\ \A s \in Senders : sender[s].pc \notin {"quota", "activate"}
    /\ \A v \in Verifiers : verifier[v] = Idle
    /\ cooldown' = None /\ calls' = 0
    /\ UNCHANGED <<daily, code, attempts, sender, verifier, last, today, accepted, activated, misses, passed>>

CodeExpires(p) ==
    /\ code[p] # None
    /\ code' = [code EXCEPT ![p] = None]
    /\ UNCHANGED <<cooldown, daily, attempts, sender, verifier, sent, misses, passed>>

NewDay ==
    /\ daily > 0
    /\ daily' = 0 /\ today' = 0
    /\ UNCHANGED <<cooldown, code, attempts, sender, verifier, last, calls, accepted, activated, misses, passed>>

Next ==
    \/ \E s \in Senders :
         \/ \E p \in Purposes : Reserve(s, p)
         \/ TakeQuota(s) \/ Accepted(s) \/ Failed(s) \/ CheckReservation(s) \/ Activate(s)
    \/ \E v \in Verifiers : Miss(v) \/ Pass(v) \/ \E p \in Purposes : ReadCode(v, p)
    \/ CooldownEnds \/ NewDay \/ \E p \in Purposes : CodeExpires(p)

Spec == Init /\ [][Next]_vars

-----------------------------------------------------------------------------
\* The shape of the state; a sender is busy with a code reserved before.
TypeOK ==
    /\ cooldown \in 0..last /\ last \in 0..MaxCodes
    /\ daily \in Nat /\ today \in 0..daily
    /\ code \in [Purposes -> 0..last] /\ activated \in [Purposes -> 0..last]
    /\ attempts \in [Purposes -> Nat] /\ calls \in Nat
    /\ \A s \in Senders : sender[s] # Idle =>
          sender[s].pc \in {"quota", "call", "check", "activate"} /\ sender[s].code \in 1..last
    /\ \A v \in Verifiers : verifier[v] # Idle => verifier[v].code \in accepted
    /\ accepted \subseteq 1..last
    /\ misses \in [Codes -> Nat] /\ passed \in [Codes -> Nat]

\* Messages are paid for: until the time of a cooldown has passed, however its call
\* ended and whatever purpose is asked for, there is no second call for the phone.
SpacedCalls == calls <= 1

\* No more calls a day than the limit, over all purposes and senders.
WithinQuota == today <= DailyLimit

\* What is active was accepted by the gateway; a failed send leaves the code before it.
ActiveIsAccepted == \A p \in Purposes : code[p] # None => code[p] \in accepted

\* A sender whose answer comes after its reservation was lost replaces no newer code of
\* its purpose.
NeverOlder == \A p \in Purposes : activated'[p] >= activated[p]

\* A code is guessed at most as often as the limit allows one after the other, and once
\* more by each request that had read it when the last of those was counted.
GuessesBounded == \A c \in Codes : misses[c] <= MaxAttempts + Cardinality(Verifiers) - 1

\* A code serves one verification.
CodeOnce == \A c \in Codes : passed[c] <= 1
=============================================================================
