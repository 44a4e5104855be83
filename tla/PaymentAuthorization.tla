------------------------ MODULE PaymentAuthorization ------------------------
(***************************************************************************)
(* Authorising a WeChat payer.  Before a payment inside the official       *)
(* account, a browser session is sent to WeChat with a state; the callback *)
(* redeems the state for the payer's openid and stores a grant for that    *)
(* session and that payment; starting the payment consumes the grant.      *)
(* Everything is kept in a cache, read and written one call at a time,     *)
(* and every entry lives for Life; a request is ended by the web server    *)
(* after RequestTime.                                                      *)
(***************************************************************************)
EXTENDS Naturals, FiniteSets

CONSTANTS
    Sessions,      \* login sessions of one user
    Kinds,         \* kinds of payments that share the number of a business
    Persons,       \* WeChat identities that may answer an authorisation
    Requests,      \* requests of the server at one time
    States,        \* authorisation states that may be issued
    Life,          \* WECHAT_OAUTH_STATE_MAX_AGE_SECONDS
    RequestTime,   \* the web server's limit for one request
    MaxTime

AuthorizationAssumption == Life \in Nat /\ RequestTime \in Nat /\ RequestTime < Life

None == [until |-> 0]
Idle == [pc |-> "idle"]

VARIABLES
    clock,
    valid,      \* the user's auth_version is still the one of these sessions
    payable,    \* kinds whose payment is pending and not expired
    state,      \* cache: state -> the context it was issued for
    redeemed,   \* cache: state -> its ":used" marker
    grant,      \* cache: key -> the openid and nonce granted
    consumed,   \* cache: nonce -> its ":used" marker
    request,    \* what each request is doing
    issued,     \* history: state -> [session, kind] it was issued for
    granted,    \* history: the grants ever stored, as [nonce, key, person]
    started     \* history: the payments started, as [request number, session, kind, nonce]

cache == <<state, redeemed, grant, consumed>>
history == <<issued, granted, started>>
vars == <<clock, valid, payable, cache, request, history>>

Targets == [session : Sessions, kind : Kinds]

grant_key(s, k) == [session |-> s, kind |-> k]

Live(entry) == clock < entry.until
Nonces == 0..(Cardinality(States) * 2)

Init ==
    /\ clock = 0 /\ valid = TRUE /\ payable = Kinds
    /\ state = [t \in States |-> None] /\ redeemed = [t \in States |-> None]
    /\ grant = [k \in Targets |-> None] /\ consumed = [n \in Nonces |-> None]
    /\ request = [r \in Requests |-> Idle]
    /\ issued = [t \in States |-> None] /\ granted = {} /\ started = {}

-----------------------------------------------------------------------------

Usable(g) == Live(g) /\ ~Live(consumed[g.nonce])

\* build_payment_authorization: an unused grant is enough, otherwise a fresh
\* state is issued for this session and this payment.
BuildAuthorization(s, k, t) ==
    /\ valid /\ k \in payable
    /\ ~Usable(grant[grant_key(s, k)])
    /\ issued[t] = None
    /\ state' = [state EXCEPT ![t] = [session |-> s, kind |-> k, until |-> clock + Life]]
    /\ issued' = [issued EXCEPT ![t] = [session |-> s, kind |-> k, until |-> clock + Life]]
    /\ UNCHANGED <<clock, valid, payable, redeemed, grant, consumed, request, granted, started>>

\* complete_payment_authorization: the state is read ...
CallbackReads(r, t, p) ==
    /\ request[r] = Idle
    /\ Live(state[t])
    /\ request' = [request EXCEPT ![r] =
                      [pc |-> "claim", at |-> clock, t |-> t, person |-> p, context |-> state[t]]]
    /\ UNCHANGED <<clock, valid, payable, cache, history>>

\* Mutant of ClaimState: the marker is looked at and written in two calls.
ClaimState_Overwrite(t) == redeemed' = [redeemed EXCEPT ![t] = [until |-> clock + Life]]
\* cache.add on the ":used" key: at most one callback passes.
ClaimState(t) ==
    /\ ~Live(redeemed[t])
    /\ redeemed' = [redeemed EXCEPT ![t] = [until |-> clock + Life]]

\* ... claimed, and deleted.
CallbackClaims(r) ==
    /\ request[r].pc = "claim"
    /\ ClaimState(request[r].t)
    /\ state' = [state EXCEPT ![request[r].t] = None]
    /\ request' = [request EXCEPT ![r].pc = "check"]
    /\ UNCHANGED <<clock, valid, payable, grant, consumed, history>>

\* The user and the pending payment are read before the code is exchanged.
CallbackChecks(r) ==
    /\ request[r].pc = "check"
    /\ request' = [request EXCEPT ![r] =
                      IF valid /\ @.context.kind \in payable THEN [@ EXCEPT !.pc = "exchange"] ELSE Idle]
    /\ UNCHANGED <<clock, valid, payable, cache, history>>

\* WeChat names the payer; the grant gets a nonce of its own.
CallbackGrants(r) ==
    LET c == request[r].context
        n == Cardinality(granted)
        key == grant_key(c.session, c.kind) IN
    /\ request[r].pc = "exchange" /\ n \in Nonces
    /\ grant' = [grant EXCEPT ![key] = [nonce |-> n, person |-> request[r].person, until |-> clock + Life]]
    /\ granted' = granted \union {[nonce |-> n, t |-> request[r].t, person |-> request[r].person]}
    /\ request' = [request EXCEPT ![r] = Idle]
    /\ UNCHANGED <<clock, valid, payable, state, redeemed, consumed, issued, started>>

\* A used or expired state, a refused code: the browser has to start again.
CallbackRefused(r) ==
    /\ \/ request[r].pc = "claim" /\ Live(redeemed[request[r].t])
       \/ request[r].pc = "exchange"
    /\ request' = [request EXCEPT ![r] = Idle]
    /\ UNCHANGED <<clock, valid, payable, cache, history>>

-----------------------------------------------------------------------------

\* The payment session view: the request was authenticated, then reads the
\* grant of its session and payment; neither call sees the other request's.
PaymentReads(r, s, k) ==
    LET g == grant[grant_key(s, k)] IN
    /\ request[r] = Idle
    /\ valid /\ Usable(g)
    /\ request' = [request EXCEPT ![r] =
                      [pc |-> "consume", at |-> clock, session |-> s, kind |-> k, grant |-> g]]
    /\ UNCHANGED <<clock, valid, payable, cache, history>>

MarkerLife == Life

\* cache.add on the nonce: at most one payment starts with a grant.
ClaimGrant(n) ==
    /\ ~Live(consumed[n])
    /\ consumed' = [consumed EXCEPT ![n] = [until |-> clock + MarkerLife]]

PaymentStarts(r) ==
    LET g == request[r].grant IN
    /\ request[r].pc = "consume"
    /\ ClaimGrant(g.nonce)
    /\ started' = started \union {[n |-> Cardinality(started), session |-> request[r].session,
                                   kind |-> request[r].kind, nonce |-> g.nonce, person |-> g.person]}
    /\ request' = [request EXCEPT ![r] = Idle]
    /\ UNCHANGED <<clock, valid, payable, state, redeemed, grant, issued, granted>>

PaymentRefused(r) ==
    /\ request[r].pc = "consume" /\ Live(consumed[request[r].grant.nonce])
    /\ request' = [request EXCEPT ![r] = Idle]
    /\ UNCHANGED <<clock, valid, payable, cache, history>>

-----------------------------------------------------------------------------

\* A request that takes too long is ended by the web server.
Tick ==
    /\ clock < MaxTime
    /\ clock' = clock + 1
    /\ request' = [r \in Requests |->
                      IF request[r] # Idle /\ clock + 1 > request[r].at + RequestTime THEN Idle ELSE request[r]]
    /\ UNCHANGED <<valid, payable, cache, history>>

\* Credentials change, or a payment is made or expires.
Invalidate ==
    /\ valid
    /\ \/ valid' = FALSE /\ UNCHANGED payable
       \/ \E k \in payable : payable' = payable \ {k} /\ UNCHANGED valid
    /\ UNCHANGED <<clock, cache, request, history>>

Next ==
    \/ Tick \/ Invalidate
    \/ \E s \in Sessions, k \in Kinds, t \in States : BuildAuthorization(s, k, t)
    \/ \E r \in Requests :
        \/ \E t \in States, p \in Persons : CallbackReads(r, t, p)
        \/ CallbackClaims(r) \/ CallbackChecks(r) \/ CallbackGrants(r) \/ CallbackRefused(r)
        \/ \E s \in Sessions, k \in Kinds : PaymentReads(r, s, k)
        \/ PaymentStarts(r) \/ PaymentRefused(r)

Spec == Init /\ [][Next]_vars

-----------------------------------------------------------------------------
(* Properties.                                                             *)

\* Every variable has its type.
TypeOK ==
    /\ clock \in 0..MaxTime /\ valid \in BOOLEAN /\ payable \subseteq Kinds
    /\ \A t \in States : state[t].until \in 0..(MaxTime + Life) /\ redeemed[t].until \in 0..(MaxTime + Life)
    /\ \A k \in Targets : grant[k] # None => grant[k].nonce \in Nonces
    /\ \A r \in Requests : request[r].pc \in {"idle", "claim", "check", "exchange", "consume"}
    /\ Cardinality(granted) <= Cardinality(States)

\* get_official_account_openid(consume=True): an authorisation starts at most
\* one payment, also after its marker was forgotten by the cache.
GrantOnce == \A a, b \in started : a.nonce = b.nonce => a = b

\* complete_payment_authorization: a state is redeemed at most once, whatever
\* callbacks arrive together or later.
StateOnce == \A a, b \in granted : a.t = b.t => a = b

\* _grant_key: a payment is started only with an authorisation that was asked
\* for by the same login session and for the same payment.
OwnAuthorization ==
    \A a \in started : \E g \in granted :
        /\ g.nonce = a.nonce /\ g.person = a.person
        /\ issued[g.t].session = a.session /\ issued[g.t].kind = a.kind
=============================================================================
