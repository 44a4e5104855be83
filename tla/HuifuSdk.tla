------------------------------ MODULE HuifuSdk ------------------------------
(***************************************************************************)
(* Calls through the channel's SDK, which keeps its configuration and its  *)
(* response parser in process-global classes. Threads of a worker make     *)
(* payment calls (orders/huifu.py), payout calls                           *)
(* (orders/distribution_transport.py) and calls for receiving accounts     *)
(* (providers/huifu_user_transport.py), all under _SDK_LOCK. Payment calls *)
(* set the configuration; the other two also replace the SDK's parser by a *)
(* strict one of their own and put everything back.                        *)
(***************************************************************************)
EXTENDS Integers

CONSTANTS Threads, NoThread

VARIABLES
  owner,  \* holder of _SDK_LOCK
  sdk,    \* DGClient and ApiRequest: configuration and parser in force
  call    \* calls in flight and their results

vars == <<owner, sdk, call>>

Operations == {"create", "query", "close", "refund", "refund_query"}

Strict == {"payout", "onboarding"}

Kinds == Operations \cup Strict

\* All payment operations use the merchant's configuration.
ConfigOf(kind) == IF kind \in Strict THEN kind ELSE "merchant"

Untouched == "sdk"

Idle == [stage |-> "idle"]

\* A response: transport, envelope's signature, whose request it answers, code and state.
NoResponse == [arrived |-> FALSE, signed |-> FALSE, mine |-> FALSE, accepted |-> FALSE, state |-> ""]

Responses ==
  {NoResponse} \cup [arrived: {TRUE}, signed: BOOLEAN, mine: BOOLEAN, accepted: BOOLEAN, state: {"", "I", "P", "S", "F"}]

TypeOK ==
  /\ owner \in Threads \cup {NoThread}
  /\ sdk \in [config: {Untouched} \cup {ConfigOf(k) : k \in Kinds}, parser: {Untouched} \cup Threads]
  /\ \A t \in Threads :
       \/ call[t] = Idle
       \/ /\ call[t].stage \in {"locked", "ready", "posted", "ok", "error"}
          /\ call[t].kind \in Kinds
          /\ call[t].stage = "ok" => call[t].response \in Responses

Init ==
  /\ owner = NoThread
  /\ sdk = [config |-> Untouched, parser |-> Untouched]
  /\ call = [t \in Threads |-> Idle]

-----------------------------------------------------------------------------

\* Mutant: payment calls do not wait for the lock.
MayEnter_Payments(t, k) == k \in Operations \/ owner = NoThread

\* with _SDK_LOCK
MayEnter(t, k) == owner = NoThread

Enter(t, k) ==
  /\ call[t] = Idle
  /\ MayEnter(t, k)
  /\ owner' = t
  /\ call' = [call EXCEPT ![t] = [stage |-> "locked", kind |-> k, saved |-> sdk]]
  /\ UNCHANGED sdk

\* _init_sdk: the configuration stays behind
InitSdk(t) ==
  /\ call[t].stage = "locked" /\ call[t].kind \in Operations
  /\ sdk' = [sdk EXCEPT !.config = ConfigOf(call[t].kind)]
  /\ call' = [call EXCEPT ![t].stage = "ready"]
  /\ UNCHANGED owner

\* sdk_call: own configuration and own parser
Guard(t) ==
  /\ call[t].stage = "locked" /\ call[t].kind \in Strict
  /\ sdk' = [config |-> ConfigOf(call[t].kind), parser |-> t]
  /\ call' = [call EXCEPT ![t].stage = "ready"]
  /\ UNCHANGED owner

\* The request is signed with the configuration in force; the answer passes the parser in force.
Post(t) ==
  /\ call[t].stage = "ready"
  /\ \E r \in Responses :
       call' = [call EXCEPT ![t] = [stage |-> "posted", kind |-> @.kind, saved |-> @.saved, response |-> r,
                                    config |-> sdk.config, parser |-> sdk.parser]]
  /\ UNCHANGED <<owner, sdk>>

-----------------------------------------------------------------------------
(* What each call takes for an answer *)

CreateAccepts(r) == r.accepted /\ r.mine /\ r.state \in {"P", "S"}

QueryAccepts(r) == r.accepted /\ r.mine /\ r.state \in {"P", "S", "F"}

CloseAccepts(r) == r.accepted /\ r.mine /\ r.state \in {"P", "S", "F"}

\* _decode_refund_result: a submission may come without a state, a query may be initial
RefundAccepts(r, query) ==
  r.accepted /\ r.mine /\ r.state \in (IF query THEN {"I"} ELSE {""}) \cup {"P", "S", "F"}

\* checked_response: a signed envelope that went through the call's own parser
StrictAccepts(c) == c.response.signed /\ c.response.mine

Accepts(c) ==
  /\ c.response.arrived
  /\ CASE c.kind = "create" -> CreateAccepts(c.response)
       [] c.kind = "query" -> QueryAccepts(c.response)
       [] c.kind = "close" -> CloseAccepts(c.response)
       [] c.kind = "refund" -> RefundAccepts(c.response, FALSE)
       [] c.kind = "refund_query" -> RefundAccepts(c.response, TRUE)
       [] OTHER -> StrictAccepts(c)

\* finally: parser, builder and configuration are put back, whatever happened
Restored(t) == IF call[t].kind \in Strict THEN call[t].saved ELSE sdk

Leave(t) ==
  /\ call[t].stage = "posted"
  /\ sdk' = Restored(t)
  /\ owner' = IF owner = t THEN NoThread ELSE owner
  /\ call' = [call EXCEPT ![t].stage = IF Accepts(call[t]) THEN "ok" ELSE "error"]

\* The caller has used the result.
Done(t) ==
  /\ call[t].stage \in {"ok", "error"}
  /\ call' = [call EXCEPT ![t] = Idle]
  /\ UNCHANGED <<owner, sdk>>

Next ==
  \E t \in Threads :
    InitSdk(t) \/ Guard(t) \/ Post(t) \/ Leave(t) \/ Done(t) \/ \E k \in Kinds : Enter(t, k)

Spec == Init /\ [][Next]_vars

-----------------------------------------------------------------------------
(* Properties *)

\* No request is signed with the configuration of another kind of call.
OwnConfig ==
  \A t \in Threads : call[t].stage \in {"posted", "ok", "error"} => call[t].config = ConfigOf(call[t].kind)

\* A payout or receiving-account call answers only with a signed response that its
\* own strict parser has seen; a payment call never runs through another call's parser.
AnswersAreChecked ==
  \A t \in Threads :
    /\ call[t].stage = "ok" /\ call[t].kind \in Strict => call[t].response.signed /\ call[t].parser = t
    /\ call[t].stage \in {"posted", "ok", "error"} /\ call[t].kind \in Operations => call[t].parser = Untouched

\* When no call runs, the SDK's own parser is in force, whatever failed before.
LeftClean == owner = NoThread => sdk.parser = Untouched

=============================================================================
