---------------------------- MODULE WechatLogin ----------------------------
(***************************************************************************)
(* Logging in with WeChat and linking WeChat to an account                 *)
(* (accounts/wechat_login.py, wechat_binding.py).  A person has one openid *)
(* per app and one UnionID over all apps, which an answer may leave out.   *)
(* An answer of WeChat is kept in the cache as a ticket; login, binding of *)
(* a phone and binding to an account redeem it in one transaction each.    *)
(* Those transactions interleave: only the rows they lock and the unique   *)
(* constraints they meet keep them apart, and what one has not committed   *)
(* is seen by no other.                                                    *)
(***************************************************************************)
EXTENDS Naturals, FiniteSets

CONSTANTS
    Users,       \* accounts, each with its own phone number
    Persons,     \* people with a WeChat account
    Devices,     \* sessions of an account
    Tickets,     \* authorisations at WeChat that may be started
    Requests,    \* requests of the server at one time
    Ops,         \* which operations requests perform: "resolve", "phone", "bind", "mobile"
    CrossChannel,  \* WECHAT_CROSS_CHANNEL_UNIONID_ENABLED
    MaxVersion   \* bound: auth_version

ASSUME LoginAssumption ==
    /\ CrossChannel \in BOOLEAN /\ MaxVersion \in Nat \ {0}
    /\ "none" \notin Users /\ "none" \notin Tickets

Apps == {"official_account", "mobile_app"}
None == [user |-> "none"]
Idle == [op |-> "idle"]
NoOwner == [device |-> "none"]

VARIABLES
    status,    \* account -> "none" (not created), "active" or "suspended"
    version,   \* account -> auth_version
    row,       \* app, person -> WechatLoginIdentity: its user, whether the unionid is known
    claim,     \* person -> user of WechatUnionIdentity
    ticket,    \* cache: an authorisation and how far it got
    used,      \* cache: tickets with a ":used" marker
    request,   \* what each request is doing
    redeemed   \* history: ticket -> number of transactions that committed with it

accounts == <<status, version>>
identities == <<row, claim>>
vars == <<accounts, identities, ticket, used, request, redeemed>>

Identities == [app : Apps, person : Persons, union : BOOLEAN]

Init ==
    /\ status \in [Users -> {"none", "active"}] /\ version = [u \in Users |-> 1]
    /\ row = [a \in Apps |-> [p \in Persons |-> None]]
    /\ claim = [p \in Persons |-> None]
    /\ ticket = [t \in Tickets |-> [stage |-> "none"]] /\ used = {}
    /\ request = [r \in Requests |-> Idle]
    /\ redeemed = [t \in Tickets |-> 0]

-----------------------------------------------------------------------------
\* Accounts.

Holds(r, u) == request[r] # Idle /\ request[r].user = u /\ request[r].locked
Locked(u) == \E r \in Requests : Holds(r, u)

\* A password change, a logout of the other sessions and the like end all sessions.
EndSessions(u) ==
    /\ status[u] = "active" /\ ~Locked(u) /\ version[u] < MaxVersion
    /\ version' = [version EXCEPT ![u] = @ + 1]
    /\ UNCHANGED <<status, identities, ticket, used, request, redeemed>>

Suspend(u) ==
    /\ status[u] = "active" /\ ~Locked(u)
    /\ status' = [status EXCEPT ![u] = "suspended"]
    /\ UNCHANGED <<version, identities, ticket, used, request, redeemed>>

-----------------------------------------------------------------------------
\* Authorisation at WeChat: a state for a page, or a code from the app.

BeginH5(t, owner) ==
    /\ ticket[t].stage = "none"
    /\ ticket' = [ticket EXCEPT ![t] = [stage |-> "state", owner |-> owner]]
    /\ UNCHANGED <<accounts, identities, used, request, redeemed>>

begin_h5_login(t) == "resolve" \in Ops /\ BeginH5(t, NoOwner)

OwnerOf(u, d) == [user |-> u, version |-> version[u], device |-> d]

begin_h5_binding(t, u, d) ==
    /\ "bind" \in Ops /\ status[u] = "active" /\ ~Locked(u)
    /\ BeginH5(t, OwnerOf(u, d))

IssueTicket(t, owner, id) ==
    /\ ticket' = [ticket EXCEPT ![t] = [stage |-> "ticket", owner |-> owner, id |-> id]]
    /\ UNCHANGED <<accounts, identities, used, request, redeemed>>

\* WeChat answers a code with who it was, with or without the unionid.  A refusal,
\* like an entry that expires, leaves a ticket nobody redeems.
ExchangeCode(t, app, id) == id.app = app /\ IssueTicket(t, ticket[t].owner, id)

\* The callback redeems the state and exchanges the code.
complete_h5_callback(t, id) ==
    /\ ticket[t].stage = "state" /\ ticket[t].owner = NoOwner
    /\ ExchangeCode(t, "official_account", id)

complete_h5_binding_callback(t, id) ==
    /\ ticket[t].stage = "state" /\ ticket[t].owner # NoOwner
    /\ ExchangeCode(t, "official_account", id)

begin_mobile_login(t, id) ==
    /\ "resolve" \in Ops /\ ticket[t].stage = "none" /\ id.app = "mobile_app"
    /\ IssueTicket(t, NoOwner, id)

-----------------------------------------------------------------------------
\* How the four transactions begin.

Loadable(t) == ticket[t].stage = "ticket" /\ t \notin used
LoginTicket(t) == Loadable(t) /\ ticket[t].owner = NoOwner

Start(r, op, t, id, u, locked, stage, owner) ==
    /\ op \in Ops /\ request[r] = Idle
    /\ request' = [request EXCEPT ![r] =
                     [op |-> op, ticket |-> t, id |-> id, user |-> u, locked |-> locked,
                      stage |-> stage, owner |-> owner, claimed |-> FALSE, row |-> None]]
    /\ UNCHANGED <<accounts, identities, ticket, used, redeemed>>

UsersOf(p) == {row[a][p].user : a \in {b \in Apps : row[b][p] # None /\ row[b][p].union}}

\* The account an identity logs in to: of its own row, else the one of its unionid.
Resolves(id, u) ==
    IF row[id.app][id.person] # None THEN row[id.app][id.person].user = u
    ELSE id.union /\ CrossChannel /\ UsersOf(id.person) = {u}

resolve_login(r, t) ==
    /\ LoginTicket(t)
    /\ LET id == ticket[t].id
           known == row[id.app][id.person] # None
       IN  \E u \in Users :
               /\ Resolves(id, u) /\ status[u] = "active"
               /\ known \/ ~Locked(u)
               /\ Start(r, "resolve", t, id, u, ~known, "consume", NoOwner)

\* Once the SMS code for the phone of u was verified.
bind_phone(r, t, u) ==
    /\ LoginTicket(t)
    /\ Start(r, "phone", t, ticket[t].id, u, FALSE, "consume", NoOwner)

\* The request passed authentication with the version of this moment.
complete_h5_binding(r, t, u, d) ==
    /\ Loadable(t) /\ ticket[t].owner # NoOwner /\ status[u] = "active"
    /\ Start(r, "bind", t, ticket[t].id, u, FALSE, "owner", OwnerOf(u, d))

bind_mobile(r, u, id) ==
    /\ id.app = "mobile_app" /\ status[u] = "active"
    /\ Start(r, "mobile", "none", id, u, FALSE, "owner", OwnerOf(u, "app"))

-----------------------------------------------------------------------------
\* Locks and tickets.

At(r, stage) == request[r] # Idle /\ request[r].stage = stage

\* An error rolls everything of the request back, the marker of the ticket excepted.
End(r) ==
    /\ request' = [request EXCEPT ![r] = Idle]
    /\ UNCHANGED <<accounts, identities, ticket, used, redeemed>>

Continue(r, q) ==
    /\ request' = [request EXCEPT ![r] = q]
    /\ UNCHANGED <<accounts, identities, ticket, used, redeemed>>

\* Mutant of OwnerStands: the session the request came with is trusted.
OwnerStands_Stale(q) ==
    status[q.user] = "active" /\ (q.op = "bind" => ticket[q.ticket].owner = q.owner)
OwnerStands(q) ==
    /\ status[q.user] = "active" /\ version[q.user] = q.owner.version
    /\ q.op = "bind" => ticket[q.ticket].stage = "ticket" /\ ticket[q.ticket].owner = q.owner

LockOwner(r) ==
    /\ At(r, "owner") /\ ~Locked(request[r].user)
    /\ LET q == request[r] IN
       IF OwnerStands(q)
       THEN Continue(r, [q EXCEPT !.locked = TRUE,
                                  !.stage = IF q.op = "bind" THEN "consume" ELSE "union"])
       ELSE End(r)

\* cache.add decides; the payload is then deleted.
Consume(r) ==
    /\ At(r, "consume")
    /\ LET q == request[r] IN
       IF q.ticket \in used THEN End(r)
       ELSE /\ used' = used \cup {q.ticket}
            /\ request' = [request EXCEPT ![r].stage = IF q.op = "phone" THEN "phone" ELSE "union"]
            /\ UNCHANGED <<accounts, identities, ticket, redeemed>>

\* The account of the phone is locked, or created: the unique phone then keeps
\* others waiting until this transaction ends.
LockPhone(r) ==
    /\ At(r, "phone") /\ ~Locked(request[r].user)
    /\ IF status[request[r].user] = "suspended" THEN End(r)
       ELSE Continue(r, [request[r] EXCEPT !.locked = TRUE, !.stage = "union"])

-----------------------------------------------------------------------------
\* _attach_identity.

CheckUnion(r) ==
    /\ At(r, "union")
    /\ LET q == request[r] IN
       IF ~(q.id.union /\ CrossChannel) THEN Continue(r, [q EXCEPT !.stage = "rows"])
       ELSE IF UsersOf(q.id.person) \subseteq {q.user}
            THEN Continue(r, [q EXCEPT !.stage = "claim"]) ELSE End(r)

\* get_or_create on a unique column waits for an insert that is not yet decided.
\* Mutant of Claim: the check of the existing identities is all there is.
Claim_None(r) == At(r, "claim") /\ Continue(r, [request[r] EXCEPT !.stage = "rows"])
Claim(r) ==
    /\ At(r, "claim")
    /\ LET q == request[r] IN
       IF claim[q.id.person] # None
       THEN IF claim[q.id.person].user = q.user
            THEN Continue(r, [q EXCEPT !.stage = "rows"]) ELSE End(r)
       ELSE /\ \A x \in Requests \ {r} : request[x] # Idle =>
                   ~(request[x].claimed /\ request[x].id.person = q.id.person)
            /\ Continue(r, [q EXCEPT !.stage = "rows", !.claimed = TRUE])

Others(u, id) == {p \in Persons \ {id.person} : row[id.app][p] # None /\ row[id.app][p].user = u}

ReadRows(r) ==
    /\ At(r, "rows")
    /\ LET q == request[r]
           existing == row[q.id.app][q.id.person]
       IN  IF (existing = None \/ existing.user = q.user) /\ Others(q.user, q.id) = {}
           THEN Continue(r, [q EXCEPT !.stage = "write", !.row = existing]) ELSE End(r)

\* The row that is written, if the unique constraints admit it.
Written(q) == [user |-> q.user, union |-> q.id.union \/ (q.row # None /\ q.row.union)]
\* Mutant of Admitted: the earlier reads are relied on.
Admitted_Read(q) == TRUE
Admitted(q) ==
    q.row # None \/ (row[q.id.app][q.id.person] = None /\ Others(q.user, q.id) = {})

\* auth_payload, at the end of a login: the account's lock and its status again.
SessionAllowed(q) == q.op \in {"bind", "mobile"} \/ status[q.user] # "suspended"

Account(q) == IF q.op = "phone" THEN "active" ELSE status[q.user]

WriteAndCommit(r) ==
    /\ At(r, "write")
    /\ LET q == request[r] IN
       /\ q.locked \/ ~Locked(q.user)
       /\ IF ~(Admitted(q) /\ SessionAllowed(q)) THEN End(r)
          ELSE /\ row' = [row EXCEPT ![q.id.app][q.id.person] = Written(q)]
               /\ claim' = IF q.claimed THEN [claim EXCEPT ![q.id.person] = [user |-> q.user]]
                           ELSE claim
               /\ status' = [status EXCEPT ![q.user] = Account(q)]
               /\ redeemed' = [t \in Tickets |->
                                 IF t = q.ticket THEN redeemed[t] + 1 ELSE redeemed[t]]
               /\ request' = [request EXCEPT ![r] = Idle]
               /\ UNCHANGED <<version, ticket, used>>

\* A worker dies, or the database breaks a cycle of waiting transactions.
Abort(r) == request[r] # Idle /\ End(r)

-----------------------------------------------------------------------------
Next ==
    \/ \E u \in Users : EndSessions(u) \/ Suspend(u)
    \/ \E t \in Tickets :
         \/ begin_h5_login(t)
         \/ \E u \in Users, d \in Devices : begin_h5_binding(t, u, d)
         \/ \E id \in Identities :
              \/ complete_h5_callback(t, id) \/ complete_h5_binding_callback(t, id)
              \/ begin_mobile_login(t, id)
    \/ \E r \in Requests :
         \/ \E t \in Tickets : resolve_login(r, t)
         \/ \E t \in Tickets, u \in Users : bind_phone(r, t, u)
         \/ \E t \in Tickets, u \in Users, d \in Devices : complete_h5_binding(r, t, u, d)
         \/ \E u \in Users, id \in Identities : bind_mobile(r, u, id)
         \/ LockOwner(r) \/ Consume(r) \/ LockPhone(r)
         \/ CheckUnion(r) \/ Claim(r) \/ ReadRows(r) \/ WriteAndCommit(r) \/ Abort(r)

Spec == Init /\ [][Next]_vars

-----------------------------------------------------------------------------
\* The shape of the state.
TypeOK ==
    /\ status \in [Users -> {"none", "active", "suspended"}]
    /\ version \in [Users -> 1..MaxVersion]
    /\ row \in [Apps -> [Persons -> {None} \cup [user : Users, union : BOOLEAN]]]
    /\ claim \in [Persons -> {None} \cup [user : Users]]
    /\ \A a \in Apps, p \in Persons : row[a][p] # None => status[row[a][p].user] # "none"
    /\ \A t \in Tickets : ticket[t].stage \in {"none", "state", "ticket"}
    /\ used \subseteq Tickets
    /\ \A r \in Requests : request[r] # Idle =>
         /\ request[r].op \in Ops /\ request[r].user \in Users /\ request[r].id \in Identities
         /\ request[r].stage \in {"owner", "consume", "phone", "union", "claim", "rows", "write"}
         /\ status[request[r].user] = "none" => request[r].op = "phone"
    /\ redeemed \in [Tickets -> Nat]

\* One person, one account: identities of different apps that are known to belong to
\* the same person log in to the same account, although a page and an app may be
\* bound at the same moment by transactions that lock different accounts.
OnePersonOneUser == \A p \in Persons : Cardinality(UsersOf(p)) <= 1

\* One account has at most one WeChat per app, and so is never reached by two people
\* of the same app, whatever the transactions had read before they wrote.
OneWechatPerApp ==
    \A a \in Apps, p1, p2 \in Persons :
        row[a][p1] # None /\ row[a][p2] # None /\ row[a][p1].user = row[a][p2].user => p1 = p2

\* A ticket serves once: of all requests that loaded it, one at most commits.
TicketOnce == \A t \in Tickets : redeemed[t] <= 1

\* Nothing that was bound is ever bound to someone else, neither the identity of an
\* app nor the claim of a person.
MovesNothing ==
    /\ \A a \in Apps, p \in Persons : row[a][p] # None =>
          row'[a][p] # None /\ row'[a][p].user = row[a][p].user
    /\ \A p \in Persons : claim[p] # None => claim'[p] = claim[p]
NeverMoved == [][MovesNothing]_vars

\* A page authorised for binding binds the account that started it, while the session
\* that started it is still valid: no password change, suspension or change of device
\* came between.
RedeemedByOwner ==
    \A t \in Tickets : redeemed'[t] > redeemed[t] /\ ticket[t].stage = "ticket" =>
       LET o == ticket[t].owner
           id == ticket[t].id
       IN  o # NoOwner =>
             /\ row'[id.app][id.person].user = o.user
             /\ version[o.user] = o.version /\ status[o.user] = "active"
             /\ \E r \in Requests : request[r] # Idle /\ request[r].owner = o
BindsItsOwner == [][RedeemedByOwner]_vars
=============================================================================
