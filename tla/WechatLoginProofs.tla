------------------------- MODULE WechatLoginProofs -------------------------
(***************************************************************************)
(* For any accounts, people, devices, tickets and requests: nothing that   *)
(* was bound moves, a person logs in to one account, an account has one    *)
(* identity per app, a ticket serves once, and a page binds the account    *)
(* that started it.                                                        *)
(***************************************************************************)
EXTENDS WechatLogin, TLAPS, FiniteSetTheorems

Rows == [user : Users, union : BOOLEAN]
Claims == [user : Users]
Owners == {NoOwner} \cup [user : Users, version : Nat, device : Devices \cup {"app"}]
Stages == {"owner", "consume", "phone", "union", "claim", "rows", "write"}
Running == [op : {"resolve", "phone", "bind", "mobile"}, ticket : Tickets \cup {"none"},
            id : Identities, user : Users, locked : BOOLEAN, stage : Stages,
            owner : Owners, claimed : BOOLEAN, row : {None} \cup Rows]
TicketStates == [stage : {"none"}] \cup [stage : {"state"}, owner : Owners]
                  \cup [stage : {"ticket"}, owner : Owners, id : Identities]

\* The shape of the state.
LoginType ==
    /\ status \in [Users -> {"none", "active", "suspended"}]
    /\ version \in [Users -> Nat]
    /\ row \in [Apps -> [Persons -> {None} \cup Rows]]
    /\ claim \in [Persons -> {None} \cup Claims]
    /\ ticket \in [Tickets -> TicketStates]
    /\ used \subseteq Tickets
    /\ request \in [Requests -> {Idle} \cup Running]
    /\ redeemed \in [Tickets -> Nat]

-----------------------------------------------------------------------------
(* Bindings.                                                               *)

ClaimedBy(p, u) == claim[p] = [user |-> u]

\* What a request has made sure of so far and no other transaction can undo.
Secured(q) ==
    /\ q.claimed => claim[q.id.person] = None /\ q.stage \in {"rows", "write"}
    /\ CrossChannel /\ q.id.union /\ q.stage \in {"rows", "write"} =>
         q.claimed \/ ClaimedBy(q.id.person, q.user)
    /\ q.stage = "write" /\ q.row # None =>
         /\ row[q.id.app][q.id.person] # None
         /\ row[q.id.app][q.id.person].user = q.user
         /\ CrossChannel /\ q.row.union => ClaimedBy(q.id.person, q.user)

AllSecured == \A r \in Requests : request[r] # Idle => Secured(request[r])

\* Two inserts of the same UnionID are never under way together.
ClaimsApart ==
    \A r, s \in Requests :
        /\ r # s /\ request[r] # Idle /\ request[s] # Idle
        /\ request[r].claimed /\ request[s].claimed
        => request[r].id.person # request[s].id.person

\* Where a row knows its person, the person's claim names the same account.
RowsClaimed ==
    CrossChannel =>
        \A a \in Apps, p \in Persons :
            row[a][p] # None /\ row[a][p].union => ClaimedBy(p, row[a][p].user)

(* Tickets.                                                                *)

Spent(q) == q # Idle /\ q.op # "mobile" /\ q.stage \notin {"owner", "consume"}

\* What a request knows of its ticket and, for a binding, of the session that started it.
Presented(q) ==
    /\ q.op = "mobile" => q.ticket = "none"
    /\ q.op # "mobile" =>
         /\ q.ticket \in Tickets /\ ticket[q.ticket].stage = "ticket"
         /\ ticket[q.ticket].id = q.id
    /\ q.op \in {"resolve", "phone"} => ticket[q.ticket].owner = NoOwner /\ q.stage # "owner"
    /\ q.op = "mobile" => q.stage # "consume"
    /\ q.op = "bind" /\ q.stage # "owner" =>
         /\ ticket[q.ticket].owner = q.owner /\ q.locked
         /\ q.owner.user = q.user /\ q.owner.version = version[q.user]
         /\ status[q.user] = "active"
    /\ q.op \in {"bind", "mobile"} => q.owner # NoOwner /\ q.owner.user = q.user
    /\ Spent(q) => q.ticket \in used /\ redeemed[q.ticket] = 0

AllPresented == \A r \in Requests : request[r] # Idle => Presented(request[r])

TicketsApart ==
    \A r, s \in Requests :
        r # s /\ Spent(request[r]) /\ Spent(request[s]) => request[r].ticket # request[s].ticket

Redeemed == \A t \in Tickets : redeemed[t] <= 1 /\ (redeemed[t] = 1 => t \in used)

LoginInv ==
    /\ LoginType
    /\ AllSecured /\ ClaimsApart /\ RowsClaimed /\ OneWechatPerApp
    /\ AllPresented /\ TicketsApart /\ Redeemed

-----------------------------------------------------------------------------
LEMMA Distinct ==
  /\ \A x \in Rows : x # None
  /\ \A x \in Claims : x # None
  /\ \A x \in Running : x # Idle
<1>1. ASSUME NEW x \in Rows PROVE x # None
  BY LoginAssumption DEF Rows, None
<1>2. ASSUME NEW x \in Claims PROVE x # None
  BY LoginAssumption DEF Claims, None
<1>3. ASSUME NEW x \in Running PROVE x # Idle
  BY DEF Running, Idle
<1>4. QED
  BY <1>1, <1>2, <1>3

LEMMA InitLogin == Init => LoginInv
<1> SUFFICES ASSUME Init PROVE LoginInv
  OBVIOUS
<1>1. LoginType
  BY DEF Init, LoginType, TicketStates
<1>2. AllSecured /\ ClaimsApart /\ AllPresented /\ TicketsApart
  BY DEF Init, AllSecured, ClaimsApart, AllPresented, TicketsApart, Spent
<1>3. RowsClaimed /\ OneWechatPerApp
  BY DEF Init, RowsClaimed, OneWechatPerApp, Apps
<1>4. Redeemed
  BY DEF Init, Redeemed
<1>5. QED
  BY <1>1, <1>2, <1>3, <1>4 DEF LoginInv

\* A step of a request that changes nothing but its own state.
LEMMA RequestStep ==
  ASSUME LoginInv, NEW r \in Requests, NEW q \in {Idle} \cup Running,
         UNCHANGED <<accounts, identities, ticket, used, redeemed>>,
         request' = [request EXCEPT ![r] = q],
         q # Idle => Secured(q) /\ Presented(q),
         q # Idle /\ q.claimed =>
            \A s \in Requests \ {r} : request[s] # Idle /\ request[s].claimed =>
               request[s].id.person # q.id.person,
         Spent(q) => Spent(request[r]) /\ request[r].ticket = q.ticket
  PROVE  LoginInv'
<1> USE DEF accounts, identities
<1>1. LoginType'
  BY DEF LoginInv, LoginType
<1>2. \A s \in Requests : request'[s] = IF s = r THEN q ELSE request[s]
  BY DEF LoginInv, LoginType
<1>3. \A x : (Secured(x)' <=> Secured(x)) /\ (Presented(x)' <=> Presented(x))
  <2>1. /\ row' = row /\ claim' = claim /\ ticket' = ticket /\ status' = status
        /\ version' = version /\ used' = used /\ redeemed' = redeemed
    OBVIOUS
  <2>2. \A x : Secured(x)' <=> Secured(x)
    BY <2>1, Zenon DEF Secured, ClaimedBy
  <2>3. \A x : Presented(x)' <=> Presented(x)
    BY <2>1 DEF Presented, Spent
  <2>4. QED
    BY <2>2, <2>3
<1>4. AllSecured' /\ AllPresented'
  BY <1>2, <1>3 DEF AllSecured, AllPresented, LoginInv
<1>5. ClaimsApart'
  BY <1>2 DEF ClaimsApart, LoginInv
<1>6. TicketsApart'
  BY <1>2 DEF TicketsApart, LoginInv, Spent
<1>7. RowsClaimed' /\ OneWechatPerApp' /\ Redeemed'
  BY DEF LoginInv, RowsClaimed, OneWechatPerApp, ClaimedBy, Redeemed
<1>8. QED
  BY <1>1, <1>4, <1>5, <1>6, <1>7 DEF LoginInv

LEMMA EndStep ==
  ASSUME LoginInv, NEW r \in Requests, End(r) PROVE LoginInv'
<1>1. UNCHANGED <<accounts, identities, ticket, used, redeemed>>
      /\ request' = [request EXCEPT ![r] = Idle]
  BY DEF End
<1>2. ~Spent(Idle)
  BY DEF Spent
<1>3. QED
  BY <1>1, <1>2, RequestStep

\* A request that goes on to another stage without claiming anything.
LEMMA GoOn ==
  ASSUME LoginInv, NEW r \in Requests, NEW q \in Running, request[r] # Idle, Continue(r, q),
         Secured(q), Presented(q), q.claimed => request[r].claimed, q.id = request[r].id,
         q.ticket = request[r].ticket, Spent(q) => Spent(request[r])
  PROVE  LoginInv'
<1>1. UNCHANGED <<accounts, identities, ticket, used, redeemed>>
      /\ request' = [request EXCEPT ![r] = q]
  BY DEF Continue
<1>2. q # Idle /\ q.claimed =>
        \A s \in Requests \ {r} : request[s] # Idle /\ request[s].claimed =>
           request[s].id.person # q.id.person
  BY DEF LoginInv, ClaimsApart
<1>3. QED
  BY <1>1, <1>2, RequestStep

LEMMA StartStep ==
  ASSUME LoginInv, NEW r \in Requests, NEW op \in {"resolve", "phone", "bind", "mobile"},
         NEW t \in Tickets \cup {"none"}, NEW id \in Identities, NEW u \in Users,
         NEW locked \in BOOLEAN, NEW stage \in {"owner", "consume"}, NEW owner \in Owners,
         Start(r, op, t, id, u, locked, stage, owner),
         op = "mobile" => t = "none" /\ stage = "owner",
         op # "mobile" => t \in Tickets /\ ticket[t].stage = "ticket" /\ ticket[t].id = id,
         op \in {"resolve", "phone"} => ticket[t].owner = NoOwner,
         op \in {"resolve", "phone"} => stage = "consume",
         op = "bind" => stage = "owner",
         op \in {"bind", "mobile"} => owner # NoOwner /\ owner.user = u
  PROVE  LoginInv'
<1> DEFINE q == [op |-> op, ticket |-> t, id |-> id, user |-> u, locked |-> locked,
                 stage |-> stage, owner |-> owner, claimed |-> FALSE, row |-> None]
<1>1. UNCHANGED <<accounts, identities, ticket, used, redeemed>>
      /\ request' = [request EXCEPT ![r] = q]
  BY DEF Start
<1>2. q \in Running
  BY DEF Running, Stages
<1>3. Secured(q)
  BY DEF Secured
<1>4. ~Spent(q)
  BY DEF Spent
<1>5. Presented(q)
  BY <1>4 DEF Presented
<1>6. ~q.claimed
  OBVIOUS
<1> HIDE DEF q
<1>7. QED
  BY <1>1, <1>2, <1>3, <1>4, <1>5, <1>6, RequestStep

-----------------------------------------------------------------------------
(* Accounts and tickets.                                                   *)

\* Ending sessions and suspending spare the accounts that a binding has locked.
LEMMA AccountStep ==
  ASSUME LoginInv, NEW u \in Users, EndSessions(u) \/ Suspend(u) PROVE LoginInv'
<1>1. /\ UNCHANGED <<identities, ticket, used, request, redeemed>> /\ ~Locked(u)
      /\ \A x \in Users \ {u} : status'[x] = status[x] /\ version'[x] = version[x]
  BY DEF EndSessions, Suspend, LoginInv, LoginType
<1> USE DEF identities
<1>2. LoginType'
  <2>1. version[u] + 1 \in Nat
    BY DEF LoginInv, LoginType
  <2>2. QED
    BY <1>1, <2>1 DEF EndSessions, Suspend, LoginInv, LoginType
<1>3. AllSecured' /\ ClaimsApart' /\ RowsClaimed' /\ OneWechatPerApp' /\ TicketsApart' /\ Redeemed'
  BY <1>1 DEF LoginInv, AllSecured, Secured, ClaimsApart, RowsClaimed, OneWechatPerApp,
              TicketsApart, Spent, Redeemed, ClaimedBy
<1>4. ASSUME NEW r \in Requests, request[r] # Idle PROVE Presented(request[r])'
  <2>1. Presented(request[r]) /\ request[r] \in Running
    BY <1>4 DEF LoginInv, AllPresented, LoginType
  <2>2. request[r].locked => request[r].user # u
    BY <1>1, <1>4 DEF Locked, Holds
  <2>3. request[r].user \in Users
    BY <2>1 DEF Running
  <2>4. QED
    BY <1>1, <2>1, <2>2, <2>3 DEF Presented, Spent
<1>5. AllPresented'
  BY <1>1, <1>4 DEF AllPresented
<1>6. QED
  BY <1>2, <1>3, <1>5 DEF LoginInv

\* A ticket that was not issued yet is known to no request.
LEMMA TicketStep ==
  ASSUME LoginInv, NEW t \in Tickets, NEW x \in TicketStates, ticket[t].stage # "ticket",
         ticket' = [ticket EXCEPT ![t] = x],
         UNCHANGED <<accounts, identities, used, request, redeemed>>
  PROVE  LoginInv'
<1> USE DEF accounts, identities
<1>1. LoginType'
  BY DEF LoginInv, LoginType
<1>2. AllSecured' /\ ClaimsApart' /\ RowsClaimed' /\ OneWechatPerApp' /\ TicketsApart' /\ Redeemed'
  BY DEF LoginInv, AllSecured, Secured, ClaimsApart, RowsClaimed, OneWechatPerApp,
         TicketsApart, Spent, Redeemed, ClaimedBy
<1>3. \A y \in Tickets \ {t} : ticket'[y] = ticket[y]
  BY DEF LoginInv, LoginType
<1>4. ASSUME NEW r \in Requests, request[r] # Idle PROVE Presented(request[r])'
  <2>1. Presented(request[r]) /\ request[r] \in Running
    BY <1>4 DEF LoginInv, AllPresented, LoginType
  <2>2. request[r].op \in {"resolve", "phone", "bind", "mobile"}
    BY <2>1 DEF Running
  <2>3. request[r].op # "mobile" => request[r].ticket \in Tickets \ {t}
    BY <2>1 DEF Presented
  <2>4. QED
    BY <1>3, <2>1, <2>2, <2>3 DEF Presented, Spent
<1>5. AllPresented'
  BY <1>4 DEF AllPresented
<1>6. QED
  BY <1>1, <1>2, <1>5 DEF LoginInv

LEMMA Authorisation ==
  ASSUME LoginInv, NEW t \in Tickets,
         \/ begin_h5_login(t)
         \/ \E u \in Users, d \in Devices : begin_h5_binding(t, u, d)
         \/ \E id \in Identities :
              complete_h5_callback(t, id) \/ complete_h5_binding_callback(t, id)
                \/ begin_mobile_login(t, id)
  PROVE  LoginInv'
<1>1. ASSUME NEW owner \in Owners, BeginH5(t, owner) PROVE LoginInv'
  <2>1. [stage |-> "state", owner |-> owner] \in TicketStates
    BY DEF TicketStates
  <2>2. QED
    BY <1>1, <2>1, TicketStep DEF BeginH5
<1>2. ASSUME NEW owner \in Owners, NEW id \in Identities, IssueTicket(t, owner, id),
             ticket[t].stage # "ticket"
      PROVE  LoginInv'
  <2>1. [stage |-> "ticket", owner |-> owner, id |-> id] \in TicketStates
    BY DEF TicketStates
  <2>2. QED
    BY <1>2, <2>1, TicketStep DEF IssueTicket
<1>3. NoOwner \in Owners /\ (ticket[t].stage = "state" => ticket[t].owner \in Owners)
  BY DEF Owners, LoginInv, LoginType, TicketStates
<1>4. CASE begin_h5_login(t)
  BY <1>1, <1>3, <1>4 DEF begin_h5_login
<1>5. ASSUME NEW u \in Users, NEW d \in Devices, begin_h5_binding(t, u, d) PROVE LoginInv'
  <2>1. OwnerOf(u, d) \in Owners
    BY DEF OwnerOf, Owners, LoginInv, LoginType
  <2>2. QED
    BY <1>1, <1>5, <2>1 DEF begin_h5_binding
<1>6. ASSUME NEW id \in Identities,
             complete_h5_callback(t, id) \/ complete_h5_binding_callback(t, id)
      PROVE  LoginInv'
  BY <1>2, <1>3, <1>6 DEF complete_h5_callback, complete_h5_binding_callback, ExchangeCode
<1>7. ASSUME NEW id \in Identities, begin_mobile_login(t, id) PROVE LoginInv'
  BY <1>2, <1>3, <1>7 DEF begin_mobile_login
<1>8. QED
  BY <1>4, <1>5, <1>6, <1>7

-----------------------------------------------------------------------------
(* The transactions.                                                       *)

LEMMA Begin ==
  ASSUME LoginInv, NEW r \in Requests,
         \/ \E t \in Tickets : resolve_login(r, t)
         \/ \E t \in Tickets, u \in Users : bind_phone(r, t, u)
         \/ \E t \in Tickets, u \in Users, d \in Devices : complete_h5_binding(r, t, u, d)
         \/ \E u \in Users, id \in Identities : bind_mobile(r, u, id)
  PROVE  LoginInv'
<1>1. \A t \in Tickets : ticket[t].stage = "ticket" =>
         ticket[t].id \in Identities /\ ticket[t].owner \in Owners
  BY DEF LoginInv, LoginType, TicketStates
<1>2. NoOwner \in Owners
  BY DEF Owners
<1>3. \A u \in Users, d \in Devices \cup {"app"} :
         OwnerOf(u, d) \in Owners /\ OwnerOf(u, d) # NoOwner /\ OwnerOf(u, d).user = u
  BY DEF OwnerOf, Owners, NoOwner, LoginInv, LoginType
<1>4. ASSUME NEW t \in Tickets, resolve_login(r, t) PROVE LoginInv'
  <2>1. LoginTicket(t)
    BY <1>4 DEF resolve_login
  <2> DEFINE id == ticket[t].id
             known == row[id.app][id.person] # None
  <2>2. PICK u \in Users : Start(r, "resolve", t, id, u, ~known, "consume", NoOwner)
    BY <1>4 DEF resolve_login
  <2>3. id \in Identities /\ (~known) \in BOOLEAN
    BY <1>1, <2>1 DEF LoginTicket, Loadable
  <2> HIDE DEF known
  <2>4. QED
    BY <1>2, <2>1, <2>2, <2>3, StartStep DEF LoginTicket, Loadable
<1>5. ASSUME NEW t \in Tickets, NEW u \in Users, bind_phone(r, t, u) PROVE LoginInv'
  <2>1. LoginTicket(t) /\ Start(r, "phone", t, ticket[t].id, u, FALSE, "consume", NoOwner)
    BY <1>5 DEF bind_phone
  <2>2. QED
    BY <1>1, <1>2, <2>1, StartStep DEF LoginTicket, Loadable
<1>6. ASSUME NEW t \in Tickets, NEW u \in Users, NEW d \in Devices,
             complete_h5_binding(r, t, u, d)
      PROVE  LoginInv'
  <2>1. Loadable(t) /\ Start(r, "bind", t, ticket[t].id, u, FALSE, "owner", OwnerOf(u, d))
    BY <1>6 DEF complete_h5_binding
  <2>2. QED
    BY <1>1, <1>3, <2>1, StartStep DEF Loadable
<1>7. ASSUME NEW u \in Users, NEW id \in Identities, bind_mobile(r, u, id) PROVE LoginInv'
  <2>1. Start(r, "mobile", "none", id, u, FALSE, "owner", OwnerOf(u, "app"))
    BY <1>7 DEF bind_mobile
  <2>2. QED
    BY <1>3, <2>1, StartStep
<1>8. QED
  BY <1>4, <1>5, <1>6, <1>7

\* What the invariant says of the request that takes a step.
LEMMA Stepping ==
  ASSUME LoginInv, NEW r \in Requests, request[r] # Idle
  PROVE  request[r] \in Running /\ Secured(request[r]) /\ Presented(request[r])
BY DEF LoginInv, LoginType, AllSecured, AllPresented

LEMMA LockOwnerStep ==
  ASSUME LoginInv, NEW r \in Requests, LockOwner(r) PROVE LoginInv'
<1> DEFINE q == request[r]
           g == [q EXCEPT !.locked = TRUE,
                          !.stage = IF q.op = "bind" THEN "consume" ELSE "union"]
<1>1. q # Idle /\ q.stage = "owner" /\ q \in Running /\ Secured(q) /\ Presented(q)
  BY Stepping DEF LockOwner, At
<1>2. CASE ~OwnerStands(q)
  BY <1>2, EndStep DEF LockOwner
<1>3. CASE OwnerStands(q)
  <2>1. Continue(r, g)
    BY <1>3 DEF LockOwner
  <2>2. /\ g \in Running /\ g.op = q.op /\ g.id = q.id /\ g.ticket = q.ticket /\ g.owner = q.owner
        /\ g.user = q.user /\ g.locked /\ g.claimed = q.claimed /\ g.row = q.row
        /\ g.stage = IF q.op = "bind" THEN "consume" ELSE "union"
    BY <1>1 DEF Running, Stages
  <2>3. q.op \in {"bind", "mobile"} /\ ~q.claimed
    BY <1>1 DEF Running, Presented, Secured
  <2> HIDE DEF g, q
  <2>4. Secured(g) /\ ~Spent(g)
    BY <1>1, <2>2, <2>3 DEF Secured, Spent
  <2>5. Presented(g)
    BY <1>1, <1>3, <2>2, <2>3, <2>4 DEF Presented, OwnerStands
  <2>6. QED
    BY <1>1, <2>1, <2>2, <2>4, <2>5, GoOn DEF q
<1>4. QED
  BY <1>2, <1>3

LEMMA LockPhoneStep ==
  ASSUME LoginInv, NEW r \in Requests, LockPhone(r) PROVE LoginInv'
<1> DEFINE q == request[r]
           g == [q EXCEPT !.locked = TRUE, !.stage = "union"]
<1>1. q # Idle /\ q.stage = "phone" /\ q \in Running /\ Secured(q) /\ Presented(q)
  BY Stepping DEF LockPhone, At
<1>2. CASE status[q.user] = "suspended"
  BY <1>2, EndStep DEF LockPhone
<1>3. CASE status[q.user] # "suspended"
  <2>1. Continue(r, g)
    BY <1>3 DEF LockPhone
  <2>2. /\ g \in Running /\ g.op = q.op /\ g.id = q.id /\ g.ticket = q.ticket /\ g.owner = q.owner
        /\ g.user = q.user /\ g.locked /\ g.claimed = q.claimed /\ g.row = q.row
        /\ g.stage = "union" /\ q.op \in {"resolve", "phone", "bind", "mobile"}
    BY <1>1 DEF Running, Stages
  <2> HIDE DEF g, q
  <2>3. Secured(g) /\ Presented(g) /\ (Spent(g) => Spent(q))
    BY <1>1, <2>2 DEF Secured, Presented, Spent
  <2>4. QED
    BY <1>1, <2>1, <2>2, <2>3, GoOn DEF q
<1>4. QED
  BY <1>2, <1>3

LEMMA CheckUnionStep ==
  ASSUME LoginInv, NEW r \in Requests, CheckUnion(r) PROVE LoginInv'
<1> DEFINE q == request[r]
           rows == [q EXCEPT !.stage = "rows"]
           inserts == [q EXCEPT !.stage = "claim"]
<1>1. q # Idle /\ q.stage = "union" /\ q \in Running /\ Secured(q) /\ Presented(q)
  BY Stepping DEF CheckUnion, At
<1>2. ASSUME NEW g \in {rows, inserts}
      PROVE  /\ g \in Running /\ g.op = q.op /\ g.id = q.id /\ g.ticket = q.ticket
             /\ g.owner = q.owner /\ g.user = q.user /\ g.locked = q.locked
             /\ g.claimed = q.claimed /\ g.row = q.row /\ g.stage \in {"rows", "claim"}
  BY <1>1 DEF Running, Stages
<1>3. rows.stage = "rows" /\ inserts.stage = "claim"
  BY <1>1 DEF Running
<1>4. \/ ~(q.id.union /\ CrossChannel) /\ Continue(r, rows)
      \/ Continue(r, inserts)
      \/ End(r)
  BY DEF CheckUnion
<1> HIDE DEF q, rows, inserts
<1>5. ASSUME NEW g \in {rows, inserts}, g = rows => ~(q.id.union /\ CrossChannel),
             Continue(r, g)
      PROVE  LoginInv'
  <2>1. Secured(g)
    BY <1>1, <1>2, <1>3, <1>5 DEF Secured
  <2>2. Presented(g) /\ (Spent(g) => Spent(q))
    BY <1>1, <1>2 DEF Presented, Spent
  <2>3. QED
    BY <1>1, <1>2, <1>5, <2>1, <2>2, GoOn DEF q
<1>6. CASE ~(q.id.union /\ CrossChannel) /\ Continue(r, rows)
  BY <1>5, <1>6
<1>7. CASE Continue(r, inserts)
  <2>1. inserts # rows
    BY <1>3
  <2>2. QED
    BY <1>5, <1>7, <2>1
<1>8. QED
  BY <1>4, <1>6, <1>7, EndStep

LEMMA ClaimStep ==
  ASSUME LoginInv, NEW r \in Requests, Claim(r) PROVE LoginInv'
<1> DEFINE q == request[r]
           same == [q EXCEPT !.stage = "rows"]
           inserted == [q EXCEPT !.stage = "rows", !.claimed = TRUE]
<1>1. q # Idle /\ q.stage = "claim" /\ q \in Running /\ Secured(q) /\ Presented(q)
  BY Stepping DEF Claim, At
<1>2. ASSUME NEW g \in {same, inserted}
      PROVE  /\ g \in Running /\ g.op = q.op /\ g.id = q.id /\ g.ticket = q.ticket
             /\ g.owner = q.owner /\ g.user = q.user /\ g.locked = q.locked
             /\ g.row = q.row /\ g.stage = "rows"
  BY <1>1 DEF Running, Stages
<1>3. same.claimed = q.claimed /\ inserted.claimed
  BY <1>1 DEF Running
<1>4. claim[q.id.person] \in {None} \cup Claims
  BY <1>1 DEF LoginInv, LoginType, Running, Identities
<1>5. \/ claim[q.id.person] # None /\ claim[q.id.person].user = q.user /\ Continue(r, same)
      \/ /\ claim[q.id.person] = None /\ Continue(r, inserted)
         /\ \A x \in Requests \ {r} : request[x] # Idle =>
               ~(request[x].claimed /\ request[x].id.person = q.id.person)
      \/ End(r)
  BY DEF Claim
<1> HIDE DEF q, same, inserted
<1>6. ASSUME NEW g \in {same, inserted} PROVE Presented(g) /\ (Spent(g) => Spent(q))
  BY <1>1, <1>2 DEF Presented, Spent
<1>7. CASE claim[q.id.person] # None /\ claim[q.id.person].user = q.user /\ Continue(r, same)
  <2>1. ClaimedBy(q.id.person, q.user)
    BY <1>4, <1>7 DEF ClaimedBy, Claims
  <2>2. Secured(same)
    BY <1>1, <1>2, <1>3, <2>1 DEF Secured
  <2>3. QED
    BY <1>1, <1>2, <1>3, <1>6, <1>7, <2>2, GoOn DEF q
<1>8. CASE /\ claim[q.id.person] = None /\ Continue(r, inserted)
           /\ \A x \in Requests \ {r} : request[x] # Idle =>
                 ~(request[x].claimed /\ request[x].id.person = q.id.person)
  <2>1. Secured(inserted)
    BY <1>1, <1>2, <1>3, <1>8 DEF Secured
  <2>2. UNCHANGED <<accounts, identities, ticket, used, redeemed>>
        /\ request' = [request EXCEPT ![r] = inserted]
    BY <1>8 DEF Continue
  <2>3. \A s \in Requests \ {r} : request[s] # Idle /\ request[s].claimed =>
           request[s].id.person # inserted.id.person
    BY <1>2, <1>8
  <2>4. Spent(inserted) => Spent(request[r]) /\ request[r].ticket = inserted.ticket
    BY <1>2, <1>6 DEF q
  <2>5. QED
    BY <1>2, <1>6, <2>1, <2>2, <2>3, <2>4, RequestStep
<1>9. QED
  BY <1>5, <1>7, <1>8, EndStep

LEMMA ReadRowsStep ==
  ASSUME LoginInv, NEW r \in Requests, ReadRows(r) PROVE LoginInv'
<1> DEFINE q == request[r]
           existing == row[q.id.app][q.id.person]
           g == [q EXCEPT !.stage = "write", !.row = existing]
<1>1. q # Idle /\ q.stage = "rows" /\ q \in Running /\ Secured(q) /\ Presented(q)
  BY Stepping DEF ReadRows, At
<1>2. q.id.app \in Apps /\ q.id.person \in Persons
  BY <1>1 DEF Running, Identities
<1>3. existing \in {None} \cup Rows
  BY <1>2 DEF LoginInv, LoginType
<1>4. ((existing = None \/ existing.user = q.user) /\ Continue(r, g)) \/ End(r)
  BY DEF ReadRows
<1> HIDE DEF existing
<1>5. /\ g \in Running /\ g.op = q.op /\ g.id = q.id /\ g.ticket = q.ticket /\ g.owner = q.owner
      /\ g.user = q.user /\ g.locked = q.locked /\ g.claimed = q.claimed
      /\ g.row = existing /\ g.stage = "write"
  BY <1>1, <1>3 DEF Running, Stages
<1> HIDE DEF g, q
<1>6. CASE (existing = None \/ existing.user = q.user) /\ Continue(r, g)
  <2>1. Presented(g) /\ (Spent(g) => Spent(q))
    BY <1>1, <1>5 DEF Presented, Spent
  <2>2. existing # None /\ CrossChannel /\ existing.union => ClaimedBy(q.id.person, q.user)
    BY <1>2, <1>6 DEF existing, LoginInv, RowsClaimed
  <2>3. Secured(g)
    BY <1>1, <1>5, <1>6, <2>2 DEF Secured, existing
  <2>4. QED
    BY <1>1, <1>5, <1>6, <2>1, <2>3, GoOn DEF q
<1>7. QED
  BY <1>4, <1>6, EndStep

\* The marker of a ticket is set by one request only.
LEMMA ConsumeStep ==
  ASSUME LoginInv, NEW r \in Requests, Consume(r) PROVE LoginInv'
<1> DEFINE q == request[r]
           g == [q EXCEPT !.stage = IF q.op = "phone" THEN "phone" ELSE "union"]
<1>1. q # Idle /\ q.stage = "consume" /\ q \in Running /\ Secured(q) /\ Presented(q)
  BY Stepping DEF Consume, At
<1>2. CASE q.ticket \in used
  BY <1>2, EndStep DEF Consume
<1>3. CASE q.ticket \notin used
  <2>1. /\ used' = used \cup {q.ticket} /\ request' = [request EXCEPT ![r] = g]
        /\ UNCHANGED <<accounts, identities, ticket, redeemed>>
    BY <1>3 DEF Consume
  <2>2. /\ g \in Running /\ g.op = q.op /\ g.id = q.id /\ g.ticket = q.ticket /\ g.owner = q.owner
        /\ g.user = q.user /\ g.locked = q.locked /\ g.claimed = q.claimed /\ g.row = q.row
        /\ g.stage \in {"phone", "union"} /\ q.op \in {"resolve", "phone", "bind", "mobile"}
    BY <1>1 DEF Running, Stages
  <2> HIDE DEF g, q
  <2>3. q.op # "mobile" /\ q.ticket \in Tickets /\ redeemed[q.ticket] = 0
    <3>1. q.op # "mobile" /\ q.ticket \in Tickets
      BY <1>1, <2>2 DEF Presented
    <3>2. redeemed[q.ticket] \in Nat /\ redeemed[q.ticket] <= 1 /\ redeemed[q.ticket] # 1
      BY <1>3, <3>1 DEF LoginInv, Redeemed, LoginType
    <3>3. QED
      BY <3>1, <3>2
  <2>4. \A s \in Requests : request'[s] = IF s = r THEN g ELSE request[s]
    BY <2>1 DEF LoginInv, LoginType
  <2>5. /\ row' = row /\ claim' = claim /\ ticket' = ticket /\ status' = status
        /\ version' = version /\ redeemed' = redeemed
    BY <2>1 DEF accounts, identities
  <2>6. LoginType'
    BY <2>1, <2>2, <2>3, <2>5 DEF LoginInv, LoginType
  <2>7. Secured(g)
    BY <1>1, <2>2 DEF Secured
  <2>8. \A x : Secured(x)' <=> Secured(x)
    BY <2>5, Zenon DEF Secured, ClaimedBy
  <2>9. AllSecured' /\ ClaimsApart'
    BY <1>1, <2>2, <2>4, <2>7, <2>8 DEF LoginInv, AllSecured, ClaimsApart, q
  <2>10. \A x : Presented(x) => Presented(x)'
    BY <2>1, <2>5 DEF Presented, Spent
  <2>11. \A x : x = g => Presented(x)'
    BY <1>1, <2>1, <2>2, <2>3, <2>5 DEF Presented, Spent
  <2>12. AllPresented'
    BY <2>4, <2>10, <2>11 DEF AllPresented, LoginInv
  <2>13. \A s \in Requests : Spent(request[s]) => request[s].ticket # q.ticket
    BY <1>3 DEF LoginInv, AllPresented, Presented, Spent
  <2>14. TicketsApart'
    BY <2>2, <2>4, <2>13 DEF TicketsApart, LoginInv
  <2>15. RowsClaimed' /\ OneWechatPerApp' /\ Redeemed'
    BY <2>1, <2>5 DEF LoginInv, RowsClaimed, OneWechatPerApp, ClaimedBy, Redeemed
  <2>16. QED
    BY <2>6, <2>9, <2>12, <2>14, <2>15 DEF LoginInv
<1>4. QED
  BY <1>2, <1>3

-----------------------------------------------------------------------------
(* The commit.                                                             *)

Commits(r, q) == q = request[r] /\ WriteAndCommit(r) /\ ~End(r)

\* What a commit of request q of process r does.
Effect(r, q) ==
  /\ q # Idle /\ q \in Running /\ q.stage = "write" /\ Secured(q) /\ Presented(q)
  /\ q.id.app \in Apps /\ q.id.person \in Persons /\ q.user \in Users
  /\ Admitted(q) /\ Written(q) \in Rows /\ Written(q).user = q.user
  /\ row'[q.id.app][q.id.person] = Written(q)
  /\ \A a \in Apps, p \in Persons :
        a # q.id.app \/ p # q.id.person => row'[a][p] = row[a][p]
  /\ q.claimed => claim'[q.id.person] = [user |-> q.user]
  /\ \A p \in Persons : ~q.claimed \/ p # q.id.person => claim'[p] = claim[p]
  /\ \A u \in Users : status'[u] = IF u = q.user THEN Account(q) ELSE status[u]
  /\ \A t \in Tickets : redeemed'[t] = IF t = q.ticket THEN redeemed[t] + 1 ELSE redeemed[t]
  /\ \A s \in Requests : request'[s] = IF s = r THEN Idle ELSE request[s]
  /\ UNCHANGED <<version, ticket, used>>
  /\ LoginType'

LEMMA Committed ==
  ASSUME LoginInv, NEW r \in Requests, NEW q, Commits(r, q) PROVE Effect(r, q)
<1>1. q # Idle /\ q \in Running /\ q.stage = "write" /\ Secured(q) /\ Presented(q)
  BY Stepping DEF Commits, WriteAndCommit, At
<1>2. q.id.app \in Apps /\ q.id.person \in Persons /\ q.user \in Users /\ q.id.union \in BOOLEAN
      /\ q.row \in {None} \cup Rows /\ q.claimed \in BOOLEAN
  BY <1>1 DEF Running, Identities
<1>3. Written(q) \in Rows /\ Written(q).user = q.user
  BY <1>2 DEF Written, Rows
<1>4. /\ Admitted(q)
      /\ row' = [row EXCEPT ![q.id.app][q.id.person] = Written(q)]
      /\ claim' = IF q.claimed THEN [claim EXCEPT ![q.id.person] = [user |-> q.user]] ELSE claim
      /\ status' = [status EXCEPT ![q.user] = Account(q)]
      /\ redeemed' = [t \in Tickets |-> IF t = q.ticket THEN redeemed[t] + 1 ELSE redeemed[t]]
      /\ request' = [request EXCEPT ![r] = Idle]
      /\ UNCHANGED <<version, ticket, used>>
  BY DEF Commits, WriteAndCommit
<1>5. Account(q) \in {"none", "active", "suspended"} /\ [user |-> q.user] \in Claims
  BY <1>2 DEF Account, LoginInv, LoginType, Claims
<1> HIDE DEF Rows, Claims
<1>6. row' \in [Apps -> [Persons -> {None} \cup Rows]]
  BY <1>2, <1>3, <1>4 DEF LoginInv, LoginType
<1>7. claim' \in [Persons -> {None} \cup Claims] /\ status' \in [Users -> {"none", "active", "suspended"}]
  BY <1>2, <1>4, <1>5 DEF LoginInv, LoginType
<1>8. LoginType'
  BY <1>4, <1>6, <1>7 DEF LoginInv, LoginType
<1>9. /\ row'[q.id.app][q.id.person] = Written(q)
      /\ \A a \in Apps, p \in Persons :
            a # q.id.app \/ p # q.id.person => row'[a][p] = row[a][p]
  BY <1>2, <1>4 DEF LoginInv, LoginType
<1>10. /\ q.claimed => claim'[q.id.person] = [user |-> q.user]
       /\ \A p \in Persons : ~q.claimed \/ p # q.id.person => claim'[p] = claim[p]
       /\ \A u \in Users : status'[u] = IF u = q.user THEN Account(q) ELSE status[u]
       /\ \A t \in Tickets : redeemed'[t] = IF t = q.ticket THEN redeemed[t] + 1 ELSE redeemed[t]
       /\ \A s \in Requests : request'[s] = IF s = r THEN Idle ELSE request[s]
  BY <1>2, <1>4 DEF LoginInv, LoginType
<1>11. QED
  BY <1>1, <1>2, <1>3, <1>4, <1>8, <1>9, <1>10 DEF Effect

\* A commit moves no binding: a row it writes over is of the same account, a claim it
\* makes is the first.
LEMMA CommitMovesNothing ==
  ASSUME LoginInv, NEW r \in Requests, NEW q, Commits(r, q)
  PROVE  MovesNothing
<1>e. Effect(r, q)
  BY Committed
<1>1. ASSUME NEW a \in Apps, NEW p \in Persons, row[a][p] # None
      PROVE  row'[a][p] # None /\ row'[a][p].user = row[a][p].user
  <2>1. CASE a = q.id.app /\ p = q.id.person
    <3>1. row[q.id.app][q.id.person].user = q.user
      BY <1>1, <2>1, <1>e DEF Admitted, Secured, Effect
    <3>2. row'[a][p] = Written(q) /\ Written(q) \in Rows /\ Written(q).user = q.user
      BY <2>1, <1>e DEF Effect
    <3>3. QED
      BY <2>1, <3>1, <3>2, Distinct
  <2>2. CASE ~(a = q.id.app /\ p = q.id.person)
    <3>1. row'[a][p] = row[a][p]
      BY <2>2, <1>e DEF Effect
    <3>2. QED
      BY <1>1, <3>1
  <2>3. QED
    BY <2>1, <2>2
<1>2. ASSUME NEW p \in Persons, claim[p] # None PROVE claim'[p] = claim[p]
  BY <1>2, <1>e DEF Secured, Effect
<1>3. QED
  BY <1>1, <1>2 DEF MovesNothing

LEMMA CommitStep ==
  ASSUME LoginInv, NEW r \in Requests, NEW q, Commits(r, q) PROVE LoginInv'
<1>e. Effect(r, q)
  BY Committed
<1>m. MovesNothing
  BY CommitMovesNothing
<1>1. \A s \in Requests : request'[s] # Idle =>
         /\ s # r /\ request'[s] = request[s]
         /\ request[s] \in Running /\ Secured(request[s]) /\ Presented(request[s])
  BY <1>e, Stepping DEF Effect
<1>2. ASSUME NEW x \in Running, Secured(x),
             x.claimed /\ q.claimed => x.id.person # q.id.person
      PROVE  Secured(x)'
  <2>1. x.id.app \in Apps /\ x.id.person \in Persons
    BY DEF Running, Identities
  <2>2. claim[x.id.person] # None => claim'[x.id.person] = claim[x.id.person]
    BY <2>1, <1>m DEF MovesNothing
  <2>3. \A u \in Users : [user |-> u] # None
    BY LoginAssumption DEF None
  <2>4. x.user \in Users /\ q.user \in Users
    BY <1>e DEF Running, Effect
  <2>5. ClaimedBy(x.id.person, x.user) => ClaimedBy(x.id.person, x.user)'
    BY <2>2, <2>3, <2>4 DEF ClaimedBy
  <2>6. x.claimed => claim'[x.id.person] = None /\ x.stage \in {"rows", "write"}
    BY <1>2, <2>1, <1>e DEF Secured, Effect
  <2>7. x.stage = "write" /\ x.row # None =>
           /\ row'[x.id.app][x.id.person] # None
           /\ row'[x.id.app][x.id.person].user = x.user
           /\ CrossChannel /\ x.row.union => ClaimedBy(x.id.person, x.user)'
    BY <1>2, <2>1, <2>5, <1>m DEF Secured, MovesNothing
  <2>8. CrossChannel /\ x.id.union /\ x.stage \in {"rows", "write"} =>
           x.claimed \/ ClaimedBy(x.id.person, x.user)'
    BY <1>2, <2>5 DEF Secured
  <2>9. QED
    BY <2>6, <2>7, <2>8 DEF Secured, ClaimedBy
<1>3. AllSecured'
  <2>1. \A s \in Requests : request'[s] # Idle /\ request[s].claimed /\ q.claimed =>
           request[s].id.person # q.id.person
    BY <1>1, <1>e DEF LoginInv, ClaimsApart, Commits, Effect
  <2>2. SUFFICES ASSUME NEW s \in Requests, request'[s] # Idle,
                        NEW x, x = request'[s]
                 PROVE  Secured(x)'
    BY DEF AllSecured
  <2>3. QED
    BY <1>1, <1>2, <2>1, <2>2
<1>4. ClaimsApart'
  BY <1>1 DEF ClaimsApart, LoginInv
<1>5. RowsClaimed'
  <2>1. SUFFICES ASSUME CrossChannel, NEW a \in Apps, NEW p \in Persons,
                        row'[a][p] # None, row'[a][p].union
                 PROVE  claim'[p] = [user |-> row'[a][p].user]
    BY Zenon DEF RowsClaimed, ClaimedBy
  <2>2. CASE a = q.id.app /\ p = q.id.person
    <3>1. row'[a][p] = Written(q) /\ Written(q).user = q.user
      BY <2>2, <1>e DEF Effect
    <3>2. q.id.union \/ (q.row # None /\ q.row.union)
      <4>1. Written(q).union = (q.id.union \/ (q.row # None /\ q.row.union))
        BY DEF Written
      <4>2. Written(q).union
        BY <2>1, <3>1
      <4>3. QED
        BY <4>1, <4>2, Zenon
    <3>3. q.claimed \/ claim[q.id.person] = [user |-> q.user]
      BY <2>1, <3>2, <1>e DEF Secured, ClaimedBy, Effect
    <3>4. claim'[q.id.person] = [user |-> q.user]
      BY <3>3, <1>e DEF Effect
    <3>5. QED
      BY <2>2, <3>1, <3>4
  <2>3. CASE ~(a = q.id.app /\ p = q.id.person)
    <3>1. row'[a][p] = row[a][p]
      BY <2>3, <1>e DEF Effect
    <3>2. claim[p] = [user |-> row[a][p].user] /\ row[a][p] \in Rows
      BY <2>1, <3>1 DEF LoginInv, LoginType, RowsClaimed, ClaimedBy
    <3>3. row[a][p].user # "none"
      BY <3>2, LoginAssumption DEF Rows
    <3>4. claim'[p] = claim[p]
      BY <3>2, <3>3, <1>m DEF None, MovesNothing
    <3>5. QED
      BY <3>1, <3>2, <3>4
  <2>4. QED
    BY <2>2, <2>3
<1>6. OneWechatPerApp'
  <2>1. SUFFICES ASSUME NEW a \in Apps, NEW p1 \in Persons, NEW p2 \in Persons,
                        row'[a][p1] # None, row'[a][p2] # None,
                        row'[a][p1].user = row'[a][p2].user, p1 # p2
                 PROVE  FALSE
    BY DEF OneWechatPerApp
  <2>2. ASSUME NEW p \in Persons, a = q.id.app, p # q.id.person, row[a][p] # None,
               row[a][p].user = q.user
        PROVE  FALSE
    <3>1. CASE q.row # None
      <4>1. row[a][q.id.person] # None /\ row[a][q.id.person].user = q.user
        BY <2>2, <3>1, <1>e DEF Secured, Effect
      <4>2. QED
        BY <2>2, <4>1, <1>e DEF LoginInv, OneWechatPerApp, Effect
    <3>2. CASE q.row = None
      <4>1. Others(q.user, q.id) = {}
        BY <3>2, <1>e DEF Admitted, Effect
      <4>2. QED
        BY <2>2, <4>1 DEF Others
    <3>3. QED
      BY <3>1, <3>2
  <2>3. CASE a = q.id.app /\ p1 = q.id.person
    <3>1. row'[a][p1].user = q.user /\ row'[a][p2] = row[a][p2]
      BY <2>1, <2>3, <1>e DEF Effect
    <3>2. QED
      BY <2>1, <2>2, <2>3, <3>1
  <2>4. CASE a = q.id.app /\ p2 = q.id.person
    <3>1. row'[a][p2].user = q.user /\ row'[a][p1] = row[a][p1]
      BY <2>1, <2>4, <1>e DEF Effect
    <3>2. QED
      BY <2>1, <2>2, <2>4, <3>1
  <2>5. CASE a # q.id.app \/ (p1 # q.id.person /\ p2 # q.id.person)
    <3>1. row'[a][p1] = row[a][p1] /\ row'[a][p2] = row[a][p2]
      BY <2>5, <1>e DEF Effect
    <3>2. QED
      BY <2>1, <3>1 DEF LoginInv, OneWechatPerApp
  <2>6. QED
    BY <2>3, <2>4, <2>5
<1>7. q.op # "mobile" => Spent(q) /\ q.ticket \in Tickets /\ q.ticket \in used /\ redeemed[q.ticket] = 0
  BY <1>e DEF Spent, Presented, Effect
<1>8. q.op = "mobile" => q.ticket \notin Tickets
  BY <1>e, LoginAssumption DEF Presented, Effect
<1>9. ASSUME NEW x \in Running, Presented(x), Spent(x) /\ Spent(q) => x.ticket # q.ticket
      PROVE  Presented(x)'
  <2>1. x.user \in Users /\ x.op \in {"resolve", "phone", "bind", "mobile"}
    BY DEF Running
  <2>2. status[x.user] = "active" => status'[x.user] = "active"
    BY <2>1, <1>e DEF Account, Effect
  <2>3. Spent(x) => x.ticket \in used /\ x.ticket \in Tickets /\ x.ticket # q.ticket
    BY <1>7, <1>8, <1>9 DEF Presented, Spent
  <2>4. Spent(x) => redeemed'[x.ticket] = 0
    BY <1>9, <2>3, <1>e DEF Presented, Effect
  <2>5. version' = version /\ ticket' = ticket /\ used' = used
    BY <1>e DEF Effect
  <2>6. QED
    BY <1>9, <2>2, <2>4, <2>5 DEF Presented, Spent
<1>10. AllPresented'
  <2>1. SUFFICES ASSUME NEW s \in Requests, request'[s] # Idle,
                        NEW x, x = request'[s]
                 PROVE  Presented(x)'
    BY DEF AllPresented
  <2>2. s # r /\ x = request[s] /\ x \in Running /\ Presented(x)
    BY <1>1, <2>1
  <2>3. Spent(x) /\ Spent(q) => x.ticket # q.ticket
    BY <2>2 DEF LoginInv, TicketsApart, Commits
  <2>4. QED
    BY <1>9, <2>2, <2>3
<1>11. TicketsApart'
  BY <1>1 DEF TicketsApart, LoginInv, Spent
<1>12. Redeemed'
  BY <1>7, <1>8, <1>e DEF Redeemed, LoginInv, Effect
<1>13. QED
  BY <1>3, <1>4, <1>5, <1>6, <1>10, <1>11, <1>12, <1>e DEF LoginInv, Effect

-----------------------------------------------------------------------------
(* The steps together.                                                     *)

\* A step of a request is a commit or keeps the invariant by one of the lemmas above.
LEMMA RequestKeeps ==
  ASSUME LoginInv, NEW r \in Requests,
         \/ LockOwner(r) \/ Consume(r) \/ LockPhone(r)
         \/ CheckUnion(r) \/ Claim(r) \/ ReadRows(r) \/ WriteAndCommit(r) \/ Abort(r)
  PROVE  LoginInv'
<1>1. CASE WriteAndCommit(r) /\ ~End(r)
  BY <1>1, CommitStep DEF Commits
<1>2. CASE Abort(r) \/ End(r)
  BY <1>2, EndStep DEF Abort
<1>3. QED
  BY <1>1, <1>2, LockOwnerStep, ConsumeStep, LockPhoneStep, CheckUnionStep, ClaimStep, ReadRowsStep

LEMMA StutterKeeps == ASSUME LoginInv, UNCHANGED vars PROVE LoginInv'
<1>1. /\ row' = row /\ claim' = claim /\ ticket' = ticket /\ status' = status
      /\ version' = version /\ used' = used /\ redeemed' = redeemed /\ request' = request
  BY DEF vars, accounts, identities
<1>2. \A x : Secured(x)' <=> Secured(x)
  BY <1>1, Zenon DEF Secured, ClaimedBy
<1>3. \A x : Presented(x)' <=> Presented(x)
  BY <1>1 DEF Presented, Spent
<1>4. LoginType' /\ ClaimsApart' /\ OneWechatPerApp' /\ TicketsApart' /\ Redeemed'
  BY <1>1 DEF LoginInv, LoginType, ClaimsApart, OneWechatPerApp, TicketsApart, Spent, Redeemed
<1>5. RowsClaimed'
  BY <1>1, Zenon DEF LoginInv, RowsClaimed, ClaimedBy
<1>6. AllSecured' /\ AllPresented'
  BY <1>1, <1>2, <1>3 DEF LoginInv, AllSecured, AllPresented
<1>7. QED
  BY <1>4, <1>5, <1>6 DEF LoginInv

LEMMA LoginStep == LoginInv /\ [Next]_vars => LoginInv'
<1> SUFFICES ASSUME LoginInv, [Next]_vars PROVE LoginInv'
  OBVIOUS
<1>1. ASSUME NEW u \in Users, EndSessions(u) \/ Suspend(u) PROVE LoginInv'
  BY <1>1, AccountStep
<1>2. ASSUME NEW t \in Tickets,
             \/ begin_h5_login(t)
             \/ \E u \in Users, d \in Devices : begin_h5_binding(t, u, d)
             \/ \E id \in Identities :
                  complete_h5_callback(t, id) \/ complete_h5_binding_callback(t, id)
                    \/ begin_mobile_login(t, id)
      PROVE  LoginInv'
  BY <1>2, Authorisation
<1>3. ASSUME NEW r \in Requests,
             \/ \E t \in Tickets : resolve_login(r, t)
             \/ \E t \in Tickets, u \in Users : bind_phone(r, t, u)
             \/ \E t \in Tickets, u \in Users, d \in Devices : complete_h5_binding(r, t, u, d)
             \/ \E u \in Users, id \in Identities : bind_mobile(r, u, id)
      PROVE  LoginInv'
  BY <1>3, Begin
<1>4. ASSUME NEW r \in Requests,
             \/ LockOwner(r) \/ Consume(r) \/ LockPhone(r)
             \/ CheckUnion(r) \/ Claim(r) \/ ReadRows(r) \/ WriteAndCommit(r) \/ Abort(r)
      PROVE  LoginInv'
  BY <1>4, RequestKeeps
<1>5. CASE UNCHANGED vars
  BY <1>5, StutterKeeps
<1>6. QED
  BY <1>1, <1>2, <1>3, <1>4, <1>5 DEF Next

-----------------------------------------------------------------------------
(* The properties.                                                         *)

\* Bindings, claims, running requests and tickets agree in every reachable state.
THEOREM Agreement == Spec => []LoginInv
<1>1. Init => LoginInv
  BY InitLogin
<1>2. LoginInv /\ [Next]_vars => LoginInv'
  BY LoginStep
<1>3. QED
  BY <1>1, <1>2, PTL DEF Spec

\* With unionids shared over the apps, all identities of a person that are known to
\* belong together log in to one account: the one the person's claim names.
LEMMA ClaimDecides ==
  ASSUME CrossChannel, LoginInv PROVE OnePersonOneUser
<1>1. SUFFICES ASSUME NEW p \in Persons PROVE Cardinality(UsersOf(p)) <= 1
  BY DEF OnePersonOneUser
<1>2. \A u \in UsersOf(p) : claim[p] = [user |-> u]
  BY DEF UsersOf, LoginInv, RowsClaimed, ClaimedBy
<1>3. ASSUME NEW u \in UsersOf(p), NEW v \in UsersOf(p) PROVE u = v
  <2>1. [user |-> u] = [user |-> v]
    BY <1>2
  <2>2. [user |-> u].user = u /\ [user |-> v].user = v
    OBVIOUS
  <2>3. QED
    BY <2>1, <2>2
<1>4. CASE UsersOf(p) = {}
  BY <1>4, FS_EmptySet
<1>5. CASE UsersOf(p) # {}
  <2>1. PICK u \in UsersOf(p) : TRUE
    BY <1>5
  <2>2. UsersOf(p) = {u}
    BY <1>3, <2>1
  <2>3. QED
    BY <2>2, FS_Singleton
<1>6. QED
  BY <1>4, <1>5

THEOREM OneAccountOfAPerson == ASSUME CrossChannel PROVE Spec => []OnePersonOneUser
<1>1. LoginInv => OnePersonOneUser
  BY ClaimDecides
<1>2. QED
  BY <1>1, Agreement, PTL

\* One account has at most one identity per app.
THEOREM OneIdentityOfAnAccount == Spec => []OneWechatPerApp
<1>1. LoginInv => OneWechatPerApp
  BY DEF LoginInv
<1>2. QED
  BY <1>1, Agreement, PTL

\* However many requests loaded a ticket, one at most commits with it.
THEOREM OnceATicket == Spec => []TicketOnce
<1>1. LoginInv => TicketOnce
  BY DEF LoginInv, Redeemed, TicketOnce
<1>2. QED
  BY <1>1, Agreement, PTL

\* Bindings and the count of a ticket change in commits only.
LEMMA OnlyCommits ==
  ASSUME [Next]_vars
  PROVE  UNCHANGED <<identities, redeemed>> \/ \E r \in Requests : Commits(r, request[r])
<1>1. CASE UNCHANGED vars
  BY <1>1 DEF vars
<1>2. ASSUME NEW u \in Users, EndSessions(u) \/ Suspend(u) PROVE UNCHANGED <<identities, redeemed>>
  BY <1>2 DEF EndSessions, Suspend
<1>3. ASSUME NEW t \in Tickets,
             \/ begin_h5_login(t)
             \/ \E u \in Users, d \in Devices : begin_h5_binding(t, u, d)
             \/ \E id \in Identities :
                  complete_h5_callback(t, id) \/ complete_h5_binding_callback(t, id)
                    \/ begin_mobile_login(t, id)
      PROVE  UNCHANGED <<identities, redeemed>>
  BY <1>3 DEF begin_h5_login, begin_h5_binding, BeginH5, complete_h5_callback,
              complete_h5_binding_callback, ExchangeCode, begin_mobile_login, IssueTicket
<1>4. ASSUME NEW r \in Requests,
             \/ \E t \in Tickets : resolve_login(r, t)
             \/ \E t \in Tickets, u \in Users : bind_phone(r, t, u)
             \/ \E t \in Tickets, u \in Users, d \in Devices : complete_h5_binding(r, t, u, d)
             \/ \E u \in Users, id \in Identities : bind_mobile(r, u, id)
      PROVE  UNCHANGED <<identities, redeemed>>
  BY <1>4 DEF resolve_login, bind_phone, complete_h5_binding, bind_mobile, Start
<1>5. ASSUME NEW r \in Requests,
             LockOwner(r) \/ Consume(r) \/ LockPhone(r)
               \/ CheckUnion(r) \/ Claim(r) \/ ReadRows(r) \/ Abort(r) \/ End(r)
      PROVE  UNCHANGED <<identities, redeemed>>
  BY <1>5 DEF LockOwner, Consume, LockPhone, CheckUnion, Claim, ReadRows, Abort, End, Continue
<1>6. ASSUME NEW r \in Requests, WriteAndCommit(r), ~End(r) PROVE Commits(r, request[r])
  BY <1>6 DEF Commits
<1>7. QED
  BY <1>1, <1>2, <1>3, <1>4, <1>5, <1>6 DEF Next

LEMMA StepMovesNothing == LoginInv /\ [Next]_vars => MovesNothing
<1> SUFFICES ASSUME LoginInv, [Next]_vars PROVE MovesNothing
  OBVIOUS
<1>1. CASE UNCHANGED <<identities, redeemed>>
  BY <1>1 DEF identities, MovesNothing
<1>2. CASE \E r \in Requests : Commits(r, request[r])
  BY <1>2, CommitMovesNothing
<1>3. QED
  BY <1>1, <1>2, OnlyCommits

\* No step binds an identity or a unionid to someone else.
THEOREM NothingMoves == Spec => NeverMoved
<1>1. LoginInv /\ [Next]_vars => MovesNothing
  BY StepMovesNothing
<1>2. QED
  BY <1>1, Agreement, PTL DEF Spec, NeverMoved

LEMMA StepBindsOwner == LoginInv /\ [Next]_vars => RedeemedByOwner
<1> SUFFICES ASSUME LoginInv, [Next]_vars, NEW t \in Tickets, redeemed'[t] > redeemed[t],
                    ticket[t].stage = "ticket", ticket[t].owner # NoOwner,
                    NEW o, o = ticket[t].owner, NEW id, id = ticket[t].id
             PROVE  /\ row'[id.app][id.person].user = o.user
                    /\ version[o.user] = o.version /\ status[o.user] = "active"
                    /\ \E r \in Requests : request[r] # Idle /\ request[r].owner = o
  BY DEF RedeemedByOwner
<1>1. redeemed[t] \in Nat
  BY DEF LoginInv, LoginType
<1>2. redeemed' # redeemed
  BY <1>1
<1>3. PICK r \in Requests : Commits(r, request[r])
  BY <1>2, OnlyCommits
<1>4. PICK q : q = request[r]
  OBVIOUS
<1>5. Effect(r, q) /\ request[r] = q
  BY <1>3, <1>4, Committed
<1>6. t = q.ticket
  BY <1>1, <1>5 DEF Effect
<1>7. q.op \in {"resolve", "phone", "bind", "mobile"} /\ q.op # "mobile"
  BY <1>5, <1>6, LoginAssumption DEF Effect, Running, Presented
<1>8. q.op = "bind"
  BY <1>5, <1>6, <1>7 DEF Effect, Presented
<1>9. /\ id = q.id /\ o = q.owner /\ o.user = q.user
      /\ o.version = version[q.user] /\ status[q.user] = "active"
  BY <1>5, <1>6, <1>8 DEF Effect, Presented
<1>10. row'[id.app][id.person].user = q.user
  BY <1>5, <1>9 DEF Effect
<1>11. QED
  BY <1>4, <1>5, <1>9, <1>10 DEF Effect

\* A page authorised for binding binds the account whose session started it, and only
\* while that session is still valid.
THEOREM PageBindsItsOwner == Spec => BindsItsOwner
<1>1. LoginInv /\ [Next]_vars => RedeemedByOwner
  BY StepBindsOwner
<1>2. QED
  BY <1>1, Agreement, PTL DEF Spec, BindsItsOwner
=============================================================================
