-------------------------- MODULE MiniProgramLogin --------------------------
(***************************************************************************)
(* Logging in from a mini program (WechatMiniProgramLoginSerializer in     *)
(* accounts/serializers.py, accounts/wechat_mini_program.py).  A known     *)
(* openid logs in to its account.  An unknown one needs the phone number   *)
(* WeChat confirms: it logs in to the account of that phone, which is      *)
(* created if there is none, and takes the place of the WeChat account     *)
(* that was bound to it before.  The two questions to WeChat are answered  *)
(* before anything is locked; phones change meanwhile.                     *)
(***************************************************************************)
EXTENDS Naturals, FiniteSets

CONSTANTS
    Users,      \* accounts that exist or may be created
    Phones,     \* phone numbers
    Persons,    \* openids of one mini program
    Requests    \* requests of the server at one time

None == "none"
Idle == [pc |-> "idle"]

VARIABLES
    phone,      \* account -> its phone number, None before it is created
    usable,     \* account -> active, or waiting to be closed
    row,        \* WechatMiniProgramIdentity: account -> openid, or None
    request,    \* what each request is doing
    created     \* history: accounts created by a login
vars == <<phone, usable, row, request, created>>

Exists(u) == phone[u] # None

Init ==
    /\ \E E \in SUBSET Users : \E f \in [Users -> Phones] :
          /\ \A u, v \in E : f[u] = f[v] => u = v
          /\ phone = [u \in Users |-> IF u \in E THEN f[u] ELSE None]
    /\ usable = [u \in Users |-> TRUE]
    /\ row = [u \in Users |-> None]
    /\ request = [r \in Requests |-> Idle] /\ created = {}

-----------------------------------------------------------------------------
\* An account, or a phone for which one is being created, is locked to the end.
Busy(r) == request[r].pc = "write"
Locked(u) == \E r \in Requests : Busy(r) /\ request[r].user = u
PhoneLocked(x) == \E r \in Requests : Busy(r) /\ request[r].phone = x /\ request[r].new

OfPhone(x) == {u \in Users : phone[u] = x}
OfPerson(p) == {u \in Users : row[u] = p}

ChangePhone(u, x) ==
    /\ Exists(u) /\ ~Locked(u) /\ ~PhoneLocked(x) /\ OfPhone(x) = {}
    /\ phone' = [phone EXCEPT ![u] = x]
    /\ UNCHANGED <<usable, row, request, created>>

Suspend(u) ==
    /\ Exists(u) /\ usable[u] /\ ~Locked(u)
    /\ usable' = [usable EXCEPT ![u] = FALSE]
    /\ UNCHANGED <<phone, row, request, created>>

-----------------------------------------------------------------------------
Continue(r, q) ==
    /\ request' = [request EXCEPT ![r] = q]
    /\ UNCHANGED <<phone, usable, row, created>>

\* exchange_login_code; a known identity needs nothing else and changes no binding,
\* so only the unknown one is followed here.
ExchangeLogin(r, p) ==
    /\ request[r] = Idle /\ OfPerson(p) = {}
    /\ Continue(r, [pc |-> "phone", person |-> p])

\* exchange_phone_code.
ExchangePhone(r, x) ==
    /\ request[r].pc = "phone"
    /\ Continue(r, [pc |-> "save", person |-> request[r].person, phone |-> x])

\* The identity may exist by now; then its account is the one that is logged in to.
FindIdentity(r) ==
    /\ request[r].pc = "save"
    /\ LET q == request[r] IN
       IF OfPerson(q.person) = {}
       THEN Continue(r, [pc |-> "account", person |-> q.person, phone |-> q.phone,
                         seen |-> OfPhone(q.phone)])
       ELSE Continue(r, Idle)

AccountOf(q) == OfPhone(q.phone)

\* select_for_update by phone, or an insert that keeps others of that phone waiting.
LockAccount(r) ==
    /\ request[r].pc = "account"
    /\ LET q == request[r] IN
       /\ ~PhoneLocked(q.phone)
       /\ \A u \in AccountOf(q) : ~Locked(u)
       /\ \E u \in IF AccountOf(q) # {} THEN AccountOf(q)
                   ELSE {v \in Users : ~Exists(v) /\ ~Locked(v)} :
             Continue(r, [pc |-> "write", person |-> q.person, phone |-> q.phone,
                          user |-> u, new |-> ~Exists(u)])

Admitted(q) == usable[q.user] /\ OfPerson(q.person) \subseteq {q.user}

CreatedBy(q) == q.new /\ Admitted(q)

\* The openid replaces the one bound before, or is bound, if it is not another's by
\* now; an error undoes a new account as well.
WriteAndCommit(r) ==
    /\ Busy(r)
    /\ LET q == request[r] IN
       /\ phone' = IF CreatedBy(q) THEN [phone EXCEPT ![q.user] = q.phone] ELSE phone
       /\ created' = IF CreatedBy(q) THEN created \cup {q.user} ELSE created
       /\ row' = IF Admitted(q) THEN [row EXCEPT ![q.user] = q.person] ELSE row
    /\ request' = [request EXCEPT ![r] = Idle]
    /\ UNCHANGED usable

\* WeChat refuses, a worker dies, or the client goes away.
Abort(r) == request[r] # Idle /\ Continue(r, Idle)

Next ==
    \/ \E u \in Users : Suspend(u) \/ \E x \in Phones : ChangePhone(u, x)
    \/ \E r \in Requests :
         \/ \E p \in Persons : ExchangeLogin(r, p)
         \/ \E x \in Phones : ExchangePhone(r, x)
         \/ FindIdentity(r) \/ LockAccount(r) \/ WriteAndCommit(r) \/ Abort(r)

Spec == Init /\ [][Next]_vars

-----------------------------------------------------------------------------
\* The shape of the state; bindings belong to accounts that exist.
TypeOK ==
    /\ phone \in [Users -> Phones \cup {None}] /\ usable \in [Users -> BOOLEAN]
    /\ row \in [Users -> Persons \cup {None}]
    /\ \A u \in Users : row[u] # None => Exists(u)
    /\ \A r \in Requests : request[r].pc \in {"idle", "phone", "save", "account", "write"}
    /\ created \subseteq {u \in Users : Exists(u)}

\* One openid opens one account, although two requests that first saw it unbound may
\* reach two accounts, of two phones.
OneAccount == \A p \in Persons : Cardinality(OfPerson(p)) <= 1

\* A first login that is tapped twice, or whose phone is taken meanwhile, leaves one
\* account of a phone.
OnePerPhone == \A x \in Phones : Cardinality(OfPhone(x)) <= 1

\* A login creates an account and its binding or neither: an account it created can be
\* reached from WeChat ever after.
NoOrphans == \A u \in created : row[u] # None

\* Only who has, for WeChat, the phone the account has at that moment is bound to it or
\* takes another's place in it; a number that was given up meanwhile opens nothing.
BoundByPhone ==
    \A u \in Users : row'[u] # row[u] =>
       \E r \in Requests : request[r].pc = "write" /\ request[r].person = row'[u]
                           /\ phone'[u] = request[r].phone
=============================================================================
