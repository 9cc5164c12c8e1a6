--------------------------- MODULE AccountRegistry ---------------------------
(***************************************************************************)
(* Users and their Stellar accounts (src/modules/accounts/routes.ts): the  *)
(* registration of a key by a session, the issuance of custodial accounts, *)
(* and how a session finds its user (resolveUserId of                      *)
(* src/modules/remittance/RemittanceService.ts).                           *)
(* Which account is the default is left out: a client may name any of its  *)
(* accounts, and the default is only what is taken when it names none.     *)
(*                                                                         *)
(* A wallet's session carries its public key; its users row has that key   *)
(* as subject.  A customer's session carries the id of the users row that  *)
(* the issuance made, which has no subject.  The custodial key generated   *)
(* for a customer is represented by the customer.                          *)
(***************************************************************************)
EXTENDS RequestDesk

CONSTANTS
  Wallets,      \* the sessions of non-custodial apps
  Customers,    \* the customers that may ask for a custodial account
  OwnKeys,      \* the keys that no server holds the secret of
  Registering   \* the sessions that register keys

Sessions == Wallets \union Customers
Keys == Customers \union OwnKeys

\* The id of the users row that has this subject.
UserOf(subject) == <<"user", subject>>
UserIds == {UserOf(s) : s \in Sessions} \union Customers

ASSUME RegistryAssumption ==
  /\ Wallets \intersect Customers = {}
  /\ Registering \subseteq Sessions
  /\ \A s \in Sessions : UserOf(s) \notin Sessions /\ UserOf(UserOf(s)) \notin Sessions

VARIABLES
  users,      \* the ids in the users table
  accounts    \* the stellar_accounts table: the rows, by user and key

registryVars == <<users, accounts>>

\* An account row is named by its user and its key.
Accounts == [user : UserIds, key : Keys]

RegistryInit == users = {} /\ accounts = {}

\* The user of a session, or of a user id: found by subject, or the id itself.
ResolveUserId(x) == IF UserOf(x) \in users THEN UserOf(x) ELSE x

HasAccount(u, k) == [user |-> u, key |-> k] \in accounts

\* A customer has a session once its account exists.
Authenticated(s) == s \in Wallets \/ HasAccount(s, s)

RegisterHandlers == [op : {"register"}, pc : {"newUser", "account", "insert"},
                     session : Sessions, key : Keys]
IssueHandlers == [op : {"issue"}, pc : {"insert"}, session : Customers]

-----------------------------------------------------------------------------
\* POST /v1/accounts

\* The SELECT of the session's users row.  Any session may name any key, another
\* user's and a custodial one among them: nobody asks it to prove that the key is
\* its own.
Register(q, s) ==
  /\ s \in Registering
  /\ Authenticated(s)
  /\ \E k \in Keys :
       Begin(q, [op |-> "register", session |-> s, key |-> k,
                 pc |-> IF UserOf(s) \in users THEN "account" ELSE "newUser"])
  /\ UNCHANGED registryVars

\* The subject is unique: the slower of two first registrations throws.
InsertUser(q) ==
  LET u == UserOf(req[q].session) IN
  /\ At(q, "register", "newUser")
  /\ IF u \in users THEN Ends(q) ELSE Goes(q, "account")
  /\ users' = users \union {u}
  /\ UNCHANGED accounts

\* A key that is registered already is answered as it is.
LookUpAccount(q) ==
  LET c == req[q] IN
  /\ At(q, "register", "account")
  /\ IF HasAccount(UserOf(c.session), c.key) THEN Ends(q) ELSE Goes(q, "insert")
  /\ UNCHANGED registryVars

\* User and key are unique: the slower of two registrations of a key throws.
InsertAccount(q) ==
  LET c == req[q] IN
  /\ At(q, "register", "insert")
  /\ accounts' = accounts \union {[user |-> UserOf(c.session), key |-> c.key]}
  /\ Ends(q)
  /\ UNCHANGED users

-----------------------------------------------------------------------------
\* POST /v1/accounts/custodial: a users row, then the account with its secret.

IssueCustodial(q, c) ==
  /\ c \notin users
  /\ users' = users \union {c}
  /\ Begin(q, [op |-> "issue", pc |-> "insert", session |-> c])
  /\ UNCHANGED accounts

InsertCustodial(q) ==
  LET c == req[q].session IN
  /\ At(q, "issue", "insert")
  /\ accounts' = accounts \union {[user |-> c, key |-> c]}
  /\ Ends(q)
  /\ UNCHANGED users

-----------------------------------------------------------------------------
RegistryStep(q) ==
  \/ InsertUser(q) \/ LookUpAccount(q) \/ InsertAccount(q) \/ InsertCustodial(q)

RegistryNext ==
  \E q \in Requests :
    \/ RegistryStep(q)
    \/ \E s \in Wallets \union Customers : Register(q, s)
    \/ \E c \in Customers : IssueCustodial(q, c)
=============================================================================
