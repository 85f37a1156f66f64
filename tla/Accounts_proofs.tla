-------------------------- MODULE Accounts_proofs --------------------------
(***************************************************************************)
(* Theorems about Accounts, for any number of users, tokens and requests,  *)
(* any databases to start on, and any of the operations.                   *)
(***************************************************************************)
EXTENDS Accounts, TLAPS

-----------------------------------------------------------------------------
(* What a step may do to a request, and to the rows.                       *)

(* What a request was sent for never changes.                              *)
Same(r, q) == /\ q.op = r.op /\ q.user = r.user /\ q.token = r.token
              /\ q.target = r.target /\ q.named = r.named
              /\ q.password = r.password

(* A request as Receive hands it to the middleware.                        *)
Fresh(r) == /\ account[r.user] # None
            /\ r.op # "login" => /\ r.at = "auth.token"
                                 /\ r.token \in Tokens
                                 /\ token[r.token] # None
                                 /\ token[r.token].user = r.user
                                 /\ r.named \in Tokens
                                 /\ token[r.named] # None
            /\ r.op = "login" => r.at = "login.user" /\ r.target = r.user
            /\ r.op # "createUser" => account[r.target] # None

(* Rows are never deleted, but those of user_roles, which history keeps.   *)
RowsStay ==
    /\ \A u \in Users : account[u] # None => account'[u] # None
    /\ \A t \in Tokens : token[t] # None =>
          token'[t] # None /\ token'[t].user = token[t].user
    /\ \A u \in Users : completed[u] \subseteq completed'[u]
    /\ admins \subseteq admins'

(* A request goes on as the same one, ends, or begins.                     *)
RequestsFollow ==
    \A s \in Slots : \/ req'[s] = None
                     \/ req[s] # None /\ Same(req[s], req'[s])
                     \/ req[s] = None /\ Fresh(req'[s])

-----------------------------------------------------------------------------
(* The inductive invariant.                                                *)

(* Requests and tokens refer to rows there are.                            *)
References ==
    /\ \A t \in Tokens : token[t] # None => account[token[t].user] # None
    /\ \A u \in admins : account[u] # None
    /\ \A s \in Slots : req[s] # None =>
          /\ account[req[s].user] # None
          /\ req[s].op # "login" => /\ req[s].token \in Tokens
                                    /\ token[req[s].token] # None
                                    /\ token[req[s].token].user = req[s].user
                                    /\ req[s].named \in Tokens
                                    /\ token[req[s].named] # None
          /\ req[s].op = "login" => req[s].target = req[s].user
          /\ req[s].op # "createUser" => account[req[s].target] # None

(* Which labels belong to which operations.                                *)
Shape ==
    \A s \in Slots : req[s] # None =>
        /\ req[s].op = "login" <=> req[s].at \in {"login.user", "login.insert"}
        /\ req[s].at = "assign" => /\ req[s].op \in {"createUser", "updateRoles"}
                                   /\ account[req[s].target] # None

(* What holds at this moment has been observed.                            *)
Sees == \A s \in Slots : HoldingFor(s) \subseteq met[s]

Authenticated == {"auth.roles", "signature", "act", "assign"}

(* What a request may rely on at each label, whatever has changed since.   *)
Knows(s) ==
    LET r == req[s] IN
    /\ r.at = "auth.user" => "token" \in met[s]
    /\ r.at \in Authenticated => {"token", "active"} \subseteq met[s]
    /\ r.at = "auth.roles" /\ ~r.pending => "setup" \in met[s]
    /\ r.at \in {"signature", "act", "assign"} => "setup" \in met[s]
    /\ r.at = "signature" /\ Permitted(r, r.roles) => "role" \in met[s]
    /\ r.at \in {"act", "assign"} => "role" \in met[s]
    /\ r.at = "login.insert" => {"active", "password"} \subseteq met[s]

Knowledge == \A s \in Slots : req[s] # None => Knows(s)

(* The flags of an account tell what has been done for its user, and so    *)
(* does a request that once found its user's set-up done.                  *)
Settled ==
    /\ \A u \in Users : account[u] # None =>
          /\ ~account[u].must => "password" \in completed[u]
          /\ account[u].key # "none" => "key" \in completed[u]
    /\ \A s \in Slots :
          req[s] # None /\ ~SetupStep(req[s]) /\ "setup" \in met[s]
             => completed[req[s].user] = {"password", "key"}

(* Administrators, former ones included, and the requests that found their *)
(* user to be one; while the first is made there are none.                 *)
Authority ==
    /\ \A u \in Users : "ADMIN" \in RolesOf(u) => u \in admins
    /\ \A s \in Slots :
          req[s] # None /\ req[s].op \in AdminOnly /\ "role" \in met[s]
             => req[s].user \in admins
    /\ server = "seed.create" => Named = {}
    /\ server = "seed.assign" => founder \in Users /\ Named = {founder} /\ admins = {}

Core == TypeOK /\ References /\ Shape
IInv == Core /\ Sees /\ Knowledge /\ Settled /\ Authority

-----------------------------------------------------------------------------
(* Lemmas about requests and about what is observed.                       *)

LEMMA RequestType ==
    ASSUME TypeOK, NEW s \in Slots, req[s] # None
    PROVE  /\ req[s] \in Request
           /\ req[s].op \in Operations /\ req[s].at \in Labels
           /\ req[s].user \in Users /\ req[s].target \in Users
           /\ req[s].password \in Passwords /\ req[s].want \in SUBSET Roles
<1>1. req[s] \in Request
  BY DEF TypeOK
<1> QED
  BY <1>1 DEF Request

LEMMA AccountType ==
    ASSUME TypeOK, NEW u \in Users, account[u] # None
    PROVE  account[u] \in Account
BY DEF TypeOK

LEMMA TokenType ==
    ASSUME TypeOK, NEW t \in Tokens, token[t] # None
    PROVE  token[t] \in Token /\ token[t].user \in Users
<1>1. token[t] \in Token
  BY DEF TypeOK
<1> QED
  BY <1>1 DEF Token

(* Observing keeps the type of met, records what holds now, and forgets    *)
(* nothing about a request that goes on.                                   *)
LEMMA Observed ==
    ASSUME TypeOK, Observe
    PROVE  /\ met' \in [Slots -> SUBSET Conditions]
           /\ Sees'
           /\ \A s \in Slots : req[s] # None /\ req'[s] # None =>
                 met'[s] = met[s] \cup HoldingFor(s)'
           /\ \A s \in Slots : req[s] = None /\ req'[s] # None =>
                 met'[s] = HoldingFor(s)'
<1>1. \A s \in Slots : HoldingFor(s)' \subseteq Conditions
  BY DEF HoldingFor, Holding
<1>2. \A s \in Slots : met'[s] = IF req[s] = None \/ req'[s] = None
                                 THEN HoldingFor(s)' ELSE met[s] \cup HoldingFor(s)'
  BY DEF Observe
<1>3. Sees'
  BY <1>2 DEF Sees
<1>4. met' \in [Slots -> SUBSET Conditions]
  BY <1>1 DEF Observe, TypeOK
<1> QED
  BY <1>2, <1>3, <1>4

-----------------------------------------------------------------------------
(* Type correctness.                                                       *)

(* A request keeps its type when it moves, ends or begins.                 *)
LEMMA GotoType ==
    ASSUME TypeOK, NEW s \in Slots, req[s] # None, NEW l \in Labels, Goto(s, l)
    PROVE  /\ req' \in [Slots -> Request \cup {None}]
           /\ req'[s] = [req[s] EXCEPT !.at = l]
           /\ req'[s] \in Request
           /\ \A z \in Slots \ {s} : req'[z] = req[z]
<1>1. req[s] \in Request /\ req \in [Slots -> Request \cup {None}]
  BY DEF TypeOK
<1>2. [req[s] EXCEPT !.at = l] \in Request
  BY <1>1 DEF Request
<1>3. req' = [req EXCEPT ![s] = [req[s] EXCEPT !.at = l]]
  BY DEF Goto
<1> QED
  BY <1>1, <1>2, <1>3

LEMMA DoneType ==
    ASSUME TypeOK, NEW s \in Slots, Done(s)
    PROVE  /\ req' \in [Slots -> Request \cup {None}]
           /\ req'[s] = None
           /\ \A z \in Slots \ {s} : req'[z] = req[z]
BY DEF TypeOK, Done

LEMMA AskType ==
    ASSUME TypeOK, References, NEW t \in Tokens, token[t] # None,
           NEW op \in Operations \ {"login"}, NEW u \in Users,
           op # "createUser" => account[u] # None
    PROVE  /\ Ask(t, op, u) \in Request
           /\ Ask(t, op, u).op = op
           /\ Fresh(Ask(t, op, u))
<1>1. token[t].user \in Users /\ account[token[t].user] # None
  BY TokenType DEF References
<1>2. (CHOOSE p \in Passwords : TRUE) \in Passwords
  BY PasswordsAssumption
<1> QED
  BY <1>1, <1>2 DEF Ask, Request, Fresh, Labels

(* Every route hands on a request of the right type that is Fresh.         *)
LEMMA ReceiveFresh ==
    ASSUME TypeOK, References, NEW s \in Slots, Receive(s)
    PROVE  \E r \in Request : Fresh(r) /\ Accept(s, r)
<1>1. CASE ReceiveLogin(s)
  <2>1. PICK u \in Named, p \in Passwords :
           Accept(s, [op |-> "login", at |-> "login.user", user |-> u, token |-> None,
                      target |-> u, roles |-> {}, pending |-> TRUE, password |-> p,
                      named |-> None, want |-> {}])
    BY <1>1 DEF ReceiveLogin
  <2> DEFINE r == [op |-> "login", at |-> "login.user", user |-> u, token |-> None,
                   target |-> u, roles |-> {}, pending |-> TRUE, password |-> p,
                   named |-> None, want |-> {}]
  <2>2. r \in Request
    BY DEF Request, Operations, Labels, Named
  <2>3. Fresh(r)
    BY DEF Fresh, Named
  <2> QED
    BY <2>1, <2>2, <2>3
<1>2. ASSUME NEW t \in Tokens, token[t] # None,
             \/ ReceivePlain(s, t)
             \/ ReceiveLogout(s, t)
             \/ ReceiveRevokeToken(s, t)
             \/ ReceivePassword(s, t)
             \/ ReceiveRoles(s, t)
      PROVE  \E r \in Request : Fresh(r) /\ Accept(s, r)
  <2>t. token[t].user \in Users /\ account[token[t].user] # None
    BY <1>2, TokenType DEF References
  <2>1. CASE ReceivePlain(s, t)
    <3>1. PICK op \in Plain, u \in Named : Accept(s, Ask(t, op, u))
      BY <2>1 DEF ReceivePlain
    <3>2. op \in Operations \ {"login"} /\ u \in Users /\ account[u] # None
      BY DEF Plain, Operations, AdminOnly, OwnerOrAdmin, Named
    <3> QED
      BY <1>2, <3>1, <3>2, AskType
  <2>2. CASE ReceiveLogout(s, t)
    <3>1. "logout" \in Operations \ {"login"}
      BY DEF Operations
    <3> QED
      BY <1>2, <2>2, <2>t, <3>1, AskType DEF ReceiveLogout
  <2>3. CASE ReceiveRevokeToken(s, t)
    <3>1. PICK u \in Named, n \in Tokens :
             /\ token[n] # None
             /\ Accept(s, [Ask(t, "revokeToken", u) EXCEPT !.named = n])
      BY <2>3 DEF ReceiveRevokeToken
    <3>2. "revokeToken" \in Operations \ {"login"} /\ u \in Users /\ account[u] # None
      BY DEF Operations, OwnerOrAdmin, Named
    <3>3. Ask(t, "revokeToken", u) \in Request /\ Fresh(Ask(t, "revokeToken", u))
      BY <1>2, <3>2, AskType
    <3>4. [Ask(t, "revokeToken", u) EXCEPT !.named = n] \in Request
      BY <3>3 DEF Request
    <3>5. Fresh([Ask(t, "revokeToken", u) EXCEPT !.named = n])
      BY <3>1, <3>3 DEF Fresh, Ask
    <3> QED
      BY <3>1, <3>4, <3>5
  <2>4. CASE ReceivePassword(s, t)
    <3>1. PICK op \in {"changePassword", "resetPassword"}, u \in Named, p \in Passwords :
             Accept(s, [Ask(t, op, u) EXCEPT !.password = p])
      BY <2>4 DEF ReceivePassword
    <3>2. op \in Operations \ {"login"} /\ u \in Users /\ account[u] # None
      BY DEF Operations, AdminOnly, OwnerOrAdmin, Named
    <3>3. Ask(t, op, u) \in Request /\ Fresh(Ask(t, op, u))
      BY <1>2, <3>2, AskType
    <3>4. [Ask(t, op, u) EXCEPT !.password = p] \in Request
      BY <3>3 DEF Request
    <3>5. Fresh([Ask(t, op, u) EXCEPT !.password = p])
      BY <3>3 DEF Fresh, Ask
    <3> QED
      BY <3>1, <3>4, <3>5
  <2>5. CASE ReceiveRoles(s, t)
    <3>1. PICK w \in (SUBSET Assignable) \ {{}}, u \in Users,
               op \in {"createUser", "updateRoles"} :
             /\ op # "createUser" => account[u] # None
             /\ Accept(s, [Ask(t, op, u) EXCEPT !.want = w])
      BY <2>5 DEF ReceiveRoles
    <3>2. op \in Operations \ {"login"} /\ w \in SUBSET Roles
      BY BoundsAssumption DEF Operations, AdminOnly
    <3>3. Ask(t, op, u) \in Request /\ Fresh(Ask(t, op, u))
      BY <1>2, <3>1, <3>2, AskType
    <3>4. [Ask(t, op, u) EXCEPT !.want = w] \in Request
      BY <3>2, <3>3 DEF Request
    <3>5. Fresh([Ask(t, op, u) EXCEPT !.want = w])
      BY <3>3 DEF Fresh, Ask
    <3> QED
      BY <3>1, <3>4, <3>5
  <2> QED
    BY <1>2, <2>1, <2>2, <2>3, <2>4, <2>5
<1> QED
  BY <1>1, <1>2 DEF Receive

-----------------------------------------------------------------------------
(* Each step keeps the types, the rows, and what requests are about.       *)

Orderly == TypeOK' /\ RowsStay /\ RequestsFollow

(* One request goes on as the same one or ends, and the others wait.       *)
LEMMA OneFollows ==
    ASSUME NEW s \in Slots, \A z \in Slots \ {s} : req'[z] = req[z],
           req'[s] = None \/ (req[s] # None /\ Same(req[s], req'[s]))
    PROVE  RequestsFollow
BY DEF RequestsFollow, Same

LEMMA GotoSame ==
    ASSUME TypeOK, NEW s \in Slots, req[s] # None, NEW l \in Labels, Goto(s, l)
    PROVE  Same(req[s], req'[s])
<1> DEFINE r == req[s]
           q == [r EXCEPT !.at = l]
<1>1. r \in Request /\ req'[s] = q
  BY GotoType, RequestType
<1> HIDE DEF r
<1>2. q.op = r.op /\ q.user = r.user /\ q.token = r.token
  BY <1>1 DEF Request
<1>3. q.target = r.target /\ q.named = r.named /\ q.password = r.password
  BY <1>1 DEF Request
<1> HIDE DEF q
<1>4. Same(r, q)
  BY <1>2, <1>3 DEF Same
<1> QED
  BY <1>1, <1>4 DEF r

LEMMA RowsUnchanged ==
    ASSUME TypeOK, UNCHANGED rows
    PROVE  RowsStay
BY DEF rows, RowsStay

LEMMA AcceptOrderly ==
    ASSUME TypeOK, NEW s \in Slots, NEW r \in Request, Fresh(r), Accept(s, r)
    PROVE  Orderly
<1>1. req' \in [Slots -> Request \cup {None}]
  BY DEF TypeOK, Accept
<1>2. inputs' \in Nat
  BY DEF TypeOK, Accept, Input
<1>3. TypeOK'
  BY <1>1, <1>2, Observed DEF TypeOK, Accept, rows, process
<1>4. RowsStay
  BY RowsUnchanged DEF Accept
<1>5. RequestsFollow
  BY DEF RequestsFollow, Same, Accept, TypeOK
<1> QED
  BY <1>3, <1>4, <1>5 DEF Orderly

(* The steps of the middleware, of the login, and the end of a request.    *)
Check(s) == \/ ReadToken(s) \/ ReadUser(s) \/ ReadRoles(s) \/ CheckSignature(s)
            \/ CheckCredentials(s)

LEMMA CheckMoves ==
    ASSUME TypeOK, References, NEW s \in Slots, Check(s)
    PROVE  /\ req[s] # None
           /\ req' \in [Slots -> Request \cup {None}]
           /\ req'[s] \in Request
           /\ Same(req[s], req'[s])
           /\ \A z \in Slots \ {s} : req'[z] = req[z]
           /\ Idle
<1>1. req[s] # None /\ Idle
  BY DEF Check, ReadToken, ReadUser, ReadRoles, CheckSignature, CheckCredentials, At
<1>2. req[s] \in Request /\ req \in [Slots -> Request \cup {None}]
  BY <1>1 DEF TypeOK
<1>3. CASE \E l \in Labels : Goto(s, l)
  BY <1>1, <1>3, GotoType, GotoSame
<1>4. CASE ReadUser(s)
  <2> DEFINE r == [req[s] EXCEPT !.at = "auth.roles",
                                 !.pending = SetupPending(account[req[s].user])]
  <2>1. req' = [req EXCEPT ![s] = r]
    BY <1>4 DEF ReadUser
  <2>2. SetupPending(account[req[s].user]) \in BOOLEAN
    <3>1. account[req[s].user] \in Account
      BY <1>1, RequestType, AccountType DEF References
    <3> QED
      BY <3>1 DEF SetupPending, Account
  <2>3. r \in Request /\ Same(req[s], r)
    BY <1>2, <2>2 DEF Request, Labels, Same
  <2> QED
    BY <1>1, <1>2, <2>1, <2>3
<1>5. CASE ReadRoles(s)
  <2>1. PICK next \in {"act", "signature"} :
           req' = [req EXCEPT ![s].at = next, ![s].roles = RolesOf(req[s].user)]
    BY <1>5 DEF ReadRoles
  <2> DEFINE r == [req[s] EXCEPT !.at = next, !.roles = RolesOf(req[s].user)]
  <2>2. r \in Request /\ Same(req[s], r)
    BY <1>2 DEF Request, Labels, Same, RolesOf
  <2>3. req' = [req EXCEPT ![s] = r]
    BY <2>1
  <2> QED
    BY <1>1, <1>2, <2>2, <2>3
<1>6. {"auth.user", "act", "login.insert"} \subseteq Labels
  BY DEF Labels
<1> QED
  BY <1>3, <1>4, <1>5, <1>6 DEF Check, ReadToken, CheckSignature, CheckCredentials

LEMMA CheckOrderly ==
    ASSUME TypeOK, References, NEW s \in Slots, Check(s)
    PROVE  Orderly
<1>1. TypeOK'
  BY CheckMoves, Observed DEF Idle, TypeOK, rows, process
<1>2. RowsStay
  BY CheckMoves, RowsUnchanged DEF Idle
<1>3. RequestsFollow
  BY CheckMoves, OneFollows
<1> QED
  BY <1>1, <1>2, <1>3 DEF Orderly

LEMMA StopOrderly ==
    ASSUME TypeOK, NEW s \in Slots, Stop(s)
    PROVE  Orderly
<1>1. TypeOK'
  BY DoneType, Observed DEF Stop, Idle, TypeOK, rows, process
<1>2. RowsStay
  BY RowsUnchanged DEF Stop, Idle
<1>3. RequestsFollow
  BY DoneType, OneFollows DEF Stop
<1> QED
  BY <1>1, <1>2, <1>3 DEF Orderly

(* The handlers that change a row of users and are done.                   *)
LEMMA UpdateOrderly ==
    ASSUME TypeOK, References, NEW s \in Slots, NEW op, NEW a \in Account,
           Update(s, op, a),
           \/ UNCHANGED completed
           \/ \E step \in {"password", "key"} : Take(s, step)
    PROVE  Orderly
<1>1. req[s] # None /\ req[s].target \in Users /\ Done(s) /\ Observe
  BY RequestType DEF Update, Act, At
<1>2. account' = [account EXCEPT ![req[s].target] = a]
  BY DEF Update, Target
<1>3. account' \in [Users -> Account \cup {None}]
  BY <1>1, <1>2 DEF TypeOK
<1>4. completed' \in [Users -> SUBSET {"password", "key"}]
  BY <1>1 DEF TypeOK, Take, Target
<1>5. TypeOK'
  BY <1>1, <1>3, <1>4, DoneType, Observed DEF Update, TypeOK, process
<1>6. RowsStay
  <2>1. \A u \in Users : account[u] # None => account'[u] # None
    BY <1>1, <1>2, NoneAssumption DEF TypeOK
  <2>2. \A u \in Users : completed[u] \subseteq completed'[u]
    BY <1>1 DEF TypeOK, Take, Target
  <2> QED
    BY <2>1, <2>2 DEF RowsStay, Update
<1>7. RequestsFollow
  BY <1>1, DoneType, OneFollows
<1> QED
  BY <1>5, <1>6, <1>7 DEF Orderly

(* The handlers that change a row of users, each with its new row.         *)
Change(s) == \/ Deactivate(s) \/ Reactivate(s) \/ RegisterPublicKey(s)
             \/ RevokePublicKey(s) \/ ChangePassword(s) \/ AdminResetPassword(s)
             \/ ForcePasswordChange(s)

LEMMA ChangeOrderly ==
    ASSUME TypeOK, References, NEW s \in Slots, Change(s)
    PROVE  Orderly
<1> DEFINE old == account[Target(s)]
<1>1. req[s] # None /\ req[s].op \notin {"createUser"}
  BY DEF Change, Deactivate, Reactivate, RegisterPublicKey, RevokePublicKey,
         ChangePassword, AdminResetPassword, ForcePasswordChange, Update, Act, At
<1>2. old \in Account /\ req[s].password \in Passwords
  BY <1>1, RequestType, AccountType DEF References, Target
<1>3. /\ \A b \in BOOLEAN : [old EXCEPT !.active = b] \in Account
      /\ \A b \in BOOLEAN : [old EXCEPT !.must = b] \in Account
      /\ \A k \in {"none", "valid"} : [old EXCEPT !.key = k] \in Account
      /\ \A b \in BOOLEAN : [old EXCEPT !.password = req[s].password, !.must = b] \in Account
  BY <1>2 DEF Account
<1>4. CASE Deactivate(s) \/ Reactivate(s)
  BY <1>3, <1>4, UpdateOrderly DEF Deactivate, Reactivate
<1>5. CASE RegisterPublicKey(s) \/ RevokePublicKey(s)
  BY <1>3, <1>5, UpdateOrderly DEF RegisterPublicKey, RevokePublicKey
<1>6. CASE ChangePassword(s) \/ AdminResetPassword(s)
  BY <1>3, <1>6, UpdateOrderly DEF ChangePassword, AdminResetPassword
<1>7. CASE ForcePasswordChange(s)
  BY <1>3, <1>7, UpdateOrderly DEF ForcePasswordChange
<1> QED
  BY <1>4, <1>5, <1>6, <1>7 DEF Change

LEMMA CreateUserOrderly ==
    ASSUME TypeOK, NEW s \in Slots, CreateUser(s)
    PROVE  Orderly
<1>1. req[s] # None /\ Goto(s, "assign") /\ Observe
  BY DEF CreateUser, Act, At
<1>2. /\ account[req[s].target] = None
      /\ account' = [account EXCEPT ![req[s].target] = NewAccount(req[s].password)]
  BY DEF CreateUser, Insert, Target
<1>3. NewAccount(req[s].password) \in Account /\ req[s].target \in Users
  BY <1>1, RequestType DEF NewAccount, Account
<1>4. account' \in [Users -> Account \cup {None}]
  BY <1>2, <1>3 DEF TypeOK
<1>5. "assign" \in Labels
  BY DEF Labels
<1>6. TypeOK'
  BY <1>1, <1>4, <1>5, GotoType, Observed DEF CreateUser, TypeOK, process
<1>7. RowsStay
  BY <1>2, <1>3, NoneAssumption DEF CreateUser, RowsStay, TypeOK
<1>8. RequestsFollow
  <2>1. Same(req[s], req'[s])
    BY <1>1, <1>5, GotoSame
  <2> QED
    BY <1>1, <1>5, <2>1, GotoType, OneFollows
<1> QED
  BY <1>6, <1>7, <1>8 DEF Orderly

LEMMA ClearRolesOrderly ==
    ASSUME TypeOK, NEW s \in Slots, ClearRoles(s)
    PROVE  Orderly
<1>1. req[s] # None /\ Goto(s, "assign") /\ Observe
  BY DEF ClearRoles, Act, At
<1>2. roles' \in [Users -> [Roles -> Users \cup {None}]]
  BY <1>1, RequestType DEF ClearRoles, Target, TypeOK
<1>3. "assign" \in Labels
  BY DEF Labels
<1>4. TypeOK'
  BY <1>1, <1>2, <1>3, GotoType, Observed DEF ClearRoles, TypeOK, process
<1>5. RowsStay
  BY DEF ClearRoles, RowsStay
<1>6. RequestsFollow
  <2>1. Same(req[s], req'[s])
    BY <1>1, <1>3, GotoSame
  <2> QED
    BY <1>1, <1>3, <2>1, GotoType, OneFollows
<1> QED
  BY <1>4, <1>5, <1>6 DEF Orderly

LEMMA GrantTypes ==
    ASSUME TypeOK, NEW u \in Users, NEW r \in Roles, NEW by \in Users, Grant(u, r, by)
    PROVE  /\ roles' \in [Users -> [Roles -> Users \cup {None}]]
           /\ admins' \subseteq Users /\ admins \subseteq admins'
           /\ \A v \in Users, q \in Roles :
                 roles'[v][q] = IF v = u /\ q = r THEN by ELSE roles[v][q]
BY DEF TypeOK, Grant

LEMMA AssignRoleOrderly ==
    ASSUME TypeOK, NEW s \in Slots, AssignRole(s)
    PROVE  Orderly
<1>1. req[s] # None /\ Observe
  BY DEF AssignRole, At
<1>2. PICK r \in req[s].want :
         /\ Grant(req[s].target, r, req[s].user)
         /\ IF req[s].want = {r} THEN Done(s)
            ELSE req' = [req EXCEPT ![s].want = @ \ {r}]
  BY DEF AssignRole, Target
<1>3. r \in Roles /\ req[s].user \in Users /\ req[s].target \in Users
  BY <1>1, RequestType
<1>4. /\ req' \in [Slots -> Request \cup {None}]
      /\ req'[s] = None \/ Same(req[s], req'[s])
      /\ \A z \in Slots \ {s} : req'[z] = req[z]
  <2>1. CASE req[s].want = {r}
    BY <1>2, <2>1, DoneType
  <2>2. CASE req[s].want # {r}
    <3> DEFINE q == [req[s] EXCEPT !.want = @ \ {r}]
    <3>1. req[s] \in Request /\ req \in [Slots -> Request \cup {None}]
      BY <1>1 DEF TypeOK
    <3>2. req' = [req EXCEPT ![s] = q]
      BY <1>2, <2>2
    <3>3. q \in Request /\ Same(req[s], q)
      BY <3>1 DEF Request, Same
    <3> QED
      BY <3>1, <3>2, <3>3
  <2> QED
    BY <2>1, <2>2
<1>5. /\ roles' \in [Users -> [Roles -> Users \cup {None}]]
      /\ admins' \subseteq Users /\ admins \subseteq admins'
  BY <1>2, <1>3, GrantTypes
<1>6. TypeOK'
  BY <1>1, <1>4, <1>5, Observed DEF AssignRole, TypeOK, process
<1>7. RowsStay
  BY <1>5 DEF AssignRole, RowsStay
<1>8. RequestsFollow
  BY <1>1, <1>4, OneFollows
<1> QED
  BY <1>6, <1>7, <1>8 DEF Orderly

LEMMA NewTokenOrderly ==
    ASSUME TypeOK, NEW s \in Slots, req[s] # None, NewToken(s)
    PROVE  /\ Orderly
           /\ Done(s)
           /\ \A t \in Tokens : token'[t] # token[t] => token'[t].user = req[s].target
<1>1. Done(s) /\ Observe /\ req[s].target \in Users
  BY RequestType DEF NewToken
<1>2. PICK t \in Tokens :
         /\ token[t] = None
         /\ token' = [token EXCEPT ![t] = [user |-> req[s].target, state |-> "live"]]
  BY DEF NewToken, Target
<1>3. [user |-> req[s].target, state |-> "live"] \in Token
  BY <1>1 DEF Token
<1>4. token' \in [Tokens -> Token \cup {None}]
  BY <1>2, <1>3 DEF TypeOK
<1>5. TypeOK'
  BY <1>1, <1>4, DoneType, Observed DEF NewToken, TypeOK, process
<1>6. RowsStay
  BY <1>2 DEF NewToken, RowsStay, TypeOK
<1>7. RequestsFollow
  BY <1>1, DoneType, OneFollows
<1>8. \A n \in Tokens : token'[n] # token[n] => token'[n].user = req[s].target
  BY <1>2 DEF TypeOK
<1> QED
  BY <1>1, <1>5, <1>6, <1>7, <1>8 DEF Orderly

(* A token that changes its state stays the token of its user.             *)
LEMMA TokenState ==
    ASSUME TypeOK, NEW t \in Tokens, token[t] # None,
           NEW v \in {"live", "expired", "revoked"},
           token' = [token EXCEPT ![t].state = v]
    PROVE  /\ token' \in [Tokens -> Token \cup {None}]
           /\ \A n \in Tokens : token[n] # None =>
                 token'[n] # None /\ token'[n].user = token[n].user
           /\ \A n \in Tokens : token[n] = None => token'[n] = None
<1> DEFINE k == [token[t] EXCEPT !.state = v]
<1>1. token[t] \in Token /\ token \in [Tokens -> Token \cup {None}]
  BY DEF TypeOK
<1>2. k \in Token /\ k.user = token[t].user
  BY <1>1 DEF Token
<1>3. token' = [token EXCEPT ![t] = k]
  OBVIOUS
<1>4. k # None
  BY <1>2, NoneAssumption
<1> HIDE DEF k
<1> QED
  BY <1>1, <1>2, <1>3, <1>4

LEMMA RevokeTokenOrderly ==
    ASSUME TypeOK, References, NEW s \in Slots, RevokeToken(s)
    PROVE  /\ Orderly
           /\ \A n \in Tokens : token[n] = None => token'[n] = None
<1>1. req[s] # None /\ Done(s) /\ Observe
  BY DEF RevokeToken, At
<1>2. req[s].named \in Tokens /\ token[req[s].named] # None
  BY <1>1 DEF RevokeToken, References
<1>3. token' = token \/ token' = [token EXCEPT ![req[s].named].state = "revoked"]
  BY DEF RevokeToken
<1>4. /\ token' \in [Tokens -> Token \cup {None}]
      /\ \A n \in Tokens : token[n] # None =>
            token'[n] # None /\ token'[n].user = token[n].user
      /\ \A n \in Tokens : token[n] = None => token'[n] = None
  BY <1>2, <1>3, TokenState DEF TypeOK
<1>5. TypeOK'
  BY <1>1, <1>4, DoneType, Observed DEF RevokeToken, TypeOK, process
<1>6. RowsStay
  BY <1>4 DEF RevokeToken, RowsStay
<1>7. RequestsFollow
  BY <1>1, DoneType, OneFollows
<1> QED
  BY <1>4, <1>5, <1>6, <1>7 DEF Orderly

LEMMA RequestsWait ==
    ASSUME req' = req
    PROVE  RequestsFollow
BY DEF RequestsFollow, Same

LEMMA ServerOrderly ==
    ASSUME TypeOK, Authority, ServerStep
    PROVE  Orderly
<1>1. CASE StartServer \/ SeedList
  <2>1. Observe /\ UNCHANGED <<rows, req, founder, inputs>>
    BY <1>1 DEF StartServer, SeedList
  <2>2. server' \in {"seed.list", "seed.create", "up"}
    BY <1>1 DEF StartServer, SeedList
  <2>3. TypeOK'
    BY <2>1, <2>2, Observed DEF TypeOK, rows
  <2> QED
    BY <2>1, <2>3, RowsUnchanged, RequestsWait DEF Orderly
<1>2. CASE SeedCreate
  <2>1. PICK u \in Users, p \in Passwords :
           account[u] = None /\ account' = [account EXCEPT ![u] = NewAccount(p)] /\ founder' = u
    BY <1>2 DEF SeedCreate, Insert
  <2>2. NewAccount(p) \in Account
    BY DEF NewAccount, Account
  <2>3. TypeOK'
    BY <1>2, <2>1, <2>2, Observed DEF SeedCreate, TypeOK
  <2>4. RowsStay
    BY <1>2, <2>1, <2>2, NoneAssumption DEF SeedCreate, RowsStay, TypeOK
  <2> QED
    BY <1>2, <2>3, <2>4, RequestsWait DEF Orderly, SeedCreate
<1>3. CASE SeedAssign
  <2>1. founder \in Users /\ "ADMIN" \in Roles /\ Grant(founder, "ADMIN", founder)
    BY <1>3 DEF SeedAssign, Authority, Roles
  <2>2. /\ roles' \in [Users -> [Roles -> Users \cup {None}]]
        /\ admins' \subseteq Users /\ admins \subseteq admins'
    BY <2>1, GrantTypes
  <2>3. TypeOK'
    BY <1>3, <2>2, Observed DEF SeedAssign, TypeOK
  <2>4. RowsStay
    BY <1>3, <2>2 DEF SeedAssign, RowsStay
  <2> QED
    BY <1>3, <2>3, <2>4, RequestsWait DEF Orderly, SeedAssign
<1>4. CASE Crash
  <2>1. TypeOK'
    BY <1>4, Observed DEF Crash, TypeOK, rows
  <2>2. RequestsFollow
    BY <1>4 DEF Crash, RequestsFollow
  <2> QED
    BY <1>4, <2>1, <2>2, RowsUnchanged DEF Orderly, Crash
<1> QED
  BY <1>1, <1>2, <1>3, <1>4 DEF ServerStep

LEMMA ExpireOrderly ==
    ASSUME TypeOK, ExpireKey \/ ExpireToken
    PROVE  /\ Orderly
           /\ \A n \in Tokens : token[n] = None => token'[n] = None
<1>1. CASE ExpireKey
  <2>1. PICK u \in Named : account' = [account EXCEPT ![u].key = "expired"]
    BY <1>1 DEF ExpireKey
  <2> DEFINE a == [account[u] EXCEPT !.key = "expired"]
  <2>2. u \in Users /\ account[u] \in Account
    BY AccountType DEF Named
  <2>3. a \in Account
    BY <2>2 DEF Account
  <2>4. account' = [account EXCEPT ![u] = a]
    BY <2>1
  <2> HIDE DEF a
  <2>5. account' \in [Users -> Account \cup {None}]
    BY <2>2, <2>3, <2>4 DEF TypeOK
  <2>i. inputs' \in Nat
    BY <1>1 DEF TypeOK, ExpireKey, Input
  <2>6. TypeOK'
    BY <1>1, <2>5, <2>i, Observed DEF ExpireKey, TypeOK, process
  <2>7. RowsStay
    BY <1>1, <2>2, <2>3, <2>4, NoneAssumption DEF ExpireKey, RowsStay, TypeOK
  <2> QED
    BY <1>1, <2>6, <2>7, RequestsWait DEF Orderly, ExpireKey
<1>2. CASE ExpireToken
  <2>1. PICK t \in Tokens : token[t] # None /\ token' = [token EXCEPT ![t].state = "expired"]
    BY <1>2 DEF ExpireToken
  <2>2. /\ token' \in [Tokens -> Token \cup {None}]
        /\ \A n \in Tokens : token[n] # None =>
              token'[n] # None /\ token'[n].user = token[n].user
        /\ \A n \in Tokens : token[n] = None => token'[n] = None
    BY <2>1, TokenState
  <2>3. TypeOK'
    BY <1>2, <2>2, Observed DEF ExpireToken, TypeOK, process, Input
  <2>4. RowsStay
    BY <1>2, <2>2 DEF ExpireToken, RowsStay
  <2> QED
    BY <1>2, <2>2, <2>3, <2>4, RequestsWait DEF Orderly, ExpireToken
<1> QED
  BY <1>1, <1>2

-----------------------------------------------------------------------------
(* A step of the system, by what it does.                                  *)

Handling(s) == \/ Change(s) \/ CreateUser(s) \/ ClearRoles(s) \/ AssignRole(s)
               \/ CreateToken(s) \/ LoginToken(s) \/ RevokeToken(s)

LEMMA StepCases ==
    ASSUME Next
    PROVE  \/ \E s \in Slots : Receive(s) \/ Check(s) \/ Handling(s) \/ Stop(s)
           \/ ServerStep \/ ExpireKey \/ ExpireToken
<1>1. \A s \in Slots : RequestStep(s) => Receive(s) \/ Check(s) \/ Handling(s) \/ Stop(s)
  BY DEF RequestStep, Check, Handle, Handling, Change
<1> QED
  BY <1>1 DEF Next

LEMMA NewTokenStep ==
    ASSUME Core, NEW s \in Slots, CreateToken(s) \/ LoginToken(s)
    PROVE  req[s] # None /\ NewToken(s) /\ account[req[s].target] # None
<1>1. req[s] # None /\ NewToken(s)
  BY DEF CreateToken, LoginToken, Act, At
<1>2. req[s].op # "createUser"
  BY <1>1 DEF CreateToken, LoginToken, Act, At, Core, Shape
<1> QED
  BY <1>1, <1>2 DEF Core, References

LEMMA NextOrderly ==
    ASSUME Core, Authority, Next
    PROVE  Orderly
<1>1. ASSUME NEW s \in Slots, Receive(s)
      PROVE  Orderly
  BY <1>1, ReceiveFresh, AcceptOrderly DEF Core
<1>2. ASSUME NEW s \in Slots, Handling(s)
      PROVE  Orderly
  <2>1. CASE CreateToken(s) \/ LoginToken(s)
    BY <2>1, NewTokenStep, NewTokenOrderly DEF Core
  <2> QED
    BY <1>2, <2>1, ChangeOrderly, CreateUserOrderly, ClearRolesOrderly,
       AssignRoleOrderly, RevokeTokenOrderly DEF Handling, Core
<1> QED
  BY <1>1, <1>2, StepCases, CheckOrderly, StopOrderly, ServerOrderly, ExpireOrderly
     DEF Core

LEMMA NextObserves ==
    ASSUME Core, Next
    PROVE  Observe
<1>1. \A s \in Slots : Receive(s) => Observe
  <2>1. \A s \in Slots : \A r : Accept(s, r) => Observe
    BY DEF Accept
  <2>2. \A s \in Slots : ReceiveLogin(s) => Observe
    BY <2>1 DEF ReceiveLogin
  <2>3. ASSUME NEW s \in Slots, NEW t \in Tokens,
               \/ ReceivePlain(s, t) \/ ReceiveLogout(s, t) \/ ReceiveRevokeToken(s, t)
               \/ ReceivePassword(s, t) \/ ReceiveRoles(s, t)
        PROVE  Observe
    BY <2>1, <2>3 DEF ReceivePlain, ReceiveLogout, ReceiveRevokeToken, ReceivePassword,
       ReceiveRoles
  <2>4. ASSUME NEW s \in Slots, Receive(s), ~ReceiveLogin(s)
        PROVE  Observe
    <3>1. PICK t \in Tokens :
             \/ ReceivePlain(s, t) \/ ReceiveLogout(s, t) \/ ReceiveRevokeToken(s, t)
             \/ ReceivePassword(s, t) \/ ReceiveRoles(s, t)
      BY <2>4 DEF Receive
    <3> QED
      BY <2>3, <3>1
  <2> QED
    BY <2>2, <2>4
<1>2. \A s \in Slots : Check(s) \/ Stop(s) => Observe
  <2>1. Idle => Observe
    BY DEF Idle
  <2>2. \A s \in Slots : Check(s) => Idle
    BY DEF Check, ReadToken, ReadUser, ReadRoles, CheckSignature, CheckCredentials
  <2>3. \A s \in Slots : Stop(s) => Idle
    BY DEF Stop
  <2> QED
    BY <2>1, <2>2, <2>3
<1>3. \A s \in Slots : Handling(s) => Observe
  <2>1. \A s \in Slots : Change(s) => Observe
    BY DEF Change, Deactivate, Reactivate, RegisterPublicKey, RevokePublicKey,
           ChangePassword, AdminResetPassword, ForcePasswordChange, Update
  <2>2. \A s \in Slots : CreateUser(s) \/ ClearRoles(s) \/ AssignRole(s) => Observe
    BY DEF CreateUser, ClearRoles, AssignRole
  <2>3. \A s \in Slots : CreateToken(s) \/ LoginToken(s) \/ RevokeToken(s) => Observe
    BY DEF CreateToken, LoginToken, NewToken, RevokeToken
  <2> QED
    BY <2>1, <2>2, <2>3 DEF Handling
<1>4. ServerStep \/ ExpireKey \/ ExpireToken => Observe
  BY DEF ServerStep, StartServer, SeedList, SeedCreate, SeedAssign, Crash,
         ExpireKey, ExpireToken
<1> QED
  BY <1>1, <1>2, <1>3, <1>4, StepCases

(* A request that only waits, or assigns one of several roles.             *)
Still(r, q) == Same(r, q) /\ q.at = r.at /\ q.pending = r.pending /\ q.roles = r.roles

(* How a request may change in a step.                                     *)
Moves(s) == \/ req'[s] = None
            \/ req[s] = None /\ Fresh(req'[s])
            \/ req[s] # None /\ Still(req[s], req'[s])
            \/ Check(s)
            \/ CreateUser(s)
            \/ ClearRoles(s)

LEMMA WaitingMoves ==
    ASSUME NEW z \in Slots, req'[z] = req[z]
    PROVE  Moves(z)
BY DEF Moves, Still, Same

LEMMA AssignRoleMoves ==
    ASSUME TypeOK, NEW s \in Slots, AssignRole(s)
    PROVE  /\ req'[s] = None \/ (req[s] # None /\ Still(req[s], req'[s]))
           /\ \A z \in Slots \ {s} : req'[z] = req[z]
<1>1. req[s] # None
  BY DEF AssignRole, At
<1>2. CASE Done(s)
  BY <1>2, DoneType
<1>3. ASSUME NEW r, req' = [req EXCEPT ![s].want = @ \ {r}]
      PROVE  Still(req[s], req'[s]) /\ \A z \in Slots \ {s} : req'[z] = req[z]
  <2> DEFINE q == [req[s] EXCEPT !.want = @ \ {r}]
  <2>1. req[s] \in Request /\ req \in [Slots -> Request \cup {None}]
    BY <1>1 DEF TypeOK
  <2>2. Still(req[s], q)
    BY <2>1 DEF Request, Still, Same
  <2>3. req' = [req EXCEPT ![s] = q]
    BY <1>3
  <2> QED
    BY <2>1, <2>2, <2>3
<1> QED
  BY <1>1, <1>2, <1>3 DEF AssignRole

LEMMA NextMoves ==
    ASSUME Core, Next
    PROVE  \A z \in Slots : Moves(z)
<1>1. ASSUME NEW s \in Slots, Receive(s), NEW z \in Slots
      PROVE  Moves(z)
  <2>1. PICK r \in Request : Fresh(r) /\ Accept(s, r)
    BY <1>1, ReceiveFresh DEF Core
  <2>2. CASE z = s
    BY <2>1, <2>2 DEF Moves, Accept, Core, TypeOK
  <2>3. CASE z # s
    BY <2>1, <2>3, WaitingMoves DEF Accept, Core, TypeOK
  <2> QED
    BY <2>2, <2>3
<1>2. ASSUME NEW s \in Slots, Check(s), NEW z \in Slots
      PROVE  Moves(z)
  BY <1>2, CheckMoves, WaitingMoves DEF Core, Moves
<1>3. ASSUME NEW s \in Slots, NEW z \in Slots, Done(s)
      PROVE  Moves(z)
  BY <1>3, DoneType, WaitingMoves DEF Core, Moves
<1>4. ASSUME NEW s \in Slots, NEW z \in Slots, Handling(s) \/ Stop(s)
      PROVE  Moves(z)
  <2>1. CASE CreateUser(s) \/ ClearRoles(s)
    <3>1. Goto(s, "assign")
      BY <2>1 DEF CreateUser, ClearRoles
    <3>2. z # s => req'[z] = req[z]
      BY <3>1 DEF Goto, Core, TypeOK
    <3> QED
      BY <2>1, <3>2, WaitingMoves DEF Moves
  <2>2. CASE AssignRole(s)
    BY <2>2, AssignRoleMoves, WaitingMoves DEF Core, Moves
  <2>3. CASE Change(s)
    BY <1>3, <2>3 DEF Change, Deactivate, Reactivate, RegisterPublicKey,
         RevokePublicKey, ChangePassword, AdminResetPassword, ForcePasswordChange, Update
  <2>4. CASE CreateToken(s) \/ LoginToken(s) \/ RevokeToken(s) \/ Stop(s)
    BY <1>3, <2>4 DEF CreateToken, LoginToken, NewToken, RevokeToken, Stop
  <2> QED
    BY <1>4, <2>1, <2>2, <2>3, <2>4 DEF Handling
<1>5. ASSUME ServerStep, NEW z \in Slots
      PROVE  Moves(z)
  <2>1. req'[z] = req[z] \/ req'[z] = None
    BY <1>5 DEF ServerStep, StartServer, SeedList, SeedCreate, SeedAssign, Crash
  <2> QED
    BY <2>1, WaitingMoves DEF Moves
<1>6. ASSUME ExpireKey \/ ExpireToken, NEW z \in Slots
      PROVE  Moves(z)
  BY <1>6, WaitingMoves DEF ExpireKey, ExpireToken
<1> QED
  BY <1>1, <1>2, <1>4, <1>5, <1>6, StepCases

-----------------------------------------------------------------------------
(* References and Shape are kept.                                          *)

LEMMA TokensHaveUsers ==
    ASSUME Core, Authority, Next, NEW t \in Tokens, token[t] = None, token'[t] # None
    PROVE  account[token'[t].user] # None
<1>1. ASSUME NEW s \in Slots, CreateToken(s) \/ LoginToken(s)
      PROVE  account[token'[t].user] # None
  <2>1. token'[t].user = req[s].target
    BY <1>1, NewTokenStep, NewTokenOrderly DEF Core
  <2> QED
    BY <1>1, <2>1, NewTokenStep
<1>2. ASSUME UNCHANGED token
      PROVE  FALSE
  BY <1>2
<1>3. ASSUME NEW s \in Slots, Receive(s)
      PROVE  FALSE
  <2>1. PICK r \in Request : Accept(s, r)
    BY <1>3, ReceiveFresh DEF Core
  <2> QED
    BY <1>2, <2>1 DEF Accept, rows
<1>4. ASSUME NEW s \in Slots, Check(s)
      PROVE  FALSE
  BY <1>2, <1>4, CheckMoves DEF Core, Idle, rows
<1>5. ASSUME NEW s \in Slots, Handling(s) \/ Stop(s)
      PROVE  account[token'[t].user] # None
  <2>1. CASE RevokeToken(s)
    BY <2>1, RevokeTokenOrderly DEF Core
  <2> QED
    BY <1>1, <1>2, <1>5, <2>1 DEF Handling, Change, Deactivate, Reactivate,
       RegisterPublicKey, RevokePublicKey, ChangePassword, AdminResetPassword,
       ForcePasswordChange, Update, CreateUser, ClearRoles, AssignRole, Stop, Idle, rows
<1>6. ASSUME ServerStep
      PROVE  FALSE
  BY <1>2, <1>6 DEF ServerStep, StartServer, SeedList, SeedCreate, SeedAssign,
     Crash, rows
<1>7. ASSUME ExpireKey \/ ExpireToken
      PROVE  FALSE
  BY <1>7, ExpireOrderly DEF Core
<1> QED
  BY <1>3, <1>4, <1>5, <1>6, <1>7, StepCases

(* Who becomes an administrator.                                           *)
LEMMA AdminsGrow ==
    ASSUME Core, Next
    PROVE  \/ UNCHANGED admins
           \/ \E s \in Slots, r \in Roles :
                 AssignRole(s) /\ Grant(req[s].target, r, req[s].user)
           \/ SeedAssign
<1>1. ASSUME NEW s \in Slots, Receive(s)
      PROVE  UNCHANGED admins
  <2>1. PICK r \in Request : Accept(s, r)
    BY <1>1, ReceiveFresh DEF Core
  <2> QED
    BY <2>1 DEF Accept, rows
<1>2. ASSUME NEW s \in Slots, Check(s) \/ Stop(s)
      PROVE  UNCHANGED admins
  BY <1>2, CheckMoves DEF Core, Idle, rows, Stop
<1>3. ASSUME NEW s \in Slots, AssignRole(s)
      PROVE  \E r \in Roles : Grant(req[s].target, r, req[s].user)
  <2>1. req[s] # None
    BY <1>3 DEF AssignRole, At
  <2>2. req[s].want \subseteq Roles
    BY <2>1, RequestType DEF Core
  <2> QED
    BY <1>3, <2>2 DEF AssignRole, Target
<1>4. ASSUME NEW s \in Slots, Handling(s), ~AssignRole(s)
      PROVE  UNCHANGED admins
  BY <1>4 DEF Handling, Change, Deactivate, Reactivate, RegisterPublicKey,
         RevokePublicKey, ChangePassword, AdminResetPassword, ForcePasswordChange,
         Update, CreateUser, ClearRoles, CreateToken, LoginToken, NewToken, RevokeToken
<1>5. ASSUME ServerStep, ~SeedAssign
      PROVE  UNCHANGED admins
  BY <1>5 DEF ServerStep, StartServer, SeedList, SeedCreate, Crash, rows
<1>6. ASSUME ExpireKey \/ ExpireToken
      PROVE  UNCHANGED admins
  BY <1>6 DEF ExpireKey, ExpireToken
<1> QED
  BY <1>1, <1>2, <1>3, <1>4, <1>5, <1>6, StepCases

LEMMA AdminsHaveAccounts ==
    ASSUME Core, Authority, Next, NEW u \in admins'
    PROVE  account[u] # None
<1>0. u \in admins => account[u] # None
  BY DEF Core, References
<1>1. ASSUME NEW s \in Slots, NEW r \in Roles, AssignRole(s),
             Grant(req[s].target, r, req[s].user)
      PROVE  account[u] # None
  <2>1. account[req[s].target] # None
    BY <1>1 DEF AssignRole, At, Core, Shape
  <2> QED
    BY <1>0, <1>1, <2>1 DEF Grant
<1>2. CASE SeedAssign
  BY <1>0, <1>2 DEF SeedAssign, Grant, Authority, Named
<1> QED
  BY <1>0, <1>1, <1>2, AdminsGrow

(* A request keeps its identity through every kind of move.                *)
LEMMA ReferencesKept ==
    ASSUME Core, Authority, Next
    PROVE  References'
<1>1. RowsStay /\ RequestsFollow
  BY NextOrderly DEF Orderly
<1>2. TypeOK /\ TypeOK' /\ References
  BY NextOrderly DEF Orderly, Core
<1>3. ASSUME NEW t \in Tokens, token'[t] # None
      PROVE  account'[token'[t].user] # None
  <2>1. account[token'[t].user] # None
    BY <1>1, <1>2, <1>3, TokensHaveUsers DEF RowsStay, References
  <2>2. token'[t].user \in Users
    BY <1>2, <1>3 DEF TypeOK, Token
  <2> QED
    BY <1>1, <2>1, <2>2 DEF RowsStay
<1>4. ASSUME NEW u \in admins'
      PROVE  account'[u] # None
  BY <1>1, <1>2, <1>4, AdminsHaveAccounts DEF RowsStay, TypeOK
<1>5. ASSUME NEW s \in Slots, req'[s] # None
      PROVE  /\ account'[req'[s].user] # None
             /\ req'[s].op # "login" => /\ req'[s].token \in Tokens
                                        /\ token'[req'[s].token] # None
                                        /\ token'[req'[s].token].user = req'[s].user
                                        /\ req'[s].named \in Tokens
                                        /\ token'[req'[s].named] # None
             /\ req'[s].op = "login" => req'[s].target = req'[s].user
             /\ req'[s].op # "createUser" => account'[req'[s].target] # None
  <2>1. req'[s].user \in Users /\ req'[s].target \in Users
    BY <1>2, <1>5 DEF TypeOK, Request
  <2>2. CASE req[s] # None /\ Same(req[s], req'[s])
    BY <1>1, <1>2, <2>1, <2>2 DEF RowsStay, References, Same
  <2>3. CASE Fresh(req'[s])
    BY <1>1, <2>1, <2>3 DEF RowsStay, Fresh
  <2> QED
    BY <1>1, <1>5, <2>2, <2>3 DEF RequestsFollow
<1> QED
  BY <1>3, <1>4, <1>5 DEF References

LEMMA ShapeKept ==
    ASSUME Core, Authority, Next
    PROVE  Shape'
<1>1. SUFFICES ASSUME NEW s \in Slots, req'[s] # None
      PROVE  /\ req'[s].op = "login" <=> req'[s].at \in {"login.user", "login.insert"}
             /\ req'[s].at = "assign" => /\ req'[s].op \in {"createUser", "updateRoles"}
                                         /\ account'[req'[s].target] # None
  BY DEF Shape
<1>2. TypeOK /\ TypeOK' /\ References /\ Shape /\ RowsStay
  BY NextOrderly DEF Orderly, Core
<1>3. CASE req[s] = None /\ Fresh(req'[s])
  BY <1>3 DEF Fresh
<1>4. CASE req[s] # None /\ Still(req[s], req'[s])
  <2>1. req[s].target \in Users
    BY <1>2, <1>4, RequestType
  <2> QED
    BY <1>2, <1>4, <2>1 DEF Shape, Still, Same, RowsStay
<1>5. CASE Check(s)
  <2>1. req[s] # None /\ req[s] \in Request /\ Same(req[s], req'[s])
    BY <1>2, <1>5, CheckMoves, RequestType
  <2>2. \/ /\ req[s].at \in {"auth.token", "auth.user", "auth.roles", "signature"}
           /\ req'[s].at \in {"auth.user", "auth.roles", "signature", "act"}
        \/ req[s].at = "login.user" /\ req'[s].at = "login.insert"
    <3>1. ASSUME NEW l \in Labels, Goto(s, l)
          PROVE  req'[s].at = l
      <4>1. req'[s] = [req[s] EXCEPT !.at = l]
        BY <1>2, <2>1, <3>1, GotoType
      <4> QED
        BY <2>1, <4>1 DEF Request
    <3>2. {"auth.user", "act", "login.insert"} \subseteq Labels
      BY DEF Labels
    <3>3. CASE ReadToken(s) \/ CheckSignature(s) \/ CheckCredentials(s)
      BY <3>1, <3>2, <3>3 DEF ReadToken, CheckSignature, CheckCredentials, At
    <3>4. CASE ReadUser(s)
      BY <1>2, <2>1, <3>4 DEF ReadUser, At, TypeOK, Request
    <3>5. CASE ReadRoles(s)
      BY <1>2, <2>1, <3>5 DEF ReadRoles, At, TypeOK, Request
    <3> QED
      BY <1>5, <3>3, <3>4, <3>5 DEF Check
  <2> QED
    BY <1>2, <2>1, <2>2 DEF Shape, Same
<1>6. CASE CreateUser(s) \/ ClearRoles(s)
  <2>1. /\ req[s] # None
        /\ req[s].op = IF CreateUser(s) THEN "createUser" ELSE "updateRoles"
        /\ Goto(s, "assign")
    BY <1>6 DEF CreateUser, ClearRoles, Act, At
  <2>2. /\ req'[s] = [req[s] EXCEPT !.at = "assign"]
        /\ req[s] \in Request /\ req[s].target \in Users
    BY <1>2, <2>1, GotoType, RequestType DEF Labels
  <2>3. req'[s].op = req[s].op /\ req'[s].at = "assign" /\ req'[s].target = req[s].target
    BY <2>2 DEF Request
  <2>4. account'[req[s].target] # None
    <3>1. CASE CreateUser(s)
      <4>1. NewAccount(req[s].password) \in Account
        BY <1>2, <2>1, RequestType DEF NewAccount, Account
      <4> QED
        BY <1>2, <2>2, <3>1, <4>1, NoneAssumption DEF CreateUser, Insert, Target, TypeOK
    <3>2. CASE ~CreateUser(s)
      BY <1>2, <2>1, <2>2, <3>2 DEF References, RowsStay
    <3> QED
      BY <3>1, <3>2
  <2> QED
    BY <2>1, <2>3, <2>4
<1> QED
  BY <1>1, <1>3, <1>4, <1>5, <1>6, NextMoves DEF Moves

LEMMA CoreKept ==
    ASSUME Core, Authority, Next
    PROVE  Core'
BY NextOrderly, ReferencesKept, ShapeKept DEF Core, Orderly

-----------------------------------------------------------------------------
(* What requests know.                                                     *)

(* A request keeps what it has seen, and has seen all that holds now.      *)
LEMMA MetGrows ==
    ASSUME Core, Sees, Authority, Next, NEW s \in Slots, req[s] # None, req'[s] # None
    PROVE  /\ met[s] \subseteq met'[s]
           /\ Holding(req[s]) \subseteq met[s]
           /\ met'[s] = met[s] \cup Holding(req[s])'
<1>1. met'[s] = met[s] \cup HoldingFor(s)'
  BY Observed, NextObserves DEF Core
<1> QED
  BY <1>1 DEF Sees, HoldingFor

LEMMA CheckKnows ==
    ASSUME Core, Sees, Knowledge, Authority, NEW s \in Slots, Check(s),
           req[s] # None, req'[s] # None, met[s] \subseteq met'[s]
    PROVE  Knows(s)'
<1>1. /\ req[s] \in Request /\ req[s].user \in Users /\ Knows(s)
      /\ Holding(req[s]) \subseteq met[s]
      /\ req \in [Slots -> Request \cup {None}]
  BY RequestType DEF Core, Knowledge, Sees, HoldingFor, TypeOK
<1>2. CASE ReadToken(s)
  <2>1. req'[s] = [req[s] EXCEPT !.at = "auth.user"] /\ req[s].at = "auth.token"
    BY <1>1, <1>2 DEF ReadToken, Goto, At
  <2>2. req[s].op # "login"
    BY <1>1, <2>1 DEF Core, Shape
  <2>3. req[s].token # None /\ token[req[s].token].state = "live"
    BY <1>2, <2>2, NoneAssumption DEF ReadToken, Core, References
  <2>4. "token" \in Holding(req[s])
    BY <2>3 DEF Holding, Conditions
  <2>5. req'[s].at = "auth.user"
    BY <1>1, <2>1 DEF Request
  <2> QED
    BY <1>1, <2>4, <2>5 DEF Knows, Authenticated
<1>3. CASE ReadUser(s)
  <2>1. /\ req'[s] = [req[s] EXCEPT !.at = "auth.roles",
                                    !.pending = SetupPending(account[req[s].user])]
        /\ req[s].at = "auth.user" /\ account[req[s].user].active
    BY <1>1, <1>3 DEF ReadUser, At
  <2>2. "active" \in Holding(req[s])
    BY <2>1 DEF Holding, Conditions
  <2>3. ~SetupPending(account[req[s].user]) => "setup" \in Holding(req[s])
    BY DEF Holding, Conditions
  <2>4. "token" \in met[s]
    BY <1>1, <2>1 DEF Knows
  <2>5. /\ req'[s].at = "auth.roles"
        /\ req'[s].pending = SetupPending(account[req[s].user])
    BY <1>1, <2>1 DEF Request
  <2> QED
    BY <1>1, <2>2, <2>3, <2>4, <2>5 DEF Knows, Authenticated
<1>4. CASE ReadRoles(s)
  <2>1. PICK next \in {"act", "signature"} :
           /\ req' = [req EXCEPT ![s].at = next, ![s].roles = RolesOf(req[s].user)]
           /\ next = "act" => Permitted(req[s], RolesOf(req[s].user))
    BY <1>4 DEF ReadRoles
  <2>2. /\ req[s].at = "auth.roles"
        /\ req[s].pending => SetupStep(req[s])
    BY <1>4 DEF ReadRoles, At
  <2>3. req'[s] = [req[s] EXCEPT !.at = next, !.roles = RolesOf(req[s].user)]
    BY <1>1, <2>1
  <2>4. /\ req'[s].at = next /\ req'[s].roles = RolesOf(req[s].user)
        /\ Same(req[s], req'[s])
    BY <1>1, <2>3 DEF Request, Same
  <2>5. "setup" \in met[s]
    <3>1. SetupStep(req[s]) => "setup" \in Holding(req[s])
      BY DEF Holding, Conditions
    <3> QED
      BY <1>1, <2>2, <3>1 DEF Knows
  <2>6. Permitted(req[s], RolesOf(req[s].user)) => "role" \in met[s]
    BY <1>1 DEF Holding, Conditions
  <2>7. Permitted(req'[s], req'[s].roles) => Permitted(req[s], RolesOf(req[s].user))
    BY <2>4 DEF Permitted, Same
  <2>8. {"token", "active"} \subseteq met[s]
    BY <1>1, <2>2 DEF Knows, Authenticated
  <2> QED
    BY <2>1, <2>4, <2>5, <2>6, <2>7, <2>8 DEF Knows, Authenticated
<1>5. CASE CheckSignature(s)
  <2>1. /\ req'[s] = [req[s] EXCEPT !.at = "act"] /\ req[s].at = "signature"
        /\ Permitted(req[s], req[s].roles)
    BY <1>1, <1>5 DEF CheckSignature, Goto, At
  <2>2. {"token", "active", "setup", "role"} \subseteq met[s]
    BY <1>1, <2>1 DEF Knows, Authenticated
  <2>3. req'[s].at = "act"
    BY <1>1, <2>1 DEF Request
  <2> QED
    BY <2>2, <2>3 DEF Knows, Authenticated
<1>6. CASE CheckCredentials(s)
  <2>1. req'[s] = [req[s] EXCEPT !.at = "login.insert"]
    BY <1>1, <1>6 DEF CheckCredentials, Goto
  <2>2. {"active", "password"} \subseteq Holding(req[s])
    BY <1>6 DEF CheckCredentials, Holding, Conditions
  <2>3. req'[s].at = "login.insert"
    BY <1>1, <2>1 DEF Request
  <2> QED
    BY <1>1, <2>2, <2>3 DEF Knows, Authenticated
<1> QED
  BY <1>2, <1>3, <1>4, <1>5, <1>6 DEF Check

LEMMA KnowledgeKept ==
    ASSUME Core, Sees, Knowledge, Authority, Next
    PROVE  Knowledge'
<1>1. SUFFICES ASSUME NEW s \in Slots, req'[s] # None
      PROVE  Knows(s)'
  BY DEF Knowledge
<1>2. req[s] # None => Knows(s) /\ met[s] \subseteq met'[s]
  BY <1>1, MetGrows DEF Knowledge
<1>3. CASE req[s] = None /\ Fresh(req'[s])
  <2>1. req'[s].at \in {"auth.token", "login.user"}
    BY <1>3 DEF Fresh
  <2> QED
    BY <2>1 DEF Knows, Authenticated
<1>4. CASE req[s] # None /\ Still(req[s], req'[s])
  <2>1. Permitted(req'[s], req'[s].roles) => Permitted(req[s], req[s].roles)
    BY <1>4 DEF Permitted, Still, Same
  <2> QED
    BY <1>2, <1>4, <2>1 DEF Knows, Authenticated, Still
<1>5. CASE Check(s)
  BY <1>1, <1>2, <1>5, CheckKnows, CheckMoves DEF Core
<1>6. CASE CreateUser(s) \/ ClearRoles(s)
  <2>1. req[s] # None /\ req[s].at = "act" /\ Goto(s, "assign")
    BY <1>6 DEF CreateUser, ClearRoles, Act, At
  <2>2. req'[s].at = "assign"
    <3>1. req'[s] = [req[s] EXCEPT !.at = "assign"] /\ req[s] \in Request
      BY <2>1, GotoType, RequestType DEF Core, Labels
    <3> QED
      BY <3>1 DEF Request
  <2> QED
    BY <1>2, <2>1, <2>2 DEF Knows, Authenticated
<1> QED
  BY <1>1, <1>3, <1>4, <1>5, <1>6, NextMoves DEF Moves

-----------------------------------------------------------------------------
(* The set-up.                                                             *)

(* What an account's flags say of its user.                                *)
Honest(a, done) == /\ ~a.must => "password" \in done
                   /\ a.key # "none" => "key" \in done

LEMMA NewAccountHonest ==
    ASSUME TypeOK, NEW u \in Users, NEW p \in Passwords, Insert(u, p),
           UNCHANGED completed,
           \A v \in Users : account[v] # None => Honest(account[v], completed[v])
    PROVE  \A v \in Users : account'[v] # None => Honest(account'[v], completed'[v])
<1>1. account' = [account EXCEPT ![u] = NewAccount(p)]
  BY DEF Insert
<1>2. Honest(NewAccount(p), completed[u])
  BY DEF Honest, NewAccount
<1> QED
  BY <1>1, <1>2 DEF TypeOK

LEMMA UpdateHonest ==
    ASSUME TypeOK, NEW u \in Users, NEW a, Honest(a, completed'[u]),
           account' = [account EXCEPT ![u] = a], RowsStay,
           \A v \in Users : account[v] # None => Honest(account[v], completed[v])
    PROVE  \A v \in Users : account'[v] # None => Honest(account'[v], completed'[v])
BY DEF TypeOK, RowsStay, Honest

LEMMA ChangeHonest ==
    ASSUME TypeOK, References, NEW s \in Slots, Change(s), RowsStay,
           \A v \in Users : account[v] # None => Honest(account[v], completed[v])
    PROVE  \A v \in Users : account'[v] # None => Honest(account'[v], completed'[v])
<1> DEFINE u == req[s].target
           a == account[u]
<1>1. req[s] # None /\ req[s].op # "createUser"
  BY DEF Change, Deactivate, Reactivate, RegisterPublicKey, RevokePublicKey,
         ChangePassword, AdminResetPassword, ForcePasswordChange, Update, Act, At
<1>2. u \in Users /\ a \in Account /\ Honest(a, completed[u])
  BY <1>1, RequestType, AccountType DEF References
<1>3. Honest(a, completed'[u])
  BY <1>2 DEF Honest, RowsStay
<1>4. CASE Deactivate(s) \/ Reactivate(s)
  <2>1. PICK b \in BOOLEAN : account' = [account EXCEPT ![u] = [a EXCEPT !.active = b]]
    BY <1>4 DEF Deactivate, Reactivate, Update, Target
  <2>2. Honest([a EXCEPT !.active = b], completed'[u])
    BY <1>2, <1>3 DEF Account, Honest
  <2> QED
    BY <1>2, <2>1, <2>2, UpdateHonest
<1>5. CASE RegisterPublicKey(s)
  <2>1. account' = [account EXCEPT ![u] = [a EXCEPT !.key = "valid"]]
    BY <1>5 DEF RegisterPublicKey, Update, Target
  <2>2. "key" \in completed'[u]
    BY <1>2, <1>5 DEF RegisterPublicKey, Take, Target, TypeOK
  <2>3. Honest([a EXCEPT !.key = "valid"], completed'[u])
    BY <1>2, <1>3, <2>2 DEF Account, Honest
  <2> QED
    BY <1>2, <2>1, <2>3, UpdateHonest
<1>6. CASE RevokePublicKey(s)
  <2>1. account' = [account EXCEPT ![u] = [a EXCEPT !.key = "none"]]
    BY <1>6 DEF RevokePublicKey, Update, Target
  <2>2. Honest([a EXCEPT !.key = "none"], completed'[u])
    BY <1>2, <1>3 DEF Account, Honest
  <2> QED
    BY <1>2, <2>1, <2>2, UpdateHonest
<1>7. CASE ChangePassword(s)
  <2>1. account' = [account EXCEPT ![u] = [a EXCEPT !.password = req[s].password, !.must = FALSE]]
    BY <1>7 DEF ChangePassword, Update, Target
  <2>2. "password" \in completed'[u]
    BY <1>2, <1>7 DEF ChangePassword, Take, Target, TypeOK
  <2>3. Honest([a EXCEPT !.password = req[s].password, !.must = FALSE], completed'[u])
    BY <1>2, <1>3, <2>2 DEF Account, Honest
  <2> QED
    BY <1>2, <2>1, <2>3, UpdateHonest
<1>8. CASE AdminResetPassword(s)
  <2>1. account' = [account EXCEPT ![u] = [a EXCEPT !.password = req[s].password, !.must = TRUE]]
    BY <1>8 DEF AdminResetPassword, Update, Target
  <2>2. Honest([a EXCEPT !.password = req[s].password, !.must = TRUE], completed'[u])
    BY <1>2, <1>3 DEF Account, Honest
  <2> QED
    BY <1>2, <2>1, <2>2, UpdateHonest
<1>9. CASE ForcePasswordChange(s)
  <2>1. account' = [account EXCEPT ![u] = [a EXCEPT !.must = TRUE]]
    BY <1>9 DEF ForcePasswordChange, Update, Target
  <2>2. Honest([a EXCEPT !.must = TRUE], completed'[u])
    BY <1>2, <1>3 DEF Account, Honest
  <2> QED
    BY <1>2, <2>1, <2>2, UpdateHonest
<1> QED
  BY <1>4, <1>5, <1>6, <1>7, <1>8, <1>9 DEF Change

(* Only these steps change a row of users.                                 *)
LEMMA AccountsChange ==
    ASSUME Core, Authority, Next
    PROVE  \/ UNCHANGED account
           \/ \E s \in Slots : Change(s) \/ CreateUser(s)
           \/ SeedCreate
           \/ ExpireKey
<1>1. ASSUME NEW s \in Slots, Receive(s)
      PROVE  UNCHANGED account
  <2>1. PICK r \in Request : Accept(s, r)
    BY <1>1, ReceiveFresh DEF Core
  <2> QED
    BY <2>1 DEF Accept, rows
<1>2. ASSUME NEW s \in Slots, Check(s) \/ Stop(s)
      PROVE  UNCHANGED account
  BY <1>2, CheckMoves DEF Core, Idle, rows, Stop
<1>3. ASSUME NEW s \in Slots, Handling(s)
      PROVE  UNCHANGED account \/ Change(s) \/ CreateUser(s)
  BY <1>3 DEF Handling, ClearRoles, AssignRole, CreateToken, LoginToken, NewToken,
         RevokeToken
<1>4. ASSUME ServerStep, ~SeedCreate
      PROVE  UNCHANGED account
  BY <1>4 DEF ServerStep, StartServer, SeedList, SeedAssign, Crash, rows
<1>5. ExpireToken => UNCHANGED account
  BY DEF ExpireToken
<1> QED
  BY <1>1, <1>2, <1>3, <1>4, <1>5, StepCases

LEMMA AccountsHonest ==
    ASSUME Core, Settled, Authority, Next
    PROVE  \A u \in Users : account'[u] # None => Honest(account'[u], completed'[u])
<1>1. TypeOK /\ References /\ RowsStay
  BY NextOrderly DEF Orderly, Core
<1>2. \A v \in Users : account[v] # None => Honest(account[v], completed[v])
  BY DEF Settled, Honest
<1>3. CASE UNCHANGED account
  BY <1>1, <1>2, <1>3 DEF RowsStay, Honest
<1>4. ASSUME NEW s \in Slots, Change(s)
      PROVE  \A u \in Users : account'[u] # None => Honest(account'[u], completed'[u])
  BY <1>1, <1>2, <1>4, ChangeHonest
<1>5. ASSUME NEW s \in Slots, CreateUser(s)
      PROVE  \A u \in Users : account'[u] # None => Honest(account'[u], completed'[u])
  <2>1. /\ req[s].target \in Users /\ req[s].password \in Passwords
        /\ Insert(req[s].target, req[s].password) /\ UNCHANGED completed
    BY <1>1, <1>5, RequestType DEF CreateUser, Act, At, Target
  <2> QED
    BY <1>1, <1>2, <2>1, NewAccountHonest
<1>6. CASE SeedCreate
  BY <1>1, <1>2, <1>6, NewAccountHonest DEF SeedCreate
<1>7. CASE ExpireKey
  <2>1. PICK u \in Users : /\ account[u] # None /\ account[u].key = "valid"
                           /\ account' = [account EXCEPT ![u] = [account[u] EXCEPT !.key = "expired"]]
    BY <1>7 DEF ExpireKey, Named
  <2>2. Honest([account[u] EXCEPT !.key = "expired"], completed'[u])
    BY <1>1, <1>2, <2>1, AccountType DEF Account, Honest, RowsStay
  <2> QED
    BY <1>1, <1>2, <2>1, <2>2, UpdateHonest
<1> QED
  BY <1>3, <1>4, <1>5, <1>6, <1>7, AccountsChange

(* Whoever has no set-up pending has done both of its steps.               *)
LEMMA SetupDone ==
    ASSUME NEW done, done \subseteq {"password", "key"},
           NEW a, Honest(a, done), a.must \in BOOLEAN, ~SetupPending(a)
    PROVE  done = {"password", "key"}
BY DEF Honest, SetupPending

LEMMA SettledKept ==
    ASSUME Core, Sees, Settled, Authority, Next
    PROVE  Settled'
<1>1. TypeOK' /\ References' /\ RowsStay
  BY NextOrderly, CoreKept DEF Orderly, Core
<1>2. \A u \in Users : account'[u] # None => Honest(account'[u], completed'[u])
  BY AccountsHonest
<1>3. ASSUME NEW s \in Slots, req'[s] # None, ~SetupStep(req'[s]), "setup" \in met'[s]
      PROVE  completed'[req'[s].user] = {"password", "key"}
  <2>1. /\ req'[s].user \in Users
        /\ account'[req'[s].user] \in Account
        /\ completed'[req'[s].user] \subseteq {"password", "key"}
    BY <1>1, <1>3 DEF TypeOK, Request, References
  <2>2. CASE "setup" \in Holding(req[s])'
    <3>1. ~SetupPending(account'[req'[s].user])
      BY <1>3, <2>2 DEF Holding
    <3>2. account'[req'[s].user].must \in BOOLEAN
      BY <2>1 DEF Account
    <3>3. Honest(account'[req'[s].user], completed'[req'[s].user])
      BY <1>1, <1>2, <1>3, <2>1 DEF References
    <3> QED
      BY <2>1, <3>1, <3>2, <3>3, SetupDone
  <2>3. CASE req[s] # None /\ Same(req[s], req'[s]) /\ "setup" \in met[s]
    <3>1. ~SetupStep(req[s]) /\ req[s].user = req'[s].user
      BY <1>3, <2>3 DEF SetupStep, Same
    <3>2. completed[req[s].user] = {"password", "key"}
      BY <2>3, <3>1 DEF Settled
    <3> QED
      BY <1>1, <2>1, <3>1, <3>2 DEF RowsStay
  <2>4. \/ req[s] = None /\ Fresh(req'[s])
        \/ req[s] # None /\ Same(req[s], req'[s])
    BY <1>3, NextOrderly DEF Orderly, RequestsFollow
  <2>5. req[s] = None => met'[s] = Holding(req[s])'
    BY <1>3, Observed, NextObserves DEF Core, HoldingFor
  <2>6. req[s] # None => met'[s] = met[s] \cup Holding(req[s])'
    BY <1>3, MetGrows
  <2> QED
    BY <1>3, <2>2, <2>3, <2>4, <2>5, <2>6
<1> QED
  BY <1>2, <1>3 DEF Settled, Honest

-----------------------------------------------------------------------------
(* Who is an administrator, and the first one.                             *)

(* Only these steps change the roles of users, or who has been one.        *)
LEMMA RolesChange ==
    ASSUME Core, Next
    PROVE  \/ UNCHANGED <<roles, admins>>
           \/ \E s \in Slots : ClearRoles(s)
           \/ \E s \in Slots : AssignRole(s)
           \/ SeedAssign
<1>1. ASSUME NEW s \in Slots, Receive(s)
      PROVE  UNCHANGED <<roles, admins>>
  <2>1. PICK r \in Request : Accept(s, r)
    BY <1>1, ReceiveFresh DEF Core
  <2> QED
    BY <2>1 DEF Accept, rows
<1>2. ASSUME NEW s \in Slots, Check(s) \/ Stop(s)
      PROVE  UNCHANGED <<roles, admins>>
  BY <1>2, CheckMoves DEF Core, Idle, rows, Stop
<1>3. ASSUME NEW s \in Slots, Handling(s)
      PROVE  UNCHANGED <<roles, admins>> \/ ClearRoles(s) \/ AssignRole(s)
  BY <1>3 DEF Handling, Change, Deactivate, Reactivate, RegisterPublicKey,
         RevokePublicKey, ChangePassword, AdminResetPassword, ForcePasswordChange,
         Update, CreateUser, CreateToken, LoginToken, NewToken, RevokeToken
<1>4. ASSUME ServerStep, ~SeedAssign
      PROVE  UNCHANGED <<roles, admins>>
  BY <1>4 DEF ServerStep, StartServer, SeedList, SeedCreate, Crash, rows
<1>5. ExpireKey \/ ExpireToken => UNCHANGED <<roles, admins>>
  BY DEF ExpireKey, ExpireToken
<1> QED
  BY <1>1, <1>2, <1>3, <1>4, <1>5, StepCases

(* The step that assigns a role is a former administrator's.               *)
LEMMA AssignRoleAuthority ==
    ASSUME Core, Knowledge, Authority, NEW s \in Slots, AssignRole(s)
    PROVE  /\ req[s].user \in admins
           /\ req[s].target \in Users /\ req[s].user \in Users
           /\ \E r \in Roles : Grant(req[s].target, r, req[s].user)
<1>1. req[s] # None /\ req[s].at = "assign"
  BY DEF AssignRole, At
<1>2. req[s].want \subseteq Roles /\ req[s].target \in Users /\ req[s].user \in Users
  BY <1>1, RequestType DEF Core
<1>3. req[s].op \in AdminOnly
  BY <1>1 DEF Core, Shape, AdminOnly
<1>4. "role" \in met[s]
  BY <1>1 DEF Knowledge, Knows
<1>5. \E r \in Roles : Grant(req[s].target, r, req[s].user)
  BY <1>2 DEF AssignRole, Target
<1> QED
  BY <1>1, <1>2, <1>3, <1>4, <1>5 DEF Authority

LEMMA CreateUserAuthority ==
    ASSUME Core, Knowledge, Authority, NEW s \in Slots, CreateUser(s)
    PROVE  req[s].user \in admins /\ req[s].user \in Named
<1>1. req[s] # None /\ req[s].at = "act" /\ req[s].op = "createUser"
  BY DEF CreateUser, Act, At
<1>2. "role" \in met[s]
  BY <1>1 DEF Knowledge, Knows
<1>3. req[s].user \in admins
  BY <1>1, <1>2 DEF Authority, AdminOnly
<1> QED
  BY <1>1, <1>3, RequestType DEF Core, References, Named

(* Rows of users appear with CreateUser and with the first user.           *)
LEMMA NamedGrows ==
    ASSUME Core, Authority, Next
    PROVE  \/ Named' = Named
           \/ \E s \in Slots : CreateUser(s)
           \/ SeedCreate
<1>1. TypeOK /\ References /\ RowsStay
  BY NextOrderly DEF Orderly, Core
<1>2. CASE UNCHANGED account
  BY <1>2 DEF Named
<1>3. ASSUME NEW u \in Users, NEW a, account[u] # None, account' = [account EXCEPT ![u] = a]
      PROVE  Named' = Named
  BY <1>1, <1>3 DEF Named, RowsStay, TypeOK
<1>4. ASSUME NEW s \in Slots, Change(s)
      PROVE  Named' = Named
  <2>1. req[s] # None /\ req[s].op # "createUser"
    BY <1>4 DEF Change, Deactivate, Reactivate, RegisterPublicKey, RevokePublicKey,
           ChangePassword, AdminResetPassword, ForcePasswordChange, Update, Act, At
  <2>2. req[s].target \in Users /\ account[req[s].target] # None
    BY <1>1, <2>1, RequestType DEF References
  <2>3. \E a : account' = [account EXCEPT ![req[s].target] = a]
    BY <1>4 DEF Change, Deactivate, Reactivate, RegisterPublicKey, RevokePublicKey,
           ChangePassword, AdminResetPassword, ForcePasswordChange, Update, Target
  <2> QED
    BY <1>3, <2>2, <2>3
<1>5. ExpireKey => Named' = Named
  BY <1>3 DEF ExpireKey, Named
<1> QED
  BY <1>2, <1>4, <1>5, AccountsChange

(* How far the start-up has come changes only with its own steps.          *)
LEMMA ServerChanges ==
    ASSUME Core, Next
    PROVE  \/ UNCHANGED <<server, founder>>
           \/ SeedList /\ UNCHANGED rows
           \/ SeedCreate
           \/ server' \in {"down", "seed.list", "up"}
<1>1. ASSUME NEW s \in Slots, Receive(s)
      PROVE  UNCHANGED <<server, founder>>
  <2>1. PICK r \in Request : Accept(s, r)
    BY <1>1, ReceiveFresh DEF Core
  <2> QED
    BY <2>1 DEF Accept, process
<1>2. ASSUME NEW s \in Slots, Check(s) \/ Stop(s)
      PROVE  UNCHANGED <<server, founder>>
  BY <1>2, CheckMoves DEF Core, Idle, process, Stop
<1>3. ASSUME NEW s \in Slots, Handling(s)
      PROVE  UNCHANGED <<server, founder>>
  BY <1>3 DEF Handling, Change, Deactivate, Reactivate, RegisterPublicKey,
         RevokePublicKey, ChangePassword, AdminResetPassword, ForcePasswordChange,
         Update, CreateUser, ClearRoles, AssignRole, CreateToken, LoginToken,
         NewToken, RevokeToken, process
<1>4. ServerStep => \/ SeedList /\ UNCHANGED rows
                    \/ SeedCreate
                    \/ server' \in {"down", "seed.list", "up"}
  BY DEF ServerStep, StartServer, SeedList, SeedAssign, Crash
<1>5. ExpireKey \/ ExpireToken => UNCHANGED <<server, founder>>
  BY DEF ExpireKey, ExpireToken, process
<1> QED
  BY <1>1, <1>2, <1>3, <1>4, <1>5, StepCases

LEMMA AdminsKnown ==
    ASSUME Core, Knowledge, Authority, Next, NEW u \in Users, "ADMIN" \in RolesOf(u)'
    PROVE  u \in admins'
<1>1. TypeOK /\ RowsStay /\ ("ADMIN" \in RolesOf(u) => u \in admins)
  BY NextOrderly DEF Orderly, Core, Authority
<1>2. CASE UNCHANGED <<roles, admins>>
  BY <1>1, <1>2 DEF RolesOf
<1>3. ASSUME NEW s \in Slots, ClearRoles(s)
      PROVE  u \in admins'
  <2>1. \A r \in Roles : roles'[u][r] # None => roles[u][r] # None
    BY <1>1, <1>3 DEF ClearRoles, TypeOK
  <2> QED
    BY <1>1, <1>3, <2>1 DEF RolesOf, ClearRoles
<1>4. ASSUME NEW v \in Users, NEW r \in Roles, NEW by \in Users, Grant(v, r, by)
      PROVE  u \in admins'
  <2>1. roles'[u]["ADMIN"] # None => roles[u]["ADMIN"] # None \/ (u = v /\ r = "ADMIN")
    <3>1. "ADMIN" \in Roles
      BY DEF Roles
    <3>2. roles'[u]["ADMIN"] = IF u = v /\ "ADMIN" = r THEN by ELSE roles[u]["ADMIN"]
      BY <1>1, <1>4, <3>1, GrantTypes
    <3> QED
      BY <3>2
  <2> QED
    BY <1>1, <1>4, <2>1 DEF RolesOf, Grant
<1>5. ASSUME NEW s \in Slots, AssignRole(s)
      PROVE  u \in admins'
  BY <1>4, <1>5, AssignRoleAuthority
<1>6. CASE SeedAssign
  <2>1. founder \in Users /\ "ADMIN" \in Roles /\ Grant(founder, "ADMIN", founder)
    BY <1>6 DEF SeedAssign, Authority, Roles
  <2> QED
    BY <1>4, <2>1
<1> QED
  BY <1>2, <1>3, <1>5, <1>6, RolesChange

LEMMA AuthorityKept ==
    ASSUME Core, Sees, Knowledge, Authority, Next
    PROVE  Authority'
<1>1. TypeOK /\ TypeOK' /\ References /\ RowsStay
  BY NextOrderly DEF Orderly, Core
<1>2. \A u \in Users : "ADMIN" \in RolesOf(u)' => u \in admins'
  BY AdminsKnown
<1>3. ASSUME NEW s \in Slots, req'[s] # None, req'[s].op \in AdminOnly, "role" \in met'[s]
      PROVE  req'[s].user \in admins'
  <2>1. req'[s].user \in Users
    BY <1>1, <1>3 DEF TypeOK, Request
  <2>2. CASE "role" \in Holding(req[s])'
    <3>1. Permitted(req'[s], RolesOf(req[s].user)')
      BY <1>3, <2>2 DEF Holding
    <3>2. "ADMIN" \in RolesOf(req[s].user)'
      BY <1>3, <3>1 DEF Permitted, AdminOnly, OwnerOrAdmin
    <3> QED
      BY <1>2, <2>1, <3>2
  <2>3. CASE req[s] # None /\ Same(req[s], req'[s]) /\ "role" \in met[s]
    BY <1>1, <1>3, <2>3 DEF Same, Authority, RowsStay
  <2>4. req[s] = None \/ Same(req[s], req'[s])
    BY <1>3, NextOrderly DEF Orderly, RequestsFollow
  <2>5. req[s] = None => met'[s] = Holding(req[s])'
    BY <1>3, Observed, NextObserves DEF Core, HoldingFor
  <2>6. req[s] # None => met'[s] = met[s] \cup Holding(req[s])'
    BY <1>3, MetGrows
  <2> QED
    BY <1>3, <2>2, <2>3, <2>4, <2>5, <2>6
<1>4. ASSUME server' = "seed.create"
      PROVE  Named' = {}
  <2>1. CASE SeedList /\ UNCHANGED rows
    BY <1>4, <2>1 DEF SeedList, Named, rows
  <2>2. CASE server = "seed.create" /\ ~SeedCreate
    BY <2>2, NamedGrows, CreateUserAuthority DEF Authority
  <2> QED
    BY <1>4, <2>1, <2>2, ServerChanges DEF SeedCreate
<1>5. ASSUME server' = "seed.assign"
      PROVE  founder' \in Users /\ Named' = {founder'} /\ admins' = {}
  <2>1. CASE SeedCreate
    <3>1. PICK u \in Users, p \in Passwords : Insert(u, p) /\ founder' = u
      BY <2>1 DEF SeedCreate
    <3>2. NewAccount(p) # None
      <4>1. NewAccount(p) \in Account
        BY DEF NewAccount, Account
      <4> QED
        BY <4>1, NoneAssumption
    <3>3. Named = {} /\ UNCHANGED admins
      BY <2>1 DEF SeedCreate, Authority
    <3>4. Named' = {u}
      BY <1>1, <3>1, <3>2, <3>3 DEF Insert, Named, TypeOK
    <3>5. admins = {}
      BY <1>1, <3>3 DEF References, Named, TypeOK
    <3> QED
      BY <3>1, <3>3, <3>4, <3>5
  <2>2. CASE server = "seed.assign" /\ UNCHANGED founder
    <3>1. founder \in Users /\ Named = {founder} /\ admins = {}
      BY <2>2 DEF Authority
    <3>2. ~SeedCreate /\ ~SeedAssign
      BY <1>5, <2>2 DEF SeedCreate, SeedAssign
    <3>3. Named' = Named
      BY <3>1, <3>2, NamedGrows, CreateUserAuthority
    <3>4. admins' = admins
      BY <3>1, <3>2, AdminsGrow, AssignRoleAuthority
    <3> QED
      BY <2>2, <3>1, <3>3, <3>4
  <2>3. ~SeedList
    BY <1>5 DEF SeedList
  <2> QED
    BY <1>5, <2>1, <2>2, <2>3, ServerChanges
<1> QED
  BY <1>2, <1>3, <1>4, <1>5 DEF Authority

-----------------------------------------------------------------------------
(* The invariant holds from the start.                                     *)

LEMMA InitInv ==
    ASSUME Init
    PROVE  IInv
<1>1. PICK d \in Databases : account = d.account /\ roles = d.roles /\ token = d.token
  BY DEF Init
<1>2. /\ account \in [Users -> Account \cup {None}]
      /\ roles \in [Users -> [Roles -> Users \cup {None}]]
      /\ token \in [Tokens -> Token \cup {None}]
  BY <1>1, DatabasesAssumption
<1>3. /\ \A u \in Users, r \in Roles : roles[u][r] # None => account[u] # None
      /\ \A t \in Tokens : token[t] # None => account[token[t].user] # None
  BY <1>1, DatabasesAssumption
<1>4. \A s \in Slots : req[s] = None
  BY DEF Init
<1>5. TypeOK
  BY <1>2 DEF Init, TypeOK
<1>6. References
  <2>1. \A u \in admins : account[u] # None
    BY <1>3 DEF Init, RolesOf
  <2> QED
    BY <1>3, <1>4, <2>1 DEF References
<1>7. Shape /\ Sees /\ Knowledge
  BY <1>4 DEF Shape, Sees, HoldingFor, Knowledge
<1>8. Settled
  <2>1. ASSUME NEW u \in Users, account[u] # None
        PROVE  /\ ~account[u].must => "password" \in completed[u]
               /\ account[u].key # "none" => "key" \in completed[u]
    BY <2>1 DEF Init
  <2> QED
    BY <1>4, <2>1 DEF Settled
<1>9. Authority
  <2>1. \A u \in Users : "ADMIN" \in RolesOf(u) => u \in admins
    BY DEF Init
  <2>2. server = "down"
    BY DEF Init
  <2> QED
    BY <1>4, <2>1, <2>2 DEF Authority
<1> QED
  BY <1>5, <1>6, <1>7, <1>8, <1>9 DEF IInv, Core

LEMMA InvKept ==
    ASSUME IInv, [Next]_vars
    PROVE  IInv'
<1>1. CASE Next
  <2>1. Sees'
    BY <1>1, Observed, NextObserves DEF IInv, Core
  <2> QED
    BY <1>1, <2>1, CoreKept, KnowledgeKept, SettledKept, AuthorityKept DEF IInv
<1>2. CASE UNCHANGED vars
  <2>1. UNCHANGED rows /\ UNCHANGED process /\ UNCHANGED <<req, inputs, met>>
    BY <1>2 DEF vars
  <2>2. UNCHANGED <<account, roles, token, admins, completed, server, founder>>
    BY <2>1 DEF rows, process
  <2>3. TypeOK'
    BY <2>1, <2>2 DEF IInv, Core, TypeOK
  <2>4. References' /\ Shape'
    BY <2>1, <2>2 DEF IInv, Core, References, Shape
  <2>5. Sees'
    BY <2>1, <2>2 DEF IInv, Sees, HoldingFor, Holding, RolesOf
  <2>6. Knowledge'
    BY <2>1, <2>2 DEF IInv, Knowledge, Knows
  <2>7. Settled'
    BY <2>1, <2>2 DEF IInv, Settled
  <2>8. Authority'
    BY <2>1, <2>2 DEF IInv, Authority, RolesOf, Named
  <2> QED
    BY <2>3, <2>4, <2>5, <2>6, <2>7, <2>8 DEF IInv, Core
<1> QED
  BY <1>1, <1>2

(* Every run keeps the invariant.                                          *)
THEOREM InvAlways == Spec => []IInv
<1>1. Init => IInv
  BY InitInv
<1>2. IInv /\ [Next]_vars => IInv'
  BY InvKept
<1> QED
  BY <1>1, <1>2, PTL DEF Spec

-----------------------------------------------------------------------------
(* The theorems.                                                           *)

(* The tables and the requests keep their types.                           *)
THEOREM TypeCorrect == Spec => []TypeOK
<1>1. IInv => TypeOK
  BY DEF IInv, Core
<1> QED
  BY <1>1, InvAlways, PTL

(* No handler changes anything unless the token was not revoked, the user  *)
(* active, the set-up done and the role held at some moment since the      *)
(* request began, whatever other requests do between the reads of Auth;    *)
(* and no login whose password was wrong all along gets a token.           *)
THEOREM ActsWithinAlways == Spec => []ActsWithin
<1>1. IInv => ActsWithin
  <2>1. SUFFICES ASSUME IInv, NEW s \in Slots, req[s] # None, req[s].at \in Acting
        PROVE  Needs(req[s]) \subseteq met[s]
    BY DEF ActsWithin
  <2>2. /\ Knows(s)
        /\ req[s].op = "login" <=> req[s].at \in {"login.user", "login.insert"}
    BY <2>1 DEF IInv, Core, Knowledge, Shape
  <2> QED
    BY <2>1, <2>2 DEF Knows, Authenticated, Needs, Acting
<1> QED
  BY <1>1, InvAlways, PTL

(* What is done beyond the set-up is done by users whose password was      *)
(* changed and whose key was registered at some time.                      *)
THEOREM FirstLoginEnforcedAlways == Spec => []FirstLoginEnforced
<1>1. IInv => FirstLoginEnforced
  <2>1. SUFFICES ASSUME IInv, NEW s \in Slots, req[s] # None, req[s].at \in Acting,
                        req[s].op # "login", ~SetupStep(req[s])
        PROVE  completed[req[s].user] = {"password", "key"}
    BY DEF FirstLoginEnforced
  <2>2. /\ Knows(s)
        /\ req[s].op = "login" <=> req[s].at \in {"login.user", "login.insert"}
    BY <2>1 DEF IInv, Core, Knowledge, Shape
  <2>3. "setup" \in met[s]
    BY <2>1, <2>2 DEF Knows, Acting
  <2> QED
    BY <2>1, <2>3 DEF IInv, Settled
<1> QED
  BY <1>1, InvAlways, PTL

(* Who assigns a role was an administrator before that, or is the first    *)
(* user, whom seeding makes one.                                           *)
THEOREM GrantsComeFromAdminsAlways == Spec => GrantsComeFromAdmins
<1> DEFINE Assigned(u, r) == roles'[u][r] \notin {None, roles[u][r]}
           Rightly(u, r) == \/ roles'[u][r] \in admins
                            \/ server = "seed.assign" /\ Named = {u} /\ roles'[u][r] = u
           Granted == \A u \in Users, r \in Roles : Assigned(u, r) => Rightly(u, r)
<1>1. IInv /\ [Next]_vars => [Granted]_vars
  <2> SUFFICES ASSUME IInv, Next, NEW u \in Users, NEW r \in Roles, Assigned(u, r)
      PROVE  Rightly(u, r)
    OBVIOUS
  <2>0. Core /\ Knowledge /\ Authority /\ TypeOK
    BY DEF IInv, Core
  <2>1. ASSUME NEW v \in Users, NEW q \in Roles, NEW by \in Users, Grant(v, q, by)
        PROVE  roles'[u][r] = by /\ u = v /\ r = q
    BY <2>0, <2>1, GrantTypes
  <2>2. ASSUME NEW s \in Slots, AssignRole(s)
        PROVE  Rightly(u, r)
    BY <2>0, <2>1, <2>2, AssignRoleAuthority
  <2>3. CASE SeedAssign
    <3>1. /\ founder \in Users /\ Named = {founder} /\ server = "seed.assign"
          /\ "ADMIN" \in Roles /\ Grant(founder, "ADMIN", founder)
      BY <2>0, <2>3 DEF SeedAssign, Authority, Roles
    <3> QED
      BY <2>1, <3>1
  <2>4. ASSUME NEW s \in Slots, ClearRoles(s)
        PROVE  FALSE
    BY <2>0, <2>4 DEF ClearRoles, TypeOK
  <2> QED
    BY <2>0, <2>2, <2>3, <2>4, RolesChange
<1>2. Spec => [][Granted]_vars
  BY <1>1, InvAlways, PTL DEF Spec
<1> QED
  BY <1>2 DEF GrantsComeFromAdmins

-----------------------------------------------------------------------------
(* A state there is no way out of: no administrator who is active.         *)

(* No user in use is an administrator, none is being made by the start-up, *)
(* and no request found its user to be an administrator in use.            *)
LockedOut ==
    /\ Named # {}
    /\ server \notin {"seed.create", "seed.assign"}
    /\ \A u \in Named : "ADMIN" \in RolesOf(u) => ~account[u].active
    /\ \A s \in Slots : req[s] # None /\ req[s].op \in AdminOnly =>
          ~({"role", "active"} \subseteq met[s])

(* Then no request of an administrator gets past its checks.               *)
LEMMA LockedOutWaits ==
    ASSUME IInv, LockedOut, NEW s \in Slots, req[s] # None, req[s].op \in AdminOnly
    PROVE  req[s].at \notin {"act", "assign"}
<1>1. Knows(s)
  BY DEF IInv, Knowledge
<1> QED
  BY <1>1 DEF LockedOut, Knows, Authenticated

LEMMA LockedOutRoles ==
    ASSUME IInv, LockedOut, Next
    PROVE  UNCHANGED roles
<1>1. ASSUME NEW s \in Slots, ClearRoles(s)
      PROVE  FALSE
  BY <1>1, LockedOutWaits DEF ClearRoles, Act, At, AdminOnly
<1>2. ASSUME NEW s \in Slots, AssignRole(s)
      PROVE  FALSE
  BY <1>2, LockedOutWaits DEF AssignRole, At, AdminOnly, IInv, Core, Shape
<1>3. ~SeedAssign
  BY DEF SeedAssign, LockedOut
<1> QED
  BY <1>1, <1>2, <1>3, RolesChange DEF IInv

(* Of the requests that change an account only those of its owner go on,   *)
(* and these do not make it active.                                        *)
LEMMA LockedOutAccounts ==
    ASSUME IInv, LockedOut, Next
    PROVE  /\ Named' = Named
           /\ \A u \in Named : account'[u].active = account[u].active
<1>0. Core /\ Authority /\ TypeOK
  BY DEF IInv, Core
<1>1. ASSUME NEW s \in Slots, CreateUser(s)
      PROVE  FALSE
  BY <1>1, LockedOutWaits DEF CreateUser, Act, At, AdminOnly
<1>2. ~SeedCreate
  BY DEF SeedCreate, LockedOut
<1>3. Named' = Named
  BY <1>0, <1>1, <1>2, NamedGrows
<1>4. ASSUME NEW s \in Slots, Change(s)
      PROVE  RegisterPublicKey(s) \/ ChangePassword(s)
  BY <1>4, LockedOutWaits DEF Change, Deactivate, Reactivate, RevokePublicKey,
     AdminResetPassword, ForcePasswordChange, Update, Act, At, AdminOnly
<1>5. ASSUME NEW v \in Users, NEW a, account' = [account EXCEPT ![v] = a],
             account[v] # None => a.active = account[v].active, NEW u \in Named
      PROVE  account'[u].active = account[u].active
  BY <1>0, <1>5 DEF Named, TypeOK
<1>6. ASSUME NEW s \in Slots, RegisterPublicKey(s) \/ ChangePassword(s), NEW u \in Named
      PROVE  account'[u].active = account[u].active
  <2>1. req[s] # None /\ req[s].target \in Users
    BY <1>0, <1>6, RequestType DEF RegisterPublicKey, ChangePassword, Update, Act, At
  <2> DEFINE old == account[req[s].target]
  <2>2. old # None => old \in Account
    BY <1>0, <2>1, AccountType
  <2>3. CASE RegisterPublicKey(s)
    <3> DEFINE a == [old EXCEPT !.key = "valid"]
    <3>1. account' = [account EXCEPT ![req[s].target] = a]
      BY <2>3 DEF RegisterPublicKey, Update, Target
    <3>2. old # None => a.active = old.active
      BY <2>2 DEF Account
    <3> HIDE DEF a
    <3> QED
      BY <1>5, <2>1, <3>1, <3>2
  <2>4. CASE ChangePassword(s)
    <3> DEFINE a == [old EXCEPT !.password = req[s].password, !.must = FALSE]
    <3>1. account' = [account EXCEPT ![req[s].target] = a]
      BY <2>4 DEF ChangePassword, Update, Target
    <3>2. old # None => a.active = old.active
      BY <2>2 DEF Account
    <3> HIDE DEF a
    <3> QED
      BY <1>5, <2>1, <3>1, <3>2
  <2> QED
    BY <1>6, <2>3, <2>4
<1>7. ASSUME ExpireKey, NEW u \in Named
      PROVE  account'[u].active = account[u].active
  <2>1. PICK v \in Named : account' = [account EXCEPT ![v].key = "expired"]
    BY <1>7 DEF ExpireKey
  <2> DEFINE a == [account[v] EXCEPT !.key = "expired"]
  <2>2. account[v] \in Account /\ v \in Users
    BY <1>0, AccountType DEF Named
  <2>3. account' = [account EXCEPT ![v] = a] /\ a.active = account[v].active
    BY <2>1, <2>2 DEF Account
  <2> HIDE DEF a
  <2> QED
    BY <1>5, <2>2, <2>3
<1> QED
  BY <1>0, <1>1, <1>2, <1>3, <1>4, <1>6, <1>7, AccountsChange

LEMMA LockedOutServer ==
    ASSUME IInv, LockedOut, Next
    PROVE  server' \notin {"seed.create", "seed.assign"}
<1>1. SeedList => server' = "up"
  BY DEF SeedList, LockedOut
<1>2. ~SeedCreate
  BY DEF SeedCreate, LockedOut
<1> QED
  BY <1>1, <1>2, ServerChanges DEF LockedOut, IInv

(* A request finds its user an administrator, and active, no sooner than   *)
(* before, and one that begins does not find both.                         *)
LEMMA LockedOutRequests ==
    ASSUME IInv, LockedOut, Next, NEW s \in Slots, req'[s] # None,
           req'[s].op \in AdminOnly
    PROVE  ~({"role", "active"} \subseteq met'[s])
<1>0. Core /\ Sees /\ Authority /\ TypeOK /\ UNCHANGED roles /\ Named' = Named
  BY LockedOutRoles, LockedOutAccounts DEF IInv, Core
<1>1. TypeOK' /\ References' /\ RequestsFollow /\ Observe
  BY <1>0, NextOrderly, NextObserves, CoreKept DEF Orderly, Core
<1> DEFINE u == req'[s].user
<1>2. u \in Named /\ account'[u].active = account[u].active
  <2>1. u \in Users /\ account'[u] # None
    BY <1>1 DEF TypeOK, Request, References
  <2> QED
    BY <1>0, <2>1, LockedOutAccounts DEF Named
<1>3. "role" \in Holding(req[s])' => "ADMIN" \in RolesOf(u)
  BY <1>0 DEF Holding, Permitted, RolesOf, AdminOnly, OwnerOrAdmin
<1>4. "active" \in Holding(req[s])' => account[u].active
  BY <1>2 DEF Holding
<1>5. ~({"role", "active"} \subseteq Holding(req[s])')
  BY <1>2, <1>3, <1>4 DEF LockedOut
<1>6. CASE req[s] = None
  <2>1. met'[s] = Holding(req[s])'
    BY <1>0, <1>1, <1>6, Observed DEF HoldingFor
  <2> QED
    BY <1>5, <2>1
<1>7. CASE req[s] # None
  <2>1. Same(req[s], req'[s])
    BY <1>1, <1>7 DEF RequestsFollow
  <2>2. /\ Holding(req[s]) \subseteq met[s]
        /\ met'[s] = met[s] \cup Holding(req[s])'
    BY <1>0, <1>7, MetGrows
  <2>3. "role" \in Holding(req[s])' => "role" \in Holding(req[s])
    BY <1>3, <2>1 DEF Same, Holding, Permitted, Conditions
  <2>4. "active" \in Holding(req[s])' => "active" \in Holding(req[s])
    BY <1>4, <2>1 DEF Same, Holding, Conditions
  <2>5. ~({"role", "active"} \subseteq met[s])
    BY <1>7, <2>1 DEF LockedOut, Same
  <2> QED
    BY <2>2, <2>3, <2>4, <2>5
<1> QED
  BY <1>6, <1>7

LEMMA LockedOutKept ==
    ASSUME IInv, LockedOut, [Next]_vars
    PROVE  LockedOut' /\ UNCHANGED roles /\ Named' = Named
<1>1. CASE Next
  <2>1. \A u \in Named : "ADMIN" \in RolesOf(u)' => ~account'[u].active
    BY <1>1, LockedOutRoles, LockedOutAccounts DEF LockedOut, RolesOf
  <2> QED
    BY <1>1, <2>1, LockedOutRoles, LockedOutAccounts, LockedOutServer,
       LockedOutRequests DEF LockedOut
<1>2. CASE UNCHANGED vars
  BY <1>2 DEF vars, rows, process, LockedOut, Named, RolesOf
<1> QED
  BY <1>1, <1>2

(* No handler and no start-up looks at whether an administrator is left:   *)
(* the last one may be deactivated or lose the role, and a start-up that   *)
(* crashes between its two inserts leaves a user without a role for the    *)
(* next one to find.  Once no administrator is active, and no request of   *)
(* one is on its way, no role is ever assigned or removed again, no user   *)
(* is added, and no restart helps.                                         *)
THEOREM LockedOutForGood ==
    Spec => [](LockedOut => []LockedOut /\ [][UNCHANGED roles /\ Named' = Named]_vars)
<1> DEFINE Nothing == UNCHANGED roles /\ Named' = Named
<1>1. IInv /\ LockedOut /\ [Next]_vars => LockedOut' /\ [Nothing]_vars
  BY LockedOutKept
<1>2. []IInv /\ [][Next]_vars => [](LockedOut => []LockedOut /\ [][Nothing]_vars)
  <2> HIDE DEF Nothing
  <2> QED
    BY <1>1, PTL
<1> QED
  BY <1>2, InvAlways, PTL DEF Spec
=============================================================================
