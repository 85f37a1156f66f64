------------------------------ MODULE Accounts ------------------------------
(***************************************************************************)
(* Users, their roles, tokens and set-up, and the chain of middleware that *)
(* decides whether a request may do what it asks: Auth reads the token,    *)
(* then the user, then the roles, SetupGuard and RequireRequestSignature   *)
(* follow, and a role guard; only then does the handler change anything.   *)
(* Each of these is one query, and other requests run in between.  A       *)
(* request that fails a check or a query, or is cut off, ends with Stop.   *)
(* The server may crash at any moment, also while it seeds its first       *)
(* administrator, which it does after it has begun to listen.              *)
(*                                                                         *)
(* Left out: names and addresses, requests that only read, and signatures  *)
(* but for the key they need.  Rows of users are never deleted, so a       *)
(* request about a user who is not there changes nothing.                  *)
(***************************************************************************)
EXTENDS Naturals, FiniteSets

CONSTANTS
    Slots,          \* requests that may be in progress at a time
    Users,          \* rows of users there may ever be
    Tokens,         \* rows of api_tokens there may ever be
    Passwords,
    Ops,            \* the operations this instance exercises
    None,           \* NULL, no row, no request
    Databases,      \* what the server may be started on
    Assignable,     \* bound: the roles requests hand out
    MaxInputs       \* bound: requests and expiries in a behaviour

Roles == {"SOLUTION_PROVIDER", "DATA_OWNER", "AUDITOR", "ENV_OPERATOR", "ADMIN",
          "VIEWER"}

(* must is must_change_password; an expired key is still registered.       *)
Account == [active : BOOLEAN, must : BOOLEAN, key : {"none", "valid", "expired"},
            password : Passwords]

Token == [user : Users, state : {"live", "expired", "revoked"}]

(* Roles and tokens refer to users there are.                              *)
ASSUME DatabasesAssumption ==
    /\ Databases \subseteq [account : [Users -> Account \cup {None}],
                           roles : [Users -> [Roles -> Users \cup {None}]],
                           token : [Tokens -> Token \cup {None}]]
    /\ \A d \in Databases :
          /\ \A u \in Users, r \in Roles : d.roles[u][r] # None => d.account[u] # None
          /\ \A t \in Tokens : d.token[t] # None => d.account[d.token[t].user] # None
ASSUME PasswordsAssumption == Passwords # {}
ASSUME BoundsAssumption == Assignable \subseteq Roles /\ MaxInputs \in Nat

VARIABLES
    account,        \* users
    roles,          \* user_roles, UNIQUE (user_id, role): who assigned each
    token,          \* api_tokens
    server,         \* the process: down, or how far its start-up has come
    founder,        \* the user the start-up has created
    req,            \* the requests in progress
    inputs,         \* how many requests and expiries there have been
    admins,         \* history: who ever was an administrator
    completed,      \* history: the steps of the set-up taken for users
    met             \* history: what held at some moment of each request

rows == <<account, roles, token, admins, completed>>
process == <<server, founder>>
vars == <<rows, process, req, inputs, met>>

-----------------------------------------------------------------------------
(* Requests.                                                               *)

(* Who may ask for an operation: the guards of the routes in main.go.      *)
AdminOnly == {"createUser", "updateRoles", "deactivate", "reactivate",
              "resetPassword", "forcePasswordChange", "revokeKey"}
OwnerOrAdmin == {"registerKey", "changePassword", "createToken", "revokeToken"}
Operations == AdminOnly \cup OwnerOrAdmin \cup {"login", "logout"}

ASSUME OpsAssumption == Ops \subseteq Operations

Labels == {"auth.token", "auth.user", "auth.roles", "signature", "act",
           "assign", "login.user", "login.insert"}

(* Where a request has passed all its checks and goes on to change rows.   *)
Acting == {"act", "assign", "login.insert"}

Request == [op : Operations, at : Labels, user : Users, token : Tokens \cup {None},
            target : Users, roles : SUBSET Roles, pending : BOOLEAN,
            password : Passwords, named : Tokens \cup {None}, want : SUBSET Roles]

ASSUME NoneAssumption ==
    /\ None \notin Users \cup Tokens
    /\ None \notin Account /\ None \notin Token /\ None \notin Request

RolesOf(u) == {r \in Roles : roles[u][r] # None}
Named == {u \in Users : account[u] # None}

\* Faulty variant: only the key counts.
SetupKeyOnly(a) == a.key # "valid"

(* The set-up a user still has to do, as Auth computes it.                 *)
SetupPending(a) == a.must \/ a.key # "valid"

(* isAllowedSetupEndpoint: logout, and a user's own password and key.      *)
SetupStep(r) == \/ r.op = "logout"
                \/ r.op \in {"changePassword", "registerKey"} /\ r.target = r.user

(* isSignatureExempt: the same routes, for whomever.                       *)
Unsigned == {"logout", "changePassword", "registerKey"}

\* Faulty variant: whatever concerns oneself is permitted.
PermittedToOwners(r, held) == r.op \in {"login", "logout"} \/ r.target = r.user \/ "ADMIN" \in held

(* RequireRole("ADMIN") and RequireOwnerOrAdmin("id").                     *)
Permitted(r, held) == \/ r.op \in {"login", "logout"}
                      \/ r.op \in OwnerOrAdmin /\ r.target = r.user
                      \/ "ADMIN" \in held

-----------------------------------------------------------------------------
(* What a request needs, and which of it holds now.                        *)

Conditions == {"token", "active", "setup", "role", "password"}

Needs(r) == IF r.op = "login" THEN {"active", "password"}
            ELSE {"token", "active", "setup", "role"}

Holding(r) ==
    {c \in Conditions :
        \/ c = "token" /\ r.token # None /\ token[r.token].state = "live"
        \/ c = "active" /\ account[r.user].active
        \/ c = "setup" /\ (SetupStep(r) \/ ~SetupPending(account[r.user]))
        \/ c = "role" /\ Permitted(r, RolesOf(r.user))
        \/ c = "password" /\ account[r.user].password = r.password}

HoldingFor(s) == IF req[s] = None THEN {} ELSE Holding(req[s])

(* A request keeps what it has seen to hold at any moment since it began.  *)
Observe == met' = [s \in Slots |-> IF req[s] = None \/ req'[s] = None
                                   THEN HoldingFor(s)'
                                   ELSE met[s] \cup HoldingFor(s)']

-----------------------------------------------------------------------------
(* Steps of a request.                                                     *)

At(s, label) == req[s] # None /\ req[s].at = label
Goto(s, label) == req' = [req EXCEPT ![s].at = label]
Done(s) == req' = [req EXCEPT ![s] = None]

Input == inputs < MaxInputs /\ inputs' = inputs + 1

Accept(s, r) == /\ r.op \in Ops
                /\ server # "down"
                /\ req[s] = None
                /\ Input
                /\ req' = [req EXCEPT ![s] = r]
                /\ UNCHANGED <<rows, process>>
                /\ Observe

(* A request that comes with a token and names a user.                     *)
Ask(t, op, u) == [op |-> op, at |-> "auth.token", user |-> token[t].user,
                  token |-> t, target |-> u, roles |-> {}, pending |-> TRUE,
                  password |-> CHOOSE p \in Passwords : TRUE, named |-> t,
                  want |-> {}]

-----------------------------------------------------------------------------
(* The routes.                                                             *)

Plain == {"deactivate", "reactivate", "forcePasswordChange", "revokeKey",
          "registerKey", "createToken"}

ReceivePlain(s, t) ==
    \E op \in Plain, u \in Named : Accept(s, Ask(t, op, u))

ReceiveLogout(s, t) == Accept(s, Ask(t, "logout", token[t].user))

ReceiveRevokeToken(s, t) ==
    \E u \in Named, n \in Tokens :
        /\ token[n] # None
        /\ Accept(s, [Ask(t, "revokeToken", u) EXCEPT !.named = n])

ReceivePassword(s, t) ==
    \E op \in {"changePassword", "resetPassword"}, u \in Named, p \in Passwords :
        Accept(s, [Ask(t, op, u) EXCEPT !.password = p])

(* At least one role is required.                                          *)
ReceiveRoles(s, t) ==
    \E w \in (SUBSET Assignable) \ {{}}, u \in Users :
        \/ account[u] = None /\ Accept(s, [Ask(t, "createUser", u) EXCEPT !.want = w])
        \/ account[u] # None /\ Accept(s, [Ask(t, "updateRoles", u) EXCEPT !.want = w])

ReceiveLogin(s) ==
    \E u \in Named, p \in Passwords :
        Accept(s, [op |-> "login", at |-> "login.user", user |-> u, token |-> None,
                   target |-> u, roles |-> {}, pending |-> TRUE, password |-> p,
                   named |-> None, want |-> {}])

Receive(s) ==
    \/ ReceiveLogin(s)
    \/ \E t \in Tokens :
          /\ token[t] # None
          /\ \/ ReceivePlain(s, t)
             \/ ReceiveLogout(s, t)
             \/ ReceiveRevokeToken(s, t)
             \/ ReceivePassword(s, t)
             \/ ReceiveRoles(s, t)

-----------------------------------------------------------------------------
(* The middleware.                                                         *)

Idle == UNCHANGED <<rows, process, inputs>> /\ Observe

\* Faulty variant: a token is good until it expires.
ReadTokenAge(s) == /\ At(s, "auth.token")
                   /\ token[req[s].token].state # "expired"
                   /\ Goto(s, "auth.user")
                   /\ Idle

ReadToken(s) == /\ At(s, "auth.token")
                /\ token[req[s].token].state = "live"
                /\ Goto(s, "auth.user")
                /\ Idle

(* What is pending is computed a query later, from the row read here; that *)
(* a key may expire in between is left out, so that more is let through.   *)
ReadUser(s) ==
    /\ At(s, "auth.user")
    /\ account[req[s].user].active
    /\ req' = [req EXCEPT ![s].at = "auth.roles",
                          ![s].pending = SetupPending(account[req[s].user])]
    /\ Idle

(* SetupGuard decides on what Auth found, and so does the role guard of a  *)
(* route that needs no signature.                                          *)
ReadRoles(s) ==
    /\ At(s, "auth.roles")
    /\ req[s].pending => SetupStep(req[s])
    /\ LET held == RolesOf(req[s].user)
           Enter(next) == req' = [req EXCEPT ![s].at = next, ![s].roles = held]
       IN  \/ req[s].op \in Unsigned /\ Permitted(req[s], held) /\ Enter("act")
           \/ req[s].op \notin Unsigned /\ Enter("signature")
    /\ Idle

(* The key is read again, the roles are not.                               *)
CheckSignature(s) ==
    /\ At(s, "signature")
    /\ account[req[s].user].key # "none"
    /\ Permitted(req[s], req[s].roles)
    /\ Goto(s, "act")
    /\ Idle

-----------------------------------------------------------------------------
(* The handlers.                                                           *)

Act(s, op) == At(s, "act") /\ req[s].op = op
Target(s) == req[s].target

(* INSERT INTO user_roles: a row that is there already is an error.        *)
Grant(u, r, by) ==
    /\ roles[u][r] = None
    /\ roles' = [roles EXCEPT ![u][r] = by]
    /\ admins' = IF r = "ADMIN" THEN admins \cup {u} ELSE admins

\* Faulty variant: must_change_password has no default.
NewAccountUnset(p) == [active |-> TRUE, must |-> None, key |-> "none", password |-> p]

(* INSERT INTO users: the columns have defaults, the address is UNIQUE.    *)
NewAccount(p) == [active |-> TRUE, must |-> TRUE, key |-> "none", password |-> p]

Insert(u, p) == /\ account[u] = None
                /\ account' = [account EXCEPT ![u] = NewAccount(p)]

CreateUser(s) ==
    /\ Act(s, "createUser")
    /\ Insert(Target(s), req[s].password)
    /\ Goto(s, "assign")
    /\ UNCHANGED <<roles, token, admins, completed, process, inputs>>
    /\ Observe

(* UpdateRoles, once it has seen the user: the old roles go first.         *)
ClearRoles(s) ==
    /\ Act(s, "updateRoles")
    /\ roles' = [roles EXCEPT ![Target(s)] = [r \in Roles |-> None]]
    /\ Goto(s, "assign")
    /\ UNCHANGED <<account, token, admins, completed, process, inputs>>
    /\ Observe

(* The roles asked for are inserted one by one.                            *)
AssignRole(s) ==
    /\ At(s, "assign")
    /\ \E r \in req[s].want :
          /\ Grant(Target(s), r, req[s].user)
          /\ IF req[s].want = {r} THEN Done(s)
             ELSE req' = [req EXCEPT ![s].want = @ \ {r}]
    /\ UNCHANGED <<account, token, completed, process, inputs>>
    /\ Observe

(* An UPDATE of one row of users, whatever it holds by now.                *)
Update(s, op, a) ==
    /\ Act(s, op)
    /\ account' = [account EXCEPT ![Target(s)] = a]
    /\ Done(s)
    /\ UNCHANGED <<roles, token, admins, process, inputs>>
    /\ Observe

Take(s, step) == completed' = [completed EXCEPT ![Target(s)] = @ \cup {step}]

Deactivate(s) == /\ Update(s, "deactivate", [account[Target(s)] EXCEPT !.active = FALSE])
                 /\ UNCHANGED completed

Reactivate(s) == /\ Update(s, "reactivate", [account[Target(s)] EXCEPT !.active = TRUE])
                 /\ UNCHANGED completed

RegisterPublicKey(s) ==
    /\ Update(s, "registerKey", [account[Target(s)] EXCEPT !.key = "valid"])
    /\ Take(s, "key")

RevokePublicKey(s) ==
    /\ Update(s, "revokeKey", [account[Target(s)] EXCEPT !.key = "none"])
    /\ UNCHANGED completed

ChangePassword(s) ==
    /\ Update(s, "changePassword",
              [account[Target(s)] EXCEPT !.password = req[s].password, !.must = FALSE])
    /\ Take(s, "password")

AdminResetPassword(s) ==
    /\ Update(s, "resetPassword",
              [account[Target(s)] EXCEPT !.password = req[s].password, !.must = TRUE])
    /\ UNCHANGED completed

ForcePasswordChange(s) ==
    /\ Update(s, "forcePasswordChange", [account[Target(s)] EXCEPT !.must = TRUE])
    /\ UNCHANGED completed

(* INSERT INTO api_tokens for a user.                                      *)
NewToken(s) == /\ \E t \in Tokens :
                     /\ token[t] = None
                     /\ token' = [token EXCEPT ![t] = [user |-> Target(s), state |-> "live"]]
               /\ Done(s)
               /\ UNCHANGED <<account, roles, admins, completed, process, inputs>>
               /\ Observe

CreateToken(s) == Act(s, "createToken") /\ NewToken(s)

(* UPDATE api_tokens ... WHERE id = ... AND user_id = ...; a logout names  *)
(* the token it came with and its owner.                                   *)
RevokeToken(s) ==
    /\ At(s, "act") /\ req[s].op \in {"revokeToken", "logout"}
    /\ token' = IF token[req[s].named].user = Target(s)
                THEN [token EXCEPT ![req[s].named].state = "revoked"]
                ELSE token
    /\ Done(s)
    /\ UNCHANGED <<account, roles, admins, completed, process, inputs>>
    /\ Observe

(* Login: the row that was read decides, the token comes later.            *)
CheckCredentials(s) ==
    /\ At(s, "login.user")
    /\ account[req[s].user].active
    /\ account[req[s].user].password = req[s].password
    /\ Goto(s, "login.insert")
    /\ Idle

LoginToken(s) == At(s, "login.insert") /\ NewToken(s)

Stop(s) == /\ req[s] # None
           /\ Done(s)
           /\ Idle

Handle(s) ==
    \/ CreateUser(s) \/ ClearRoles(s) \/ AssignRole(s)
    \/ Deactivate(s) \/ Reactivate(s)
    \/ RegisterPublicKey(s) \/ RevokePublicKey(s)
    \/ ChangePassword(s) \/ AdminResetPassword(s) \/ ForcePasswordChange(s)
    \/ CreateToken(s) \/ RevokeToken(s) \/ LoginToken(s)

-----------------------------------------------------------------------------
(* The process, and time.                                                  *)

(* The server listens from now on, and looks for users at the same time.   *)
StartServer == /\ server = "down"
               /\ server' = "seed.list"
               /\ UNCHANGED <<rows, founder, req, inputs>>
               /\ Observe

SeedList == /\ server = "seed.list"
            /\ server' = IF Named = {} THEN "seed.create" ELSE "up"
            /\ UNCHANGED <<rows, founder, req, inputs>>
            /\ Observe

SeedCreate == /\ server = "seed.create"
              /\ \E u \in Users, p \in Passwords : Insert(u, p) /\ founder' = u
              /\ server' = "seed.assign"
              /\ UNCHANGED <<roles, token, admins, completed, req, inputs>>
              /\ Observe

SeedAssign == /\ server = "seed.assign"
              /\ Grant(founder, "ADMIN", founder)
              /\ server' = "up"
              /\ UNCHANGED <<account, token, completed, founder, req, inputs>>
              /\ Observe

(* Also the end of a start-up whose query fails (os.Exit).                 *)
Crash == /\ server # "down"
         /\ server' = "down"
         /\ founder' = None
         /\ req' = [s \in Slots |-> None]
         /\ UNCHANGED <<rows, inputs>>
         /\ Observe

ExpireKey == /\ Input
             /\ \E u \in Named :
                   /\ account[u].key = "valid"
                   /\ account' = [account EXCEPT ![u].key = "expired"]
             /\ UNCHANGED <<roles, token, admins, completed, process, req>>
             /\ Observe

ExpireToken == /\ Input
               /\ \E t \in Tokens :
                     /\ token[t] # None /\ token[t].state = "live"
                     /\ token' = [token EXCEPT ![t].state = "expired"]
               /\ UNCHANGED <<account, roles, admins, completed, process, req>>
               /\ Observe

-----------------------------------------------------------------------------
Init ==
    /\ \E d \in Databases :
          account = d.account /\ roles = d.roles /\ token = d.token
    /\ server = "down" /\ founder = None
    /\ req = [s \in Slots |-> None]
    /\ inputs = 0
    /\ admins = {u \in Users : "ADMIN" \in RolesOf(u)}
    /\ completed = [u \in Users |->
          {c \in {"password", "key"} : /\ account[u] # None
                                       /\ c = "password" => ~account[u].must
                                       /\ c = "key" => account[u].key # "none"}]
    /\ met = [s \in Slots |-> {}]

RequestStep(s) ==
    \/ Receive(s)
    \/ ReadToken(s) \/ ReadUser(s) \/ ReadRoles(s) \/ CheckSignature(s)
    \/ CheckCredentials(s)
    \/ Handle(s)
    \/ Stop(s)

ServerStep == StartServer \/ SeedList \/ SeedCreate \/ SeedAssign \/ Crash

Next == \/ \E s \in Slots : RequestStep(s)
        \/ ServerStep
        \/ ExpireKey \/ ExpireToken

Spec == Init /\ [][Next]_vars

-----------------------------------------------------------------------------
(* Properties.                                                             *)

(* The tables and the requests have their types; a request has a token     *)
(* unless it is a login.                                                   *)
TypeOK ==
    /\ account \in [Users -> Account \cup {None}]
    /\ roles \in [Users -> [Roles -> Users \cup {None}]]
    /\ token \in [Tokens -> Token \cup {None}]
    /\ server \in {"down", "seed.list", "seed.create", "seed.assign", "up"}
    /\ founder \in Users \cup {None}
    /\ req \in [Slots -> Request \cup {None}]
    /\ inputs \in Nat
    /\ admins \subseteq Users
    /\ completed \in [Users -> SUBSET {"password", "key"}]
    /\ met \in [Slots -> SUBSET Conditions]

(* Auth, SetupGuard and the role guards work on reads that may be old, but *)
(* never older than the request: when a handler changes anything, its      *)
(* token was not revoked, its user active, the set-up done, and the role   *)
(* held at some moment since the request began; so a request that begins   *)
(* after a revocation, a deactivation, or the loss of a role does nothing. *)
(* A login whose password was wrong all along gets no token.               *)
ActsWithin ==
    \A s \in Slots : req[s] # None /\ req[s].at \in Acting => Needs(req[s]) \subseteq met[s]

(* A role is assigned by somebody who was an administrator before that,    *)
(* though perhaps no longer; only seeding has its one user do it.          *)
GrantsComeFromAdmins ==
    [][\A u \in Users, r \in Roles :
          roles'[u][r] \notin {None, roles[u][r]} =>
              \/ roles'[u][r] \in admins
              \/ server = "seed.assign" /\ Named = {u} /\ roles'[u][r] = u]_vars

(* "All new users (including seeded admin) must change password and        *)
(* register public key before accessing any functionality": what is done   *)
(* beyond the set-up is done by users whose password was changed and key   *)
(* registered at some time, by themselves or by an administrator.          *)
FirstLoginEnforced ==
    \A s \in Slots :
        /\ req[s] # None
        /\ req[s].at \in Acting
        /\ req[s].op # "login"
        /\ ~SetupStep(req[s])
        => completed[req[s].user] = {"password", "key"}
=============================================================================
