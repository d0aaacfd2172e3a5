---------------------------- MODULE AuthService ----------------------------
(***************************************************************************)
(* Users, sessions and API tokens: internal/service/auth.go over the       *)
(* tables users, sessions and api_tokens, with the middleware and the      *)
(* handlers (internal/api/handlers/auth.go) that call it.                  *)
(*                                                                         *)
(* Requests run concurrently and hold no lock or transaction, so what one  *)
(* statement has read may be old when the next one writes.  One action per *)
(* statement; the reads of one decision are taken together where no other  *)
(* step can tell, and any statement may fail, which ends the request.      *)
(*                                                                         *)
(* Abstracted: a user is its e-mail address, whose row has a role and the  *)
(* enabled flag; names, hashes and the answer's body are left out, and so  *)
(* are wrong passwords and unknown names, which change nothing.  A user    *)
(* has at most one session and there is at most one API token; a           *)
(* credential that has expired is as good as deleted.                      *)
(***************************************************************************)
EXTENDS Naturals, FiniteSets

CONSTANTS
  Users,                 \* e-mail addresses
  Calls,                 \* requests in progress
  AuthScopes,            \* bounds: the operations and inputs of a behaviour
  Nobody                 \* no user

Roles == {"viewer", "operator", "admin"}
Rank == [viewer |-> 1, operator |-> 2, admin |-> 3]
Operations == {"setup", "login", "create", "patch", "delete", "mint", "revoke"}

\* A PATCH names any of the role, the flag and a password.
Patch == [role : Roles \cup {"keep"}, enabled : {"keep", "yes", "no"},
          password : {"none", "short", "long"}]

ASSUME AuthAssumption ==
  /\ Nobody \notin Users
  /\ IsFiniteSet(Users)
  /\ AuthScopes \subseteq
       [operations : SUBSET Operations, roles : SUBSET Roles, patches : SUBSET Patch]

VARIABLES
  authScope,             \* the bound this behaviour is under; never changes
  users,                 \* the users table
  sessions,              \* the sessions table: users that have one
  token,                 \* the api_tokens table
  call                   \* what each request has read

authVars == <<authScope, users, sessions, token, call>>

User == [role : Roles, enabled : BOOLEAN]
NoUser == [role |-> "none", enabled |-> FALSE]
NoToken == [owner |-> Nobody, role |-> "none"]

NoPatch == [role |-> "keep", enabled |-> "keep", password |-> "none"]

\* by and role: the credential and what it grants; on: the row that the
\* operation is about; copy: that row as read; patch: the request's body.
NoCall == [at |-> "idle", by |-> Nobody, role |-> "none", on |-> Nobody,
           copy |-> NoUser, patch |-> NoPatch]

Stages == {"idle", "session", "token", "granted", "setup", "login", "patch", "update",
           "password", "delete", "mint"}

Call == [at : Stages, by : Users \cup {Nobody}, role : Roles \cup {"none"},
         on : Users \cup {Nobody}, copy : User \cup {NoUser}, patch : Patch]

\* What a request has read by its stage.
Formed(r) ==
  /\ r.at \in {"login", "session", "token", "granted"} => r.by \in Users
  /\ r.at \in {"token", "granted", "mint"} => r.role \in Roles
  /\ r.at \in {"patch", "update", "password", "delete", "mint"} => r.on \in Users
  /\ r.at \in {"patch", "update", "password"} => r.copy \in User

\* Every record is well formed, and no session and no token is without its user.
AuthTypeOK ==
  /\ authScope \in AuthScopes
  /\ users \in [Users -> User \cup {NoUser}]
  /\ sessions \subseteq Users
  /\ token \in [owner : Users, role : Roles] \cup {NoToken}
  /\ call \in [Calls -> Call]
  /\ \A c \in Calls : Formed(call[c])
  /\ \A u \in sessions : users[u] # NoUser
  /\ token # NoToken => users[token.owner] # NoUser

AuthInit ==
  /\ authScope \in AuthScopes
  /\ users = [u \in Users |-> NoUser]
  /\ sessions = {}
  /\ token = NoToken
  /\ call = [c \in Calls |-> NoCall]

-----------------------------------------------------------------------------
(* Bounds.                                                                 *)

Asked(operation) == operation \in authScope.operations

\* A UUID is never used twice: an address is free once nothing refers to its row.
FreeUser(u) ==
  /\ users[u] = NoUser
  /\ \A c \in Calls : u \notin {call[c].by, call[c].on}

-----------------------------------------------------------------------------
(* The statements: internal/db/auth.sql.go.                                *)

CountUsers == Cardinality({u \in Users : users[u] # NoUser})

EnabledAdmins == {u \in Users : users[u].role = "admin" /\ users[u].enabled}
CountEnabledAdmins == Cardinality(EnabledAdmins)

\* INSERT INTO users: the address is unique.
InsertUser(u, role, enabled) ==
  /\ FreeUser(u)
  /\ users' = [users EXCEPT ![u] = [role |-> role, enabled |-> enabled]]
  /\ UNCHANGED <<sessions, token>>

\* UPDATE users ... RETURNING: no row is an error.
UpdateUserRow(u, role, enabled) ==
  /\ users[u] # NoUser
  /\ users' = [users EXCEPT ![u] = [role |-> role, enabled |-> enabled]]
  /\ UNCHANGED <<sessions, token>>

\* Mutant: the sessions and tokens of a deleted user stay.
DeleteUserOnly(u) ==
  /\ users' = [users EXCEPT ![u] = NoUser]
  /\ UNCHANGED <<sessions, token>>

\* DELETE FROM users: sessions and tokens are deleted with the row.
DeleteUserRow(u) ==
  /\ users' = [users EXCEPT ![u] = NoUser]
  /\ sessions' = sessions \ {u}
  /\ token' = IF token.owner = u THEN NoToken ELSE token

\* INSERT INTO sessions: its user must be there.
CreateSession(u) ==
  /\ users[u] # NoUser
  /\ sessions' = sessions \cup {u}
  /\ UNCHANGED <<users, token>>

InsertToken(u, role) ==
  /\ users[u] # NoUser
  /\ token = NoToken
  /\ token' = [owner |-> u, role |-> role]
  /\ UNCHANGED <<users, sessions>>

EndCall(c) == call' = [call EXCEPT ![c] = NoCall]

-----------------------------------------------------------------------------
(* Setup, login and logout.                                                *)

\* CreateFirstAdmin() counts the users, then hashes the password.
CheckSetup(c) ==
  /\ Asked("setup")
  /\ call[c] = NoCall
  /\ CountUsers = 0
  /\ call' = [call EXCEPT ![c].at = "setup"]
  /\ UNCHANGED <<authScope, users, sessions, token>>

CreateFirstAdmin(c) ==
  /\ call[c].at = "setup"
  /\ \E u \in Users : InsertUser(u, "admin", TRUE)
  /\ EndCall(c)
  /\ UNCHANGED authScope

\* Login() has found an enabled user and the right password.
LoginReads(c, u) ==
  /\ Asked("login")
  /\ call[c] = NoCall
  /\ users[u].enabled
  /\ call' = [call EXCEPT ![c].at = "login", ![c].by = u]
  /\ UNCHANGED <<authScope, users, sessions, token>>

LoginSession(c) ==
  /\ call[c].at = "login"
  /\ CreateSession(call[c].by)
  /\ EndCall(c)
  /\ UNCHANGED authScope

\* Logout(), or the session's time is up.
Logout(u) ==
  /\ Asked("login")
  /\ u \in sessions
  /\ sessions' = sessions \ {u}
  /\ UNCHANGED <<authScope, users, token, call>>

-----------------------------------------------------------------------------
(* Credentials: AuthMiddleware() and RequireRole().                        *)

\* ResolveSession() finds the session's row.
ReadSession(c, u) ==
  /\ call[c] = NoCall
  /\ u \in sessions
  /\ call' = [call EXCEPT ![c].at = "session", ![c].by = u]
  /\ UNCHANGED <<authScope, users, sessions, token>>

\* ResolveAPIToken() finds the token's row, whose role governs.
ReadToken(c) ==
  /\ call[c] = NoCall
  /\ token # NoToken
  /\ call' = [call EXCEPT ![c].at = "token", ![c].by = token.owner, ![c].role = token.role]
  /\ UNCHANGED <<authScope, users, sessions, token>>

\* Both read the user next, and take no user that is disabled.
Grant(c) ==
  LET user == users[call[c].by] IN
  /\ call[c].at \in {"session", "token"}
  /\ user # NoUser
  /\ user.enabled
  /\ call' = [call EXCEPT ![c].at = "granted",
                          ![c].role = IF call[c].at = "session" THEN user.role ELSE @]
  /\ UNCHANGED <<authScope, users, sessions, token>>

\* The routes below ask for the role admin.
RequireRole(c, role) ==
  /\ call[c].at = "granted"
  /\ Rank[call[c].role] >= Rank[role]

-----------------------------------------------------------------------------
(* Users.                                                                  *)

CreateUser(c, u, role, enabled) ==
  /\ Asked("create")
  /\ RequireRole(c, "admin")
  /\ InsertUser(u, role, enabled)
  /\ EndCall(c)
  /\ UNCHANGED authScope

\* The handler reads the row for the fields that the request leaves out.
PatchReads(c, u, patch) ==
  /\ Asked("patch")
  /\ RequireRole(c, "admin")
  /\ users[u] # NoUser
  /\ call' = [call EXCEPT ![c] = [NoCall EXCEPT !.at = "patch", !.on = u,
                                                !.copy = users[u], !.patch = patch]]
  /\ UNCHANGED <<authScope, users, sessions, token>>

WantedRole(c) ==
  IF call[c].patch.role = "keep" THEN call[c].copy.role ELSE call[c].patch.role

WantedEnabled(c) ==
  IF call[c].patch.enabled = "keep" THEN call[c].copy.enabled
                                    ELSE call[c].patch.enabled = "yes"

\* The last enabled admin is neither demoted nor disabled nor deleted.
GuardLastAdmin == CountEnabledAdmins > 1

\* Mutant: disabling an admin is not guarded.
WouldLoseRole(c) == WantedRole(c) # "admin"

WouldLoseAdmin(c) == WantedRole(c) # "admin" \/ ~WantedEnabled(c)

\* UpdateUser() reads the row again, and counts.
PatchGuard(c) ==
  LET existing == users[call[c].on] IN
  /\ call[c].at = "patch"
  /\ existing # NoUser
  /\ existing.role = "admin" /\ WouldLoseAdmin(c) => GuardLastAdmin
  /\ call' = [call EXCEPT ![c].at = "update"]
  /\ UNCHANGED <<authScope, users, sessions, token>>

\* The row is written with the role and the flag, named or not; a password is
\* looked at only then.
UpdateUser(c) ==
  /\ call[c].at = "update"
  /\ UpdateUserRow(call[c].on, WantedRole(c), WantedEnabled(c))
  /\ call' = [call EXCEPT ![c] = IF call[c].patch.password = "none" THEN NoCall
                                 ELSE [call[c] EXCEPT !.at = "password"]]
  /\ UNCHANGED authScope

\* A short password is refused, the others are stored.
UpdatePassword(c) ==
  /\ call[c].at = "password"
  /\ EndCall(c)
  /\ UNCHANGED <<authScope, users, sessions, token>>

DeleteGuard(c, u) ==
  /\ Asked("delete")
  /\ RequireRole(c, "admin")
  /\ users[u] # NoUser
  /\ users[u].role = "admin" => GuardLastAdmin
  /\ call' = [call EXCEPT ![c] = [NoCall EXCEPT !.at = "delete", !.on = u]]
  /\ UNCHANGED <<authScope, users, sessions, token>>

DeleteUser(c) ==
  /\ call[c].at = "delete"
  /\ DeleteUserRow(call[c].on)
  /\ EndCall(c)
  /\ UNCHANGED authScope

-----------------------------------------------------------------------------
(* API tokens.                                                             *)

RoleAllows(owner, role) == Rank[owner] >= Rank[role]

\* CreateAPIToken() reads the owner: a token has at most its owner's role.
MintReads(c, u, role) ==
  /\ Asked("mint")
  /\ RequireRole(c, "admin")
  /\ users[u] # NoUser
  /\ RoleAllows(users[u].role, role)
  /\ call' = [call EXCEPT ![c] = [NoCall EXCEPT !.at = "mint", !.on = u, !.role = role]]
  /\ UNCHANGED <<authScope, users, sessions, token>>

CreateAPIToken(c) ==
  /\ call[c].at = "mint"
  /\ InsertToken(call[c].on, call[c].role)
  /\ EndCall(c)
  /\ UNCHANGED authScope

DeleteAPIToken(c) ==
  /\ Asked("revoke")
  /\ RequireRole(c, "admin")
  /\ token' = NoToken
  /\ EndCall(c)
  /\ UNCHANGED <<authScope, users, sessions>>

\* The token's time is up.
TokenExpires ==
  /\ Asked("revoke")
  /\ token # NoToken
  /\ token' = NoToken
  /\ UNCHANGED <<authScope, users, sessions, call>>

\* A statement fails, the row is gone, or the request is refused or is about
\* something else.
CallEnds(c) ==
  /\ call[c] # NoCall
  /\ EndCall(c)
  /\ UNCHANGED <<authScope, users, sessions, token>>

-----------------------------------------------------------------------------
(* The system.                                                             *)

SetupStep(c) == CheckSetup(c) \/ CreateFirstAdmin(c)

CredentialStep(c) ==
  \/ \E u \in Users : LoginReads(c, u) \/ ReadSession(c, u)
  \/ LoginSession(c)
  \/ ReadToken(c)
  \/ Grant(c)

UserStep(c) ==
  \/ \E u \in Users, role \in authScope.roles, enabled \in BOOLEAN :
       CreateUser(c, u, role, enabled)
  \/ \E u \in Users, patch \in authScope.patches : PatchReads(c, u, patch)
  \/ PatchGuard(c)
  \/ UpdateUser(c)
  \/ UpdatePassword(c)
  \/ \E u \in Users : DeleteGuard(c, u)
  \/ DeleteUser(c)

TokenStep(c) ==
  \/ \E u \in Users, role \in authScope.roles : MintReads(c, u, role)
  \/ CreateAPIToken(c)
  \/ DeleteAPIToken(c)

AuthNext ==
  \/ \E c \in Calls : SetupStep(c) \/ CredentialStep(c) \/ UserStep(c) \/ TokenStep(c)
                      \/ CallEnds(c)
  \/ \E u \in Users : Logout(u)
  \/ TokenExpires

AuthSpec == AuthInit /\ [][AuthNext]_authVars

-----------------------------------------------------------------------------
(* Properties.                                                             *)

\* Once there is a user there is an enabled admin, whatever the requests do at the
\* same time: "do not demote/disable the last enabled admin".
LastAdminStays == CountUsers > 0 => EnabledAdmins # {}
=============================================================================
