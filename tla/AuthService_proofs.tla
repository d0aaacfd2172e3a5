------------------------- MODULE AuthService_proofs -------------------------
(***************************************************************************)
(* Theorems of AuthService and AuthHistory, for any users, requests and    *)
(* scopes.                                                                 *)
(***************************************************************************)
EXTENDS AuthHistory, FiniteSetTheorems, TLAPS

-----------------------------------------------------------------------------
(* Facts about the data.                                                   *)

\* A row that is there is not the absent one.
LEMMA UserFacts ==
  /\ NoUser \notin User
  /\ NoUser.role = "none" /\ NoUser.enabled = FALSE
  /\ NoCall.at = "idle" /\ NoCall.by = Nobody
  /\ \A role \in Roles, enabled \in BOOLEAN : [role |-> role, enabled |-> enabled] \in User
BY DEF NoUser, User, Roles, NoCall

\* What the type invariant says of one row, one request and the scope.
LEMMA TypeFacts ==
  ASSUME AuthTypeOK
  PROVE  /\ authScope.operations \subseteq Operations /\ authScope.roles \subseteq Roles
         /\ authScope.patches \subseteq Patch
         /\ \A u \in Users : users[u] \in User \cup {NoUser}
         /\ \A c \in Calls : call[c] \in Call /\ Formed(call[c])
BY AuthAssumption DEF AuthTypeOK

\* What the steps make of a request.
LEMMA AtProperty ==
  ASSUME NEW r \in Call, NEW at \in Stages, NEW s, s = [r EXCEPT !.at = at]
  PROVE  /\ s \in Call
         /\ s.at = at /\ s.by = r.by /\ s.role = r.role /\ s.on = r.on
         /\ s.copy = r.copy /\ s.patch = r.patch
BY DEF Call

LEMMA NoCallFormed == NoCall \in Call /\ Formed(NoCall)
BY DEF Call, Formed, NoCall, NoPatch, NoUser, Patch, Stages, Roles

-----------------------------------------------------------------------------
(* Type correctness.                                                       *)

\* A step that only moves one request on.
LEMMA MoveType ==
  ASSUME AuthTypeOK, UNCHANGED <<authScope, users, sessions, token>>,
         NEW c \in Calls, NEW r \in Call, Formed(r),
         call' = [call EXCEPT ![c] = r]
  PROVE  AuthTypeOK'
BY DEF AuthTypeOK

\* A request ends, as others change the tables.
LEMMA EndCallType ==
  ASSUME AuthTypeOK, NEW c \in Calls, EndCall(c), UNCHANGED authScope,
         users' \in [Users -> User \cup {NoUser}],
         sessions' \subseteq Users,
         token' \in [owner : Users, role : Roles] \cup {NoToken},
         \A u \in sessions' : users'[u] # NoUser,
         token' # NoToken => users'[token'.owner] # NoUser
  PROVE  AuthTypeOK'
BY NoCallFormed DEF AuthTypeOK, EndCall

\* A row is inserted, or written over.
LEMMA RowType ==
  ASSUME AuthTypeOK, NEW c \in Calls, EndCall(c), UNCHANGED <<authScope, sessions, token>>,
         NEW u \in Users, NEW row \in User, users' = [users EXCEPT ![u] = row]
  PROVE  AuthTypeOK'
<1>1. users' \in [Users -> User \cup {NoUser}] /\ row # NoUser
  BY UserFacts DEF AuthTypeOK
<1>2. sessions' \subseteq Users /\ token' \in [owner : Users, role : Roles] \cup {NoToken}
  BY DEF AuthTypeOK
<1>3. \A v \in sessions' : users'[v] # NoUser
  BY <1>1 DEF AuthTypeOK
<1>4. token' # NoToken => users'[token'.owner] # NoUser
  BY <1>1 DEF AuthTypeOK
<1> QED
  BY <1>1, <1>2, <1>3, <1>4, EndCallType

LEMMA SetupType ==
  ASSUME AuthTypeOK, NEW c \in Calls, SetupStep(c)
  PROVE  AuthTypeOK'
<1>1. CASE CheckSetup(c)
  <2> DEFINE r == [call[c] EXCEPT !.at = "setup"]
  <2>1. r \in Call /\ r.at = "setup"
    BY AtProperty, TypeFacts DEF Stages
  <2>2. call' = [call EXCEPT ![c] = r] /\ UNCHANGED <<authScope, users, sessions, token>>
    BY <1>1 DEF CheckSetup
  <2> HIDE DEF r
  <2>3. Formed(r)
    BY <2>1 DEF Formed
  <2> QED
    BY <2>1, <2>2, <2>3, MoveType
<1>2. CASE CreateFirstAdmin(c)
  <2>1. PICK u \in Users : InsertUser(u, "admin", TRUE)
    BY <1>2 DEF CreateFirstAdmin
  <2>2. [role |-> "admin", enabled |-> TRUE] \in User
    BY UserFacts DEF Roles
  <2> QED
    BY <1>2, <2>1, <2>2, RowType DEF InsertUser, CreateFirstAdmin
<1> QED
  BY <1>1, <1>2 DEF SetupStep

LEMMA CredentialType ==
  ASSUME AuthTypeOK, NEW c \in Calls, CredentialStep(c)
  PROVE  AuthTypeOK'
<1>1. ASSUME NEW u \in Users, LoginReads(c, u)
      PROVE  AuthTypeOK'
  <2> DEFINE r == [call[c] EXCEPT !.at = "login", !.by = u]
  <2>0. call[c] \in Call /\ "login" \in Stages
    BY TypeFacts DEF Stages
  <2>1. r \in Call /\ r.at = "login" /\ r.by = u
    BY <2>0 DEF Call
  <2>2. call' = [call EXCEPT ![c] = r] /\ UNCHANGED <<authScope, users, sessions, token>>
    BY <1>1 DEF LoginReads
  <2> HIDE DEF r
  <2>3. Formed(r)
    BY <2>1 DEF Formed
  <2> QED
    BY <2>1, <2>2, <2>3, MoveType
<1>2. ASSUME NEW u \in Users, ReadSession(c, u)
      PROVE  AuthTypeOK'
  <2> DEFINE r == [call[c] EXCEPT !.at = "session", !.by = u]
  <2>0. call[c] \in Call /\ "session" \in Stages
    BY TypeFacts DEF Stages
  <2>1. r \in Call /\ r.at = "session" /\ r.by = u
    BY <2>0 DEF Call
  <2>2. call' = [call EXCEPT ![c] = r] /\ UNCHANGED <<authScope, users, sessions, token>>
    BY <1>2 DEF ReadSession
  <2> HIDE DEF r
  <2>3. Formed(r)
    BY <2>1 DEF Formed
  <2> QED
    BY <2>1, <2>2, <2>3, MoveType
<1>3. CASE LoginSession(c)
  <2>1. call[c].at = "login" /\ CreateSession(call[c].by) /\ EndCall(c) /\ UNCHANGED authScope
    BY <1>3 DEF LoginSession
  <2>2. call[c].by \in Users
    BY <2>1, TypeFacts DEF Formed
  <2> QED
    BY <2>1, <2>2, EndCallType DEF CreateSession, AuthTypeOK
<1>4. CASE ReadToken(c)
  <2> DEFINE r == [call[c] EXCEPT !.at = "token", !.by = token.owner, !.role = token.role]
  <2>1. token.owner \in Users /\ token.role \in Roles
    BY <1>4 DEF ReadToken, AuthTypeOK
  <2>2. r \in Call /\ r.at = "token" /\ r.by = token.owner /\ r.role = token.role
    BY <2>1, TypeFacts DEF Call, Stages
  <2>3. call' = [call EXCEPT ![c] = r] /\ UNCHANGED <<authScope, users, sessions, token>>
    BY <1>4 DEF ReadToken
  <2> HIDE DEF r
  <2>4. Formed(r)
    BY <2>1, <2>2 DEF Formed
  <2> QED
    BY <2>2, <2>3, <2>4, MoveType
<1>5. CASE Grant(c)
  <2> DEFINE role == IF call[c].at = "session" THEN users[call[c].by].role ELSE call[c].role
             r == [call[c] EXCEPT !.at = "granted", !.role = role]
  <2>1. /\ call[c].at \in {"session", "token"}
        /\ users[call[c].by] # NoUser
        /\ call' = [call EXCEPT ![c] = r]
        /\ UNCHANGED <<authScope, users, sessions, token>>
    BY <1>5 DEF Grant
  <2>2. call[c] \in Call /\ call[c].by \in Users
    BY <2>1, TypeFacts DEF Formed
  <2>3. role \in Roles
    BY <2>1, <2>2, TypeFacts DEF Formed, User
  <2> HIDE DEF role
  <2>4. r \in Call /\ r.at = "granted" /\ r.by = call[c].by /\ r.role = role
    <3>1. "granted" \in Stages
      BY DEF Stages
    <3> QED
      BY <2>2, <2>3, <3>1 DEF Call
  <2> HIDE DEF r
  <2>5. Formed(r)
    BY <2>2, <2>3, <2>4 DEF Formed
  <2> QED
    BY <2>1, <2>4, <2>5, MoveType
<1> QED
  BY <1>1, <1>2, <1>3, <1>4, <1>5 DEF CredentialStep

LEMMA UserType ==
  ASSUME AuthTypeOK, NEW c \in Calls, UserStep(c)
  PROVE  AuthTypeOK'
<1>1. ASSUME NEW u \in Users, NEW role \in authScope.roles, NEW enabled \in BOOLEAN,
             CreateUser(c, u, role, enabled)
      PROVE  AuthTypeOK'
  <2>1. [role |-> role, enabled |-> enabled] \in User
    BY TypeFacts, UserFacts
  <2> QED
    BY <1>1, <2>1, RowType DEF CreateUser, InsertUser
<1>2. ASSUME NEW u \in Users, NEW patch \in authScope.patches, PatchReads(c, u, patch)
      PROVE  AuthTypeOK'
  <2> DEFINE r == [NoCall EXCEPT !.at = "patch", !.on = u, !.copy = users[u], !.patch = patch]
  <2>1. users[u] \in User /\ patch \in Patch /\ "patch" \in Stages
    BY <1>2, TypeFacts DEF PatchReads, Stages
  <2>2. r \in Call /\ r.at = "patch" /\ r.on = u /\ r.copy = users[u]
    BY <2>1, NoCallFormed DEF Call
  <2>3. call' = [call EXCEPT ![c] = r] /\ UNCHANGED <<authScope, users, sessions, token>>
    BY <1>2 DEF PatchReads
  <2> HIDE DEF r
  <2>4. Formed(r)
    BY <2>1, <2>2 DEF Formed
  <2> QED
    BY <2>2, <2>3, <2>4, MoveType
<1>3. CASE PatchGuard(c)
  <2> DEFINE r == [call[c] EXCEPT !.at = "update"]
  <2>1. call[c] \in Call /\ call[c].at = "patch" /\ "update" \in Stages /\ Formed(call[c])
    BY <1>3, TypeFacts DEF PatchGuard, Stages
  <2>2. r \in Call /\ r.at = "update" /\ r.on = call[c].on /\ r.copy = call[c].copy
    BY <2>1, AtProperty
  <2>3. call' = [call EXCEPT ![c] = r] /\ UNCHANGED <<authScope, users, sessions, token>>
    BY <1>3 DEF PatchGuard
  <2> HIDE DEF r
  <2>4. Formed(r)
    BY <2>1, <2>2 DEF Formed
  <2> QED
    BY <2>2, <2>3, <2>4, MoveType
<1>4. CASE UpdateUser(c)
  <2> DEFINE r == IF call[c].patch.password = "none" THEN NoCall
                  ELSE [call[c] EXCEPT !.at = "password"]
             row == [role |-> WantedRole(c), enabled |-> WantedEnabled(c)]
             u == call[c].on
  <2>1. call[c] \in Call /\ call[c].at = "update" /\ "password" \in Stages /\ Formed(call[c])
    BY <1>4, TypeFacts DEF UpdateUser, Stages
  <2>2. u \in Users /\ row \in User
    BY <2>1 DEF Formed, WantedRole, WantedEnabled, User, Call, Patch
  <2>3. /\ users' = [users EXCEPT ![u] = row]
        /\ call' = [call EXCEPT ![c] = r]
        /\ UNCHANGED <<authScope, sessions, token>>
    BY <1>4 DEF UpdateUser, UpdateUserRow
  <2>4. r \in Call /\ Formed(r)
    <3>1. CASE call[c].patch.password = "none"
      BY <3>1, NoCallFormed
    <3>2. CASE call[c].patch.password # "none"
      <4>1. r \in Call /\ r.at = "password" /\ r.on = call[c].on /\ r.copy = call[c].copy
        BY <3>2, <2>1, AtProperty
      <4> HIDE DEF r
      <4> QED
        BY <4>1, <2>1 DEF Formed
    <3> QED
      BY <3>1, <3>2
  <2> HIDE DEF r, row, u
  <2> QED
    BY <2>2, <2>3, <2>4, UserFacts DEF AuthTypeOK
<1>5. CASE UpdatePassword(c)
  BY <1>5, EndCallType DEF UpdatePassword, AuthTypeOK
<1>6. ASSUME NEW u \in Users, DeleteGuard(c, u)
      PROVE  AuthTypeOK'
  <2> DEFINE r == [NoCall EXCEPT !.at = "delete", !.on = u]
  <2>1. "delete" \in Stages
    BY DEF Stages
  <2>2. r \in Call /\ r.at = "delete" /\ r.on = u
    BY <2>1, NoCallFormed DEF Call
  <2>3. call' = [call EXCEPT ![c] = r] /\ UNCHANGED <<authScope, users, sessions, token>>
    BY <1>6 DEF DeleteGuard
  <2> HIDE DEF r
  <2>4. Formed(r)
    BY <2>2 DEF Formed
  <2> QED
    BY <2>2, <2>3, <2>4, MoveType
<1>7. CASE DeleteUser(c)
  <2> DEFINE u == call[c].on
  <2>1. u \in Users
    BY <1>7, TypeFacts DEF DeleteUser, Formed
  <2>2. /\ users' = [users EXCEPT ![u] = NoUser]
        /\ sessions' = sessions \ {u}
        /\ token' = IF token.owner = u THEN NoToken ELSE token
        /\ EndCall(c) /\ UNCHANGED authScope
    BY <1>7 DEF DeleteUser, DeleteUserRow
  <2> HIDE DEF u
  <2> QED
    BY <2>1, <2>2, EndCallType DEF AuthTypeOK
<1> QED
  BY <1>1, <1>2, <1>3, <1>4, <1>5, <1>6, <1>7 DEF UserStep

LEMMA TokenType ==
  ASSUME AuthTypeOK, NEW c \in Calls, TokenStep(c)
  PROVE  AuthTypeOK'
<1>1. ASSUME NEW u \in Users, NEW role \in authScope.roles, MintReads(c, u, role)
      PROVE  AuthTypeOK'
  <2> DEFINE r == [NoCall EXCEPT !.at = "mint", !.on = u, !.role = role]
  <2>1. "mint" \in Stages /\ role \in Roles
    BY TypeFacts DEF Stages
  <2>2. r \in Call /\ r.at = "mint" /\ r.on = u /\ r.role = role
    BY <2>1, NoCallFormed DEF Call
  <2>3. call' = [call EXCEPT ![c] = r] /\ UNCHANGED <<authScope, users, sessions, token>>
    BY <1>1 DEF MintReads
  <2> HIDE DEF r
  <2>4. Formed(r)
    BY <2>1, <2>2 DEF Formed
  <2> QED
    BY <2>2, <2>3, <2>4, MoveType
<1>2. CASE CreateAPIToken(c)
  <2> DEFINE u == call[c].on
             role == call[c].role
  <2>1. u \in Users /\ role \in Roles
    BY <1>2, TypeFacts DEF CreateAPIToken, Formed
  <2>2. /\ users[u] # NoUser
        /\ token' = [owner |-> u, role |-> role]
        /\ EndCall(c) /\ UNCHANGED <<authScope, users, sessions>>
    BY <1>2 DEF CreateAPIToken, InsertToken
  <2> HIDE DEF u, role
  <2> QED
    BY <2>1, <2>2, EndCallType DEF AuthTypeOK
<1>3. CASE DeleteAPIToken(c)
  BY <1>3, EndCallType DEF DeleteAPIToken, AuthTypeOK
<1> QED
  BY <1>1, <1>2, <1>3 DEF TokenStep

\* Users, sessions, the token and the requests stay well formed, and a session
\* or a token never outlives its user's row.
THEOREM AuthTypeCorrect == AuthSpec => []AuthTypeOK
<1>1. AuthInit => AuthTypeOK
  BY NoCallFormed DEF AuthInit, AuthTypeOK
<1>2. AuthTypeOK /\ [AuthNext]_authVars => AuthTypeOK'
  <2> SUFFICES ASSUME AuthTypeOK, AuthNext \/ UNCHANGED authVars
               PROVE  AuthTypeOK'
    OBVIOUS
  <2>1. ASSUME NEW c \in Calls,
               SetupStep(c) \/ CredentialStep(c) \/ UserStep(c) \/ TokenStep(c)
        PROVE  AuthTypeOK'
    BY <2>1, SetupType, CredentialType, UserType, TokenType
  <2>2. ASSUME NEW c \in Calls, CallEnds(c)
        PROVE  AuthTypeOK'
    BY <2>2, EndCallType DEF CallEnds, AuthTypeOK
  <2>3. ASSUME NEW u \in Users, Logout(u)
        PROVE  AuthTypeOK'
    BY <2>3 DEF Logout, AuthTypeOK
  <2>4. CASE TokenExpires
    BY <2>4 DEF TokenExpires, AuthTypeOK
  <2>5. CASE UNCHANGED authVars
    BY <2>5 DEF authVars, AuthTypeOK
  <2> QED
    BY <2>1, <2>2, <2>3, <2>4, <2>5 DEF AuthNext
<1> QED
  BY <1>1, <1>2, PTL DEF AuthSpec

-----------------------------------------------------------------------------
(* The inductive invariant.                                                *)

\* What a request past its guard leaves of the enabled admins: the one that it
\* writes, or another.
Spares(c) ==
  \/ call[c].at = "update" /\ ~WouldLoseAdmin(c)
  \/ \E v \in EnabledAdmins : v # call[c].on

\* A granted request was an enabled user's, so there is an enabled admin
\* with the users; a request that is not outdated still spares one.
GrantHolds == \A c \in Calls : call[c].at = "granted" => EnabledAdmins # {}
GuardHolds == \A c \in Calls \ outdated : Guarded(c) => Spares(c)

AuthInv ==
  /\ AuthTypeOK /\ outrun \in BOOLEAN
  /\ AdminRemains
  /\ ~outrun => GrantHolds /\ GuardHolds

\* What a step does to the history.
HistoryStep ==
  /\ outdated' = {c \in Calls : /\ Guarded(c) /\ call'[c] = call[c]
                                /\ c \in outdated \/ AdminLost}
  /\ outrun' = (outrun \/ (AdminLost /\ \E c \in outdated : call'[c] # call[c]))

\* The history constrains nothing.
LEMMA HistoryRefines == AuthHistorySpec => AuthSpec
<1>1. AuthHistoryInit => AuthInit
  BY DEF AuthHistoryInit
<1>2. [AuthHistoryNext]_authHistoryVars => [AuthNext]_authVars
  BY DEF AuthHistoryNext, authHistoryVars
<1> QED
  BY <1>1, <1>2, PTL DEF AuthHistorySpec, AuthSpec

\* What the two counts say of the table.
LEMMA CountFacts ==
  /\ CountUsers > 0 <=> \E u \in Users : users[u] # NoUser
  /\ CountEnabledAdmins > 1 => \A u \in Users : \E v \in EnabledAdmins : v # u
<1>1. IsFiniteSet(Users)
  BY AuthAssumption
<1>2. CountUsers > 0 <=> \E u \in Users : users[u] # NoUser
  <2> DEFINE S == {u \in Users : users[u] # NoUser}
  <2>1. IsFiniteSet(S)
    BY <1>1, FS_Subset
  <2>2. Cardinality(S) \in Nat /\ (Cardinality(S) = 0 <=> S = {})
    BY <2>1, FS_CardinalityType, FS_EmptySet
  <2>3. Cardinality(S) > 0 <=> S # {}
    <3> HIDE DEF S
    <3> QED BY <2>2
  <2> QED
    BY <2>3 DEF CountUsers
<1>3. ASSUME CountEnabledAdmins > 1, NEW u \in Users, \A v \in EnabledAdmins : v = u
      PROVE  FALSE
  <2>1. IsFiniteSet({u}) /\ Cardinality({u}) = 1
    BY FS_Singleton
  <2>2. EnabledAdmins \subseteq {u}
    BY <1>3
  <2>3. Cardinality(EnabledAdmins) <= 1 /\ Cardinality(EnabledAdmins) \in Nat
    BY <2>1, <2>2, FS_Subset, FS_CardinalityType
  <2> QED
    BY <1>3, <2>3 DEF CountEnabledAdmins
<1> QED
  BY <1>2, <1>3

\* A step of one request that leaves the users table alone.
LEMMA ReadStep ==
  ASSUME AuthInv, AuthTypeOK', UNCHANGED <<authScope, users>>, HistoryStep,
         NEW c \in Calls,
         \A d \in Calls \ {c} : call'[d] = call[d],
         ~outrun =>
           \/ call'[c].at \notin {"granted", "update", "delete"}
           \/ call'[c].at = "granted" /\ EnabledAdmins # {}
           \/ Spares(c)'
  PROVE  AuthInv'
<1>1. CountUsers' = CountUsers /\ EnabledAdmins' = EnabledAdmins
  BY DEF CountUsers, EnabledAdmins
<1>2. ~AdminLost /\ outrun' = outrun
  <2>1. ~AdminLost
    BY <1>1 DEF AdminLost
  <2> QED
    BY <2>1 DEF HistoryStep, AuthInv
<1>3. AdminRemains'
  BY <1>1, <1>2 DEF AuthInv, AdminRemains
<1>4. ASSUME ~outrun
      PROVE  GrantHolds'
  <2> SUFFICES ASSUME NEW d \in Calls, call'[d].at = "granted"
               PROVE  EnabledAdmins # {}
    BY <1>1 DEF GrantHolds
  <2>1. CASE d = c
    BY <1>1, <1>4, <2>1 DEF Spares
  <2>2. CASE d # c
    BY <1>4, <2>2 DEF AuthInv, GrantHolds
  <2> QED
    BY <2>1, <2>2
<1>5. ASSUME ~outrun
      PROVE  GuardHolds'
  <2> SUFFICES ASSUME NEW d \in Calls, d \notin outdated', Guarded(d)'
               PROVE  Spares(d)'
    BY DEF GuardHolds
  <2>1. CASE d = c
    BY <1>5, <2>1 DEF Guarded
  <2>2. CASE d # c
    <3>1. call'[d] = call[d]
      BY <2>2
    <3>2. Guarded(d) /\ d \notin outdated
      BY <3>1, <1>2 DEF Guarded, HistoryStep
    <3>3. Spares(d)
      BY <1>5, <3>2 DEF AuthInv, GuardHolds
    <3> QED
      BY <1>1, <3>1, <3>3 DEF Spares, WouldLoseAdmin, WantedRole, WantedEnabled
  <2> QED
    BY <2>1, <2>2
<1> QED
  BY <1>2, <1>3, <1>4, <1>5 DEF AuthInv

\* A step that writes the users table and leaves an enabled admin.
LEMMA WriteStep ==
  ASSUME AuthInv, AuthTypeOK', UNCHANGED authScope, HistoryStep,
         NEW c \in Calls,
         \A d \in Calls \ {c} : call'[d] = call[d],
         call'[c].at \in {"idle", "password"},
         ~outrun' /\ (EnabledAdmins # {} \/ \E u \in Users : users'[u] # NoUser)
           => EnabledAdmins' # {}
  PROVE  AuthInv'
<1>1. AdminRemains'
  <2>1. CountUsers' > 0 <=> \E u \in Users : users'[u] # NoUser
    <3>1. (CountUsers > 0 <=> \E u \in Users : users[u] # NoUser)'
      BY CountFacts, PTL
    <3> QED
      BY <3>1
  <2> QED
    BY <2>1 DEF AdminRemains
<1>2. ~outrun' => ~outrun
  BY DEF HistoryStep
<1>3. ASSUME ~outrun'
      PROVE  GrantHolds'
  <2> SUFFICES ASSUME NEW d \in Calls, call'[d].at = "granted"
               PROVE  EnabledAdmins' # {}
    BY DEF GrantHolds
  <2>1. call[d].at = "granted"
    OBVIOUS
  <2> QED
    BY <1>2, <1>3, <2>1 DEF AuthInv, GrantHolds
<1>4. ASSUME ~outrun'
      PROVE  GuardHolds'
  <2> SUFFICES ASSUME NEW d \in Calls, d \notin outdated', Guarded(d)'
               PROVE  Spares(d)'
    BY DEF GuardHolds
  <2>1. d # c /\ call'[d] = call[d]
    BY DEF Guarded
  <2>2. Guarded(d) /\ d \notin outdated /\ ~AdminLost
    BY <2>1 DEF Guarded, HistoryStep
  <2>3. Spares(d) /\ EnabledAdmins \subseteq EnabledAdmins'
    BY <1>2, <1>4, <2>2 DEF AuthInv, GuardHolds, AdminLost
  <2> QED
    BY <2>1, <2>3 DEF Spares, WouldLoseAdmin, WantedRole, WantedEnabled
<1>5. outrun' \in BOOLEAN
  BY DEF HistoryStep, AuthInv, AdminLost
<1> QED
  BY <1>1, <1>3, <1>4, <1>5 DEF AuthInv

\* What the inserts, updates and deletes leave of the enabled admins.
LEMMA AdminsLeft ==
  ASSUME AuthInv, HistoryStep, ~outrun', NEW c \in Calls,
         \/ CreateFirstAdmin(c)
         \/ \E u \in Users, role \in authScope.roles, enabled \in BOOLEAN :
              CreateUser(c, u, role, enabled)
         \/ UpdateUser(c)
         \/ DeleteUser(c),
         EnabledAdmins # {} \/ \E u \in Users : users'[u] # NoUser
  PROVE  EnabledAdmins' # {}
<1> DEFINE Admin(row) == row.role = "admin" /\ row.enabled
<1>1. EnabledAdmins' = {u \in Users : Admin(users'[u])} /\ EnabledAdmins = {u \in Users : Admin(users[u])}
  BY DEF EnabledAdmins
<1>2. ~outrun
  BY DEF HistoryStep
<1>3. users \in [Users -> User \cup {NoUser}] /\ ~Admin(NoUser)
  BY UserFacts DEF AuthInv, AuthTypeOK
<1>4. (\E u \in Users : users[u] # NoUser) => EnabledAdmins # {}
  BY <1>2, CountFacts DEF AuthInv, AdminRemains
<1>5. CASE CreateFirstAdmin(c)
  <2>1. PICK u \in Users : users' = [users EXCEPT ![u] = [role |-> "admin", enabled |-> TRUE]]
    BY <1>5 DEF CreateFirstAdmin, InsertUser
  <2> QED
    BY <1>1, <1>3, <2>1
<1>6. ASSUME NEW u \in Users, NEW role \in authScope.roles, NEW enabled \in BOOLEAN,
             CreateUser(c, u, role, enabled)
      PROVE  EnabledAdmins' # {}
  <2>1. /\ call[c].at = "granted"
        /\ users[u] = NoUser
        /\ users' = [users EXCEPT ![u] = [role |-> role, enabled |-> enabled]]
    BY <1>6 DEF CreateUser, RequireRole, InsertUser, FreeUser
  <2>2. EnabledAdmins # {}
    BY <1>2, <2>1 DEF AuthInv, GrantHolds
  <2>3. PICK v \in Users : Admin(users[v])
    BY <1>1, <2>2
  <2>4. v # u
    BY <1>3, <2>1, <2>3
  <2> HIDE DEF Admin
  <2> QED
    BY <1>1, <1>3, <2>1, <2>3, <2>4
\* A request that has been outdated may take no admin away.
<1>7. ASSUME c \in outdated, call'[c] # call[c], EnabledAdmins # {}
      PROVE  EnabledAdmins' # {}
  <2>1. ~AdminLost
    BY <1>7 DEF HistoryStep
  <2> QED
    BY <1>7, <2>1 DEF AdminLost
<1>8. call[c] \in Call /\ Formed(call[c]) /\ call \in [Calls -> Call]
  BY TypeFacts DEF AuthInv, AuthTypeOK
<1>9. CASE UpdateUser(c)
  <2> DEFINE u == call[c].on
             row == [role |-> WantedRole(c), enabled |-> WantedEnabled(c)]
  <2>1. call[c].at = "update" /\ users[u] # NoUser /\ users' = [users EXCEPT ![u] = row]
    BY <1>9 DEF UpdateUser, UpdateUserRow
  <2>2. u \in Users
    BY <1>8, <2>1 DEF Formed
  <2>3. EnabledAdmins # {}
    BY <1>4, <2>1, <2>2
  <2>4. CASE c \in outdated
    <3>1. call'[c].at # "update"
      <4>1. CASE call[c].patch.password = "none"
        BY <1>8, <1>9, <4>1, UserFacts DEF UpdateUser
      <4>2. CASE call[c].patch.password # "none"
        <5>1. call'[c] = [call[c] EXCEPT !.at = "password"]
          BY <1>8, <1>9, <4>2 DEF UpdateUser
        <5> QED
          BY <1>8, <5>1 DEF Call
      <4> QED
        BY <4>1, <4>2
    <3> QED
      BY <1>7, <2>1, <2>3, <2>4, <3>1
  <2>5. CASE c \notin outdated
    <3>1. Spares(c)
      BY <1>2, <2>1, <2>5 DEF AuthInv, GuardHolds, Guarded
    <3>2. CASE ~WouldLoseAdmin(c)
      <4>1. Admin(row)
        BY <3>2 DEF WouldLoseAdmin
      <4> HIDE DEF Admin, u, row
      <4> QED BY <1>1, <1>3, <2>1, <2>2, <4>1
    <3>3. ASSUME NEW v \in EnabledAdmins, v # u
          PROVE  EnabledAdmins' # {}
      <4> HIDE DEF Admin, u, row
      <4> QED BY <1>1, <1>3, <2>1, <3>3
    <3> QED
      BY <3>1, <3>2, <3>3 DEF Spares
  <2> QED
    BY <2>4, <2>5
<1>10. CASE DeleteUser(c)
  <2> DEFINE u == call[c].on
  <2>1. call[c].at = "delete" /\ users' = [users EXCEPT ![u] = NoUser]
    BY <1>10 DEF DeleteUser, DeleteUserRow
  <2>2. u \in Users
    BY <1>8, <2>1 DEF Formed
  <2>3. EnabledAdmins # {}
    <3>1. ASSUME NEW x \in Users, users'[x] # NoUser
          PROVE  users[x] # NoUser
      BY <1>3, <2>1, <3>1
    <3> QED
      BY <1>4, <3>1
  <2>4. CASE c \in outdated
    <3>1. call'[c].at # "delete"
      BY <1>8, <1>10, UserFacts DEF DeleteUser, EndCall
    <3> QED
      BY <1>7, <2>1, <2>3, <2>4, <3>1
  <2>5. CASE c \notin outdated
    <3>1. PICK v \in EnabledAdmins : v # u
      BY <1>2, <2>1, <2>5 DEF AuthInv, GuardHolds, Guarded, Spares
    <3> HIDE DEF Admin, u
    <3> QED BY <1>1, <1>3, <2>1, <3>1
  <2> QED
    BY <2>4, <2>5
<1> QED
  BY <1>5, <1>6, <1>9, <1>10

LEMMA AuthStep ==
  ASSUME AuthInv, AuthTypeOK', HistoryStep, NEW c \in Calls,
         SetupStep(c) \/ CredentialStep(c) \/ UserStep(c) \/ TokenStep(c) \/ CallEnds(c)
  PROVE  AuthInv'
<1>1. call \in [Calls -> Call] /\ NoCall.at = "idle"
  BY UserFacts DEF AuthInv, AuthTypeOK
<1>2. ASSUME UNCHANGED <<authScope, users>>, NEW r,
             call' = [call EXCEPT ![c] = r], r.at \notin {"granted", "update", "delete"}
      PROVE  AuthInv'
  BY <1>1, <1>2, ReadStep
<1>3. CASE Grant(c)
  <2>1. /\ UNCHANGED <<authScope, users>>
        /\ \A d \in Calls \ {c} : call'[d] = call[d]
        /\ call[c].at \in {"session", "token"} /\ users[call[c].by] # NoUser
    BY <1>1, <1>3 DEF Grant
  <2>2. call'[c].at = "granted"
    BY <1>1, <1>3 DEF Grant, Call
  <2>3. call[c].by \in Users
    BY <2>1, TypeFacts DEF AuthInv, Formed
  <2>4. ~outrun => EnabledAdmins # {}
    BY <2>1, <2>3, CountFacts DEF AuthInv, AdminRemains
  <2> QED
    BY <2>1, <2>2, <2>4, ReadStep
\* An admin who is counted twice is not the only one; another's role makes two.
<1>other. ASSUME ~outrun, NEW u \in Users, users[u] # NoUser,
              users[u].role = "admin" => CountEnabledAdmins > 1
       PROVE  \E v \in EnabledAdmins : v # u
  <2>1. CASE users[u].role = "admin"
    BY <1>other, <2>1, CountFacts
  <2>2. CASE users[u].role # "admin"
    <3>1. PICK v \in EnabledAdmins : TRUE
      BY <1>other, CountFacts DEF AuthInv, AdminRemains
    <3> QED
      BY <2>2, <3>1 DEF EnabledAdmins
  <2> QED
    BY <2>1, <2>2
<1>4. CASE PatchGuard(c)
  <2>1. /\ UNCHANGED <<authScope, users>>
        /\ \A d \in Calls \ {c} : call'[d] = call[d]
        /\ call[c].at = "patch" /\ users[call[c].on] # NoUser
        /\ users[call[c].on].role = "admin" /\ WouldLoseAdmin(c) => CountEnabledAdmins > 1
    BY <1>1, <1>4 DEF PatchGuard, GuardLastAdmin
  <2>2. /\ call'[c].at = "update" /\ call'[c].on = call[c].on
        /\ call'[c].copy = call[c].copy /\ call'[c].patch = call[c].patch
    BY <1>1, <1>4 DEF PatchGuard, Call
  <2>3. WouldLoseAdmin(c)' = WouldLoseAdmin(c) /\ EnabledAdmins' = EnabledAdmins
    BY <2>1, <2>2 DEF WouldLoseAdmin, WantedRole, WantedEnabled, EnabledAdmins
  <2>4. call[c].on \in Users
    BY <2>1, TypeFacts DEF AuthInv, Formed
  <2>5. ~outrun /\ WouldLoseAdmin(c) => \E v \in EnabledAdmins : v # call[c].on
    BY <1>other, <2>1, <2>4
  <2>6. ~outrun => Spares(c)'
    BY <2>2, <2>3, <2>5 DEF Spares
  <2> QED
    BY <2>1, <2>6, ReadStep
<1>5. ASSUME NEW u \in Users, DeleteGuard(c, u)
      PROVE  AuthInv'
  <2>1. /\ UNCHANGED <<authScope, users>>
        /\ \A d \in Calls \ {c} : call'[d] = call[d]
        /\ users[u] # NoUser
        /\ users[u].role = "admin" => CountEnabledAdmins > 1
        /\ call'[c] = [NoCall EXCEPT !.at = "delete", !.on = u]
    BY <1>1, <1>5 DEF DeleteGuard, GuardLastAdmin
  <2>2. call'[c].on = u /\ EnabledAdmins' = EnabledAdmins
    BY <2>1 DEF NoCall, EnabledAdmins
  <2>3. ~outrun => Spares(c)'
    BY <1>other, <2>1, <2>2 DEF Spares
  <2> QED
    BY <2>1, <2>3, ReadStep
<1>6. CASE \/ CreateFirstAdmin(c)
           \/ \E u \in Users, role \in authScope.roles, enabled \in BOOLEAN :
                CreateUser(c, u, role, enabled)
           \/ UpdateUser(c)
           \/ DeleteUser(c)
  <2>1. ~outrun' /\ (EnabledAdmins # {} \/ \E u \in Users : users'[u] # NoUser)
          => EnabledAdmins' # {}
    BY <1>6, AdminsLeft
  <2>2. UNCHANGED authScope
    BY <1>6 DEF CreateFirstAdmin, CreateUser, UpdateUser, DeleteUser
  <2>3. PICK r : call' = [call EXCEPT ![c] = r] /\ r.at \in {"idle", "password"}
    <3>1. ASSUME EndCall(c) PROVE call' = [call EXCEPT ![c] = NoCall]
      BY <3>1 DEF EndCall
    <3>2. CASE UpdateUser(c) /\ call[c].patch.password # "none"
      <4>1. call' = [call EXCEPT ![c] = [call[c] EXCEPT !.at = "password"]]
        BY <3>2 DEF UpdateUser
      <4>2. [call[c] EXCEPT !.at = "password"].at = "password"
        BY <1>1 DEF Call
      <4> QED
        BY <4>1, <4>2
    <3>3. CASE UpdateUser(c) /\ call[c].patch.password = "none"
      BY <1>1, <3>3 DEF UpdateUser
    <3>4. CASE ~UpdateUser(c)
      BY <1>1, <1>6, <3>1, <3>4 DEF CreateFirstAdmin, CreateUser, DeleteUser
    <3> QED
      BY <3>2, <3>3, <3>4
  <2>4. call'[c] = r /\ \A d \in Calls \ {c} : call'[d] = call[d]
    BY <1>1, <2>3
  <2> QED
    BY <2>1, <2>2, <2>3, <2>4, WriteStep
<1>7. CASE CheckSetup(c)
  <2>1. [call[c] EXCEPT !.at = "setup"].at = "setup"
    BY <1>1 DEF Call
  <2> QED
    BY <1>2, <1>7, <2>1 DEF CheckSetup
<1>8. ASSUME NEW u \in Users, LoginReads(c, u) \/ ReadSession(c, u)
      PROVE  AuthInv'
  <2>1. /\ [call[c] EXCEPT !.at = "login", !.by = u].at = "login"
        /\ [call[c] EXCEPT !.at = "session", !.by = u].at = "session"
    BY <1>1 DEF Call
  <2> QED
    BY <1>2, <1>8, <2>1 DEF LoginReads, ReadSession
<1>9. CASE ReadToken(c)
  <2>1. [call[c] EXCEPT !.at = "token", !.by = token.owner, !.role = token.role].at = "token"
    BY <1>1 DEF Call
  <2> QED
    BY <1>2, <1>9, <2>1 DEF ReadToken
<1>10. CASE LoginSession(c) \/ UpdatePassword(c) \/ CreateAPIToken(c) \/ DeleteAPIToken(c)
            \/ CallEnds(c)
  BY <1>1, <1>2, <1>10 DEF LoginSession, CreateSession, UpdatePassword, CreateAPIToken,
     InsertToken, DeleteAPIToken, CallEnds, EndCall
<1>11. ASSUME NEW u \in Users, NEW patch, PatchReads(c, u, patch)
       PROVE  AuthInv'
  <2>1. [NoCall EXCEPT !.at = "patch", !.on = u, !.copy = users[u], !.patch = patch].at = "patch"
    BY DEF NoCall
  <2> QED
    BY <1>2, <1>11, <2>1 DEF PatchReads
<1>12. ASSUME NEW u \in Users, NEW role, MintReads(c, u, role)
       PROVE  AuthInv'
  <2>1. [NoCall EXCEPT !.at = "mint", !.on = u, !.role = role].at = "mint"
    BY DEF NoCall
  <2> QED
    BY <1>2, <1>12, <2>1 DEF MintReads
<1> QED
  BY <1>3, <1>4, <1>5, <1>6, <1>7, <1>8, <1>9, <1>10, <1>11, <1>12
     DEF SetupStep, CredentialStep, UserStep, TokenStep

\* A step that no request takes.
LEMMA AuthIdle ==
  ASSUME AuthInv, AuthTypeOK', UNCHANGED <<authScope, users, call>>,
         HistoryStep \/ UNCHANGED <<outdated, outrun>>
  PROVE  AuthInv'
<1>1. CountUsers' = CountUsers /\ EnabledAdmins' = EnabledAdmins
  BY DEF CountUsers, EnabledAdmins
<1>2. ~AdminLost
  BY <1>1 DEF AdminLost
<1>3. outrun' = outrun
  BY <1>2 DEF HistoryStep, AuthInv
<1>4. \A c \in Calls : Spares(c)' = Spares(c) /\ Guarded(c)' = Guarded(c)
  BY <1>1 DEF Spares, WouldLoseAdmin, WantedRole, WantedEnabled, Guarded
<1>5. \A c \in Calls : Guarded(c) /\ c \in outdated => c \in outdated'
  BY DEF HistoryStep
<1> QED
  BY <1>1, <1>3, <1>4, <1>5 DEF AuthInv, AdminRemains, GrantHolds, GuardHolds

LEMMA AuthInductive == AuthHistorySpec => []AuthInv
<1>1. AuthHistoryInit => AuthInv
  <2> SUFFICES ASSUME AuthHistoryInit
               PROVE  AuthInv
    OBVIOUS
  <2>1. AuthTypeOK
    BY NoCallFormed DEF AuthHistoryInit, AuthInit, AuthTypeOK
  <2>2. \A u \in Users : users[u] = NoUser
    BY DEF AuthHistoryInit, AuthInit
  <2>3. AdminRemains
    BY <2>2, CountFacts DEF AdminRemains
  <2>4. \A c \in Calls : call[c].at = "idle"
    BY UserFacts DEF AuthHistoryInit, AuthInit
  <2> QED
    BY <2>1, <2>3, <2>4 DEF AuthInv, GrantHolds, GuardHolds, Guarded, AuthHistoryInit
<1>2. AuthTypeOK' /\ AuthInv /\ [AuthHistoryNext]_authHistoryVars => AuthInv'
  <2> SUFFICES ASSUME AuthTypeOK', AuthInv, AuthHistoryNext \/ UNCHANGED authHistoryVars
               PROVE  AuthInv'
    OBVIOUS
  <2>1. CASE UNCHANGED authHistoryVars
    BY <2>1, AuthIdle DEF authHistoryVars, authVars
  <2>2. CASE AuthHistoryNext
    <3>1. AuthNext /\ HistoryStep
      BY <2>2 DEF AuthHistoryNext, HistoryStep
    <3>2. ASSUME NEW c \in Calls,
                 SetupStep(c) \/ CredentialStep(c) \/ UserStep(c) \/ TokenStep(c) \/ CallEnds(c)
          PROVE  AuthInv'
      BY <3>1, <3>2, AuthStep
    <3>3. ASSUME UNCHANGED <<authScope, users, call>>
          PROVE  AuthInv'
      BY <3>1, <3>3, AuthIdle
    <3> QED
      BY <3>1, <3>2, <3>3 DEF AuthNext, Logout, TokenExpires
  <2> QED
    BY <2>1, <2>2
<1>3. AuthHistorySpec => []AuthTypeOK
  BY AuthTypeCorrect, HistoryRefines
<1> QED
  BY <1>1, <1>2, <1>3, PTL DEF AuthHistorySpec

\* guardLastAdmin(): however requests interleave, users are left without an
\* enabled admin only once a request that counted an admin who has gone since
\* has taken another away.
THEOREM AdminStays == AuthHistorySpec => []AdminRemains
BY AuthInductive, PTL DEF AuthInv
=============================================================================
