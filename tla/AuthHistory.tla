---------------------------- MODULE AuthHistory ----------------------------
(***************************************************************************)
(* AuthService with history variables, which constrain nothing: requests   *)
(* that have counted the admins before one was lost.                       *)
(***************************************************************************)
EXTENDS AuthService

VARIABLES
  outdated,              \* requests that have counted an admin who has gone since
  outrun                 \* whether such a request has taken another admin away

authHistoryVars == <<authVars, outdated, outrun>>

\* UpdateUser() and DeleteUser() between their guard and their write.
Guarded(c) == call[c].at \in {"update", "delete"}

AdminLost == ~(EnabledAdmins \subseteq EnabledAdmins')

AuthHistoryInit ==
  /\ AuthInit
  /\ outdated = {}
  /\ outrun = FALSE

AuthHistoryNext ==
  /\ AuthNext
  /\ outdated' = {c \in Calls : /\ Guarded(c) /\ call'[c] = call[c]
                                /\ c \in outdated \/ AdminLost}
  /\ outrun' = (outrun \/ (AdminLost /\ \E c \in outdated : call'[c] # call[c]))

AuthHistorySpec == AuthHistoryInit /\ [][AuthHistoryNext]_authHistoryVars

-----------------------------------------------------------------------------
(* Properties.                                                             *)

\* "Do not demote/disable the last enabled admin": once there is a user there is
\* an enabled admin, in whatever order requests read, count and write, unless an
\* admin was taken away by a request that had counted one who was gone by then.
AdminRemains == ~outrun => (CountUsers > 0 => EnabledAdmins # {})
=============================================================================
