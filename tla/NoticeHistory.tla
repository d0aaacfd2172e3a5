--------------------------- MODULE NoticeHistory ---------------------------
(***************************************************************************)
(* Notifications with history variables, which constrain nothing: calls on *)
(* an incident that overlap its resolution, and how far the gauge          *)
(* blackgrid_incidents_open is off.                                        *)
(***************************************************************************)
EXTENDS Notifications

VARIABLES
  late,                  \* threads whose incident was resolved since they read it
  overwritten,           \* incidents whose resolution such a thread has overwritten
  drift                  \* what the gauge counts beside the unresolved incidents

noticeHistoryVars == <<noticeVars, late, overwritten, drift>>

CallsOn(t, i) == resolver[t] = i \/ acking[t] = i

\* t writes on i, which has been resolved since t read it.
Overwrites(t, i) ==
  /\ t \in late
  /\ CallsOn(t, i) /\ incident[i] = "resolved"
  /\ ResolveIncident(t) \/ AcknowledgeIncident(t)

\* Incidents that go with their monitor and have not been resolved.
Abandoned == {i \in Unresolved : incident'[i] = "gone"}

NoticeHistoryInit ==
  /\ NotificationsInit
  /\ late = {}
  /\ overwritten = {}
  /\ drift = 0

NoticeHistoryNext ==
  /\ NotificationsNext
  /\ late' = {t \in Resolvers :
       \E i \in Incidents :
         /\ CallsOn(t, i) /\ CallsOn(t, i)'
         /\ t \in late \/ (incident[i] # "resolved" /\ incident'[i] = "resolved")}
  /\ overwritten' = overwritten \cup {i \in Incidents : \E t \in Resolvers : Overwrites(t, i)}
  /\ drift' = IF NoticeServerStops THEN 0 - Cardinality(Unresolved')
              ELSE drift + Cardinality(Abandoned)
                   - IF \E t \in Resolvers, i \in Incidents : Overwrites(t, i) THEN 1 ELSE 0

NoticeHistorySpec ==
  NoticeHistoryInit /\ [][NoticeHistoryNext]_noticeHistoryVars /\ NoticeFairness

-----------------------------------------------------------------------------
(* Properties.                                                             *)

\* "Current number of active incidents" (docs/operations.md): what sets the gauge
\* off is a restart, a monitor deleted with an unresolved incident, and a call that
\* overwrites a resolution it overlapped, and nothing else.
GaugeAgrees == gauge = Cardinality(Unresolved) + drift

\* A resolution is told once, and not before: an incident has a second notice, or is
\* active after one, only where a call has overwritten a resolution it overlapped.
ResolvedIsToldOnce ==
  \A i \in Incidents \ overwritten :
    LET told == {t \in Resolvers : notice[<<i, t>>] # NoNotice} IN
    /\ \A t, u \in told : t = u
    /\ told # {} => incident[i] \in {"resolved", "gone"}
=============================================================================
