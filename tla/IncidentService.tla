--------------------------- MODULE IncidentService ---------------------------
(***************************************************************************)
(* internal/service/incident.go and the queries of internal/db/           *)
(* incidents.sql.go: opening, acknowledging and resolving incidents.       *)
(*                                                                         *)
(* Every call reads the incidents table, decides, and writes in a second   *)
(* statement, outside any transaction, so calls of several goroutines      *)
(* interleave between the two.  A call that decides to write nothing       *)
(* changes no state and is a stuttering step.  Left out: severity and      *)
(* texts, notices, events and the gauge, which no decision reads.          *)
(***************************************************************************)
EXTENDS Integers, Sequences, FiniteSets

CONSTANTS
  Monitors,              \* the rows of the monitors table
  PushMonitors,          \* those whose status heartbeats change as well
  Threads,               \* goroutines calling the service
  None,                  \* no monitor
  MaxIncidents,          \* bound: rows ever inserted
  Faults                 \* whether statements fail and the server restarts

ASSUME IncidentAssumption ==
  /\ PushMonitors \subseteq Monitors
  /\ None \notin Monitors
  /\ MaxIncidents \in Nat
  /\ Faults \in BOOLEAN

VARIABLES
  incidents,             \* the incidents table, ordered by started_at
  call,                  \* the call each thread is in
  deleted                \* monitors that have been deleted

incidentVars == <<incidents, call, deleted>>

\* recovered is auxiliary: the last resolution was that of ResolveForMonitor().
Incident == [monitor : Monitors,
             status : {"open", "acknowledged", "resolved", "deleted"},
             recovered : BOOLEAN]

\* The write a call still has to do; monitor is None in an operator's call.
Call == [step : {"idle", "insert", "acknowledge", "resolve"},
         monitor : Monitors \cup {None},
         id : Nat]

Idle == [step |-> "idle", monitor |-> None, id |-> 0]

IncidentTypeOK ==
  /\ incidents \in Seq(Incident)
  /\ call \in [Threads -> Call]
  /\ \A t \in Threads :
       /\ call[t].step = "idle" <=> call[t] = Idle
       /\ call[t].step = "insert" => call[t].monitor # None
       /\ call[t].step \in {"acknowledge", "resolve"} => call[t].id \in DOMAIN incidents
  /\ deleted \subseteq Monitors
  /\ \A i \in DOMAIN incidents :
       incidents[i].status = "deleted" <=> incidents[i].monitor \in deleted

\* GetOpenIncidentForMonitor: the WHERE clause.
ActiveOf(m) ==
  {i \in DOMAIN incidents :
     incidents[i].monitor = m /\ incidents[i].status \in {"open", "acknowledged"}}

\* Mutant: ORDER BY started_at ASC.
OldestOf(ids) == CHOOSE i \in ids : \A j \in ids : i <= j

\* GetOpenIncidentForMonitor: ORDER BY started_at DESC LIMIT 1.
NewestOf(ids) == CHOOSE i \in ids : \A j \in ids : j <= i

IncidentInit ==
  /\ incidents = <<>>
  /\ call = [t \in Threads |-> Idle]
  /\ deleted = {}

-----------------------------------------------------------------------------
(* The reads, each of which begins a call.                                 *)

Begin(t, c) ==
  /\ call[t] = Idle
  /\ call' = [call EXCEPT ![t] = c]
  /\ UNCHANGED <<incidents, deleted>>

\* Mutant: the incident is inserted without looking for an active one.
OpenUnchecked(t, m) ==
  Begin(t, [step |-> "insert", monitor |-> m, id |-> 0])

\* OpenForMonitor() finds no active incident.
OpenForMonitor(t, m) ==
  /\ ActiveOf(m) = {}
  /\ Begin(t, [step |-> "insert", monitor |-> m, id |-> 0])

\* ResolveForMonitor() finds an active incident.
ResolveForMonitor(t, m) ==
  /\ ActiveOf(m) # {}
  /\ Begin(t, [step |-> "resolve", monitor |-> m, id |-> NewestOf(ActiveOf(m))])

\* Acknowledge() finds the incident neither acknowledged nor resolved.
Acknowledge(t, i) ==
  /\ incidents[i].status = "open"
  /\ Begin(t, [step |-> "acknowledge", monitor |-> None, id |-> i])

\* Resolve() finds the incident not resolved.
Resolve(t, i) ==
  /\ incidents[i].status \in {"open", "acknowledged"}
  /\ Begin(t, [step |-> "resolve", monitor |-> None, id |-> i])

-----------------------------------------------------------------------------
(* The writes, each of which ends a call.                                  *)

End(t) == call' = [call EXCEPT ![t] = Idle]

\* CreateIncident; the foreign key refuses a monitor that is gone.
Insert(t) ==
  /\ call[t].step = "insert"
  /\ Len(incidents) < MaxIncidents
  /\ incidents' = IF call[t].monitor \in deleted THEN incidents
                  ELSE Append(incidents, [monitor |-> call[t].monitor,
                                          status |-> "open", recovered |-> FALSE])
  /\ End(t)
  /\ UNCHANGED deleted

\* UPDATE incidents ... WHERE id = $1, which matches no row once it is gone.
Update(i, status, recovered) ==
  incidents' = IF incidents[i].status = "deleted" THEN incidents
               ELSE [incidents EXCEPT ![i].status = status, ![i].recovered = recovered]

\* AcknowledgeIncident: no condition on the status the row has by now.
WriteAcknowledged(t) ==
  /\ call[t].step = "acknowledge"
  /\ Update(call[t].id, "acknowledged", incidents[call[t].id].recovered)
  /\ End(t)
  /\ UNCHANGED deleted

\* ResolveIncident: no condition on the status either.
WriteResolved(t) ==
  /\ call[t].step = "resolve"
  /\ Update(call[t].id, "resolved", call[t].monitor # None)
  /\ End(t)
  /\ UNCHANGED deleted

-----------------------------------------------------------------------------
(* Faults and the rest of the server.                                      *)

\* A statement of the call fails: the error is returned, or logged by the hook.
CallFails(t) ==
  /\ Faults
  /\ call[t].step # "idle"
  /\ End(t)
  /\ UNCHANGED <<incidents, deleted>>

\* The server stops between the read and the write of any calls and restarts.
Restart ==
  /\ Faults
  /\ call' = [t \in Threads |-> Idle]
  /\ UNCHANGED <<incidents, deleted>>

\* Mutant: the incidents of a deleted monitor stay.
DeleteKeepsIncidents(m) ==
  /\ m \notin deleted
  /\ deleted' = deleted \cup {m}
  /\ UNCHANGED <<incidents, call>>

\* DeleteMonitor: incidents.monitor_id is ON DELETE CASCADE.
DeleteMonitor(m) ==
  /\ m \notin deleted
  /\ deleted' = deleted \cup {m}
  /\ incidents' = [i \in DOMAIN incidents |->
                     IF incidents[i].monitor = m
                     THEN [incidents[i] EXCEPT !.status = "deleted"]
                     ELSE incidents[i]]
  /\ UNCHANGED call

\* No call of the incident hook for m is under way.
HookFree(m) == \A t \in Threads : call[t].monitor # m

\* OnScheduledStatusChange(): the scheduler runs one check, hence one hook, of
\* a monitor at a time; heartbeats of a push monitor come as they like.
HookStep(t, m) ==
  /\ m \in PushMonitors \/ HookFree(m)
  /\ OpenForMonitor(t, m) \/ ResolveForMonitor(t, m)

IncidentNext ==
  \/ \E t \in Threads :
       \/ \E m \in Monitors : HookStep(t, m)
       \/ \E i \in DOMAIN incidents : Acknowledge(t, i) \/ Resolve(t, i)
       \/ Insert(t) \/ WriteAcknowledged(t) \/ WriteResolved(t) \/ CallFails(t)
  \/ Restart
  \/ \E m \in Monitors : DeleteMonitor(m)

IncidentSpec == IncidentInit /\ [][IncidentNext]_incidentVars

-----------------------------------------------------------------------------
(* Properties.                                                             *)

\* An open incident of a scheduled monitor is the newest of that monitor:
\* whatever operators, failing statements and restarts do between the read of
\* OpenForMonitor() and its insert, no second incident is put over one that is
\* still open ("Duplicate suppression", docs/incidents.md).
OpenIsNewest ==
  \A i, j \in DOMAIN incidents :
    /\ incidents[i].status = "open"
    /\ incidents[j].monitor = incidents[i].monitor
    /\ i < j
    => incidents[i].monitor \in PushMonitors

\* When the write of ResolveForMonitor() returns, no incident of a scheduled
\* monitor is left open: resolving the one row the lookup returned is enough,
\* though acknowledgements may bring resolved rows back as acknowledged.
RecoveryCloses ==
  [][\A t \in Threads :
       /\ WriteResolved(t)
       /\ call[t].monitor \in Monitors \ PushMonitors
       => \A i \in DOMAIN incidents' :
            incidents'[i].monitor = call[t].monitor => incidents'[i].status # "open"]_incidentVars
=============================================================================
