-------------------------- MODULE MonitorLifecycle --------------------------
(***************************************************************************)
(* The status of monitors and the incidents that follow it: executeCheck() *)
(* of internal/monitor/scheduler.go, the handlers of internal/api/         *)
(* handlers/monitor.go that write monitors, and the incident hook, on top  *)
(* of IncidentService.                                                     *)
(*                                                                         *)
(* Which check runs when is CheckDispatch, which MonitorScheduler          *)
(* implements.  A check works on the copy of the row the due query read;   *)
(* a handler works on a copy too; both write the whole row back.           *)
(* Abstracted: a row is its enabled, status and retry_count columns, the    *)
(* history of results is the number of latest failures, probes return any  *)
(* result.  monitor_type is left out: all it decides here is that a test   *)
(* of a push monitor is refused, and a PATCH may change it at any time.    *)
(***************************************************************************)
EXTENDS IncidentService

CONSTANTS
  MaxRetry,              \* bound: the largest retry_count a PATCH sets
  Ops                    \* the operator requests and heartbeats that occur

\* The check of monitor m is thread m; the other threads are requests.
Requests == Threads \ Monitors

RowWrites == {"pause", "resume", "patch", "test", "heartbeat"}

ASSUME LifecycleAssumption ==
  /\ Monitors \subseteq Threads
  /\ MaxRetry \in Nat \ {0}
  /\ Ops \subseteq RowWrites \cup {"acknowledge", "resolve", "delete"}

VARIABLES
  row,                   \* the monitors table
  failures,              \* down results since the last other one, up to MaxRetry
  listed,                \* CheckDispatch: the due list still to be handled
  phase,                 \* CheckDispatch: where each monitor is on its way
  fetched,               \* the rows of the due list
  check,                 \* the job and progress of each monitor's check
  request                \* the row write each request is in

INSTANCE CheckDispatch

checkVars == <<listed, phase, fetched, check>>
lifecycleVars == <<incidentVars, row, failures, checkVars, request>>

Results == {"up", "degraded", "down"}
Row == [enabled : BOOLEAN, status : Results \cup {"unknown", "paused"}, retry : 1..MaxRetry]
NoRow == [enabled |-> FALSE, status |-> "unknown", retry |-> 1]

NoCheck == [at |-> "none", copy |-> NoRow, status |-> "unknown"]
Returning == [NoCheck EXCEPT !.at = "done"]
NoRequest == [op |-> "none", at |-> "idle", monitor |-> None, copy |-> NoRow,
              status |-> "unknown"]

LifecycleTypeOK ==
  /\ IncidentTypeOK
  /\ DispatchTypeOK
  /\ row \in [Monitors -> Row]
  /\ failures \in [Monitors -> 0..MaxRetry]
  /\ fetched \in [Monitors -> Row]
  /\ \A m \in Monitors :
       /\ check[m].at \in {"none", "waiting", "ran", "decided", "written", "done"}
       /\ check[m].copy \in Row
       /\ check[m].status \in Results \cup {"unknown"}
       /\ (check[m].at = "none") = (phase[m] = "idle")
       /\ (check[m].at = "waiting") = (phase[m] = "queued")
  /\ \A r \in Requests :
       /\ request[r].op \in RowWrites \cup {"none"}
       /\ request[r].at \in {"idle", "read", "stored", "recorded"}
       /\ request[r].copy \in Row
       /\ request[r].status \in Results \cup {"unknown", "paused"}
       /\ (request[r].at = "idle") = (request[r] = NoRequest)

LifecycleInit ==
  /\ IncidentInit
  /\ DispatchInit
  /\ row \in [Monitors -> Row]
  /\ \A m \in Monitors : row[m].status = IF row[m].enabled THEN "unknown" ELSE "paused"
  /\ failures = [m \in Monitors |-> 0]
  /\ fetched = [m \in Monitors |-> NoRow]
  /\ check = [m \in Monitors |-> NoCheck]
  /\ request = [r \in Requests |-> NoRequest]

-----------------------------------------------------------------------------
(* Operators of several handlers.                                          *)

\* CreateMonitorResult, and what GetMonitorResults will count.
StoredResult(m, result) ==
  [failures EXCEPT ![m] =
     IF result # "down" THEN 0 ELSE IF @ < MaxRetry THEN @ + 1 ELSE @]

\* Mutant: only a monitor that is down gets an incident.
OnlyDownOpens(t, m, newStatus) ==
  \/ newStatus = "down" /\ OpenForMonitor(t, m)
  \/ newStatus = "up" /\ ResolveForMonitor(t, m)
  \/ newStatus = "degraded" /\ UNCHANGED incidentVars

\* OnScheduledStatusChange(): the lookup it begins with, by thread t.
OnScheduledStatusChange(t, m, newStatus) ==
  \/ newStatus \in {"down", "degraded"} /\ OpenForMonitor(t, m)
  \/ newStatus = "up" /\ ResolveForMonitor(t, m)
  \/ /\ (newStatus = "up") = (ActiveOf(m) = {})
     /\ UNCHANGED incidentVars

\* Mutant: the retry threshold is a number of failures before this one.
NewStatusAfterRetries(copy, result, n) ==
  IF result = "down" /\ copy.status # "down" /\ n <= copy.retry THEN "degraded" ELSE result

\* The retry logic of executeCheck(): n failures in a row, this one included.
NewStatus(copy, result, n) ==
  IF result = "down" /\ copy.status \in {"up", "degraded", "unknown"} /\ n < copy.retry
  THEN "degraded" ELSE result

-----------------------------------------------------------------------------
(* The check of m.                                                         *)

\* GetMonitorsDueForCheck: any of the rows it selects may be due.
Fetch ==
  /\ List
  /\ \A m \in listed' : m \notin deleted /\ row[m].enabled /\ row[m].status # "paused"
  /\ fetched' = [m \in Monitors |-> IF m \in listed' THEN row[m] ELSE NoRow]
  /\ UNCHANGED <<incidentVars, row, failures, check, request>>

\* The loop passes over m, which is in progress or finds the channel full.
Skip(m) ==
  /\ PassOver(m)
  /\ fetched' = [fetched EXCEPT ![m] = NoRow]
  /\ UNCHANGED <<incidentVars, row, failures, check, request>>

\* The fetched row of m goes into the channel.
Enqueue(m) ==
  /\ Claim(m)
  /\ check' = [check EXCEPT ![m] = [NoCheck EXCEPT !.at = "waiting", !.copy = fetched[m]]]
  /\ fetched' = [fetched EXCEPT ![m] = NoRow]
  /\ UNCHANGED <<incidentVars, row, failures, request>>

\* runner.Run(): the probe and the insert of its result.
Run(m) ==
  /\ Start(m)
  /\ m \notin deleted
  /\ \E result \in Results :
       /\ failures' = StoredResult(m, result)
       /\ check' = [check EXCEPT ![m].at = "ran", ![m].status = result]
  /\ UNCHANGED <<incidentVars, row, fetched, request>>

\* runner.Run() returns an error, as it does once the monitor is gone.
RunFails(m) ==
  /\ Start(m)
  /\ Faults \/ m \in deleted
  /\ check' = [check EXCEPT ![m] = Returning]
  /\ UNCHANGED <<incidentVars, row, failures, fetched, request>>

\* The read of the latest results, whose error counts as no failures.
Decide(m) ==
  /\ check[m].at = "ran"
  /\ \E n \in {failures[m]} \cup (IF Faults THEN {0} ELSE {}) :
       check' = [check EXCEPT ![m].at = "decided",
                              ![m].status = NewStatus(check[m].copy, @, n)]
  /\ UNCHANGED <<incidentVars, row, failures, listed, phase, fetched, request>>

\* Mutant: the update writes the status column only.
WriteStatusOnly(m) ==
  /\ check[m].at = "decided"
  /\ m \notin deleted
  /\ row' = [row EXCEPT ![m].status = check[m].status]
  /\ check' = [check EXCEPT ![m] = IF check[m].status = check[m].copy.status THEN Returning
                                   ELSE [NoCheck EXCEPT !.at = "written", !.status = check[m].status]]
  /\ UNCHANGED <<incidentVars, failures, listed, phase, fetched, request>>

\* UpdateMonitor with every column of the copy but the status.
WriteRow(m) ==
  /\ check[m].at = "decided"
  /\ m \notin deleted
  /\ row' = [row EXCEPT ![m] = [check[m].copy EXCEPT !.status = check[m].status]]
  /\ check' = [check EXCEPT ![m] = IF check[m].status = check[m].copy.status THEN Returning
                                   ELSE [NoCheck EXCEPT !.at = "written", !.status = check[m].status]]
  /\ UNCHANGED <<incidentVars, failures, listed, phase, fetched, request>>

\* UpdateMonitor returns an error, as it does once the row is gone.
WriteRowFails(m) ==
  /\ check[m].at = "decided"
  /\ Faults \/ m \in deleted
  /\ check' = [check EXCEPT ![m] = Returning]
  /\ UNCHANGED <<incidentVars, row, failures, listed, phase, fetched, request>>

\* s.hook.OnScheduledStatusChange(...).
CheckHook(m) ==
  /\ check[m].at = "written"
  /\ OnScheduledStatusChange(m, m, check[m].status)
  /\ check' = [check EXCEPT ![m] = Returning]
  /\ UNCHANGED <<row, failures, listed, phase, fetched, request>>

\* The hook has returned, the worker gives m back.
CheckReturns(m) ==
  /\ check[m].at = "done"
  /\ call[m] = Idle
  /\ Finish(m)
  /\ check' = [check EXCEPT ![m] = NoCheck]
  /\ UNCHANGED <<incidentVars, row, failures, fetched, request>>

-----------------------------------------------------------------------------
(* The handlers.                                                           *)

Free(r) == request[r] = NoRequest /\ call[r] = Idle

\* GetMonitor, or GetMonitorByPushTokenHash for a heartbeat.
ReadRow(r, op, m) ==
  /\ op \in Ops
  /\ Free(r)
  /\ m \notin deleted
  /\ op = "heartbeat" => m \in PushMonitors /\ row[m].enabled
  /\ request' = [request EXCEPT ![r] =
       [op |-> op, at |-> "read", monitor |-> m, copy |-> row[m], status |-> row[m].status]]
  /\ UNCHANGED <<incidentVars, row, failures, checkVars>>

Return(r) == request' = [request EXCEPT ![r] = NoRequest]

\* CreateMonitorResult in TestMonitor() and in ReceivePushHeartbeat(), which
\* ignores its error.
StoreResult(r) ==
  /\ request[r].at = "read"
  /\ request[r].op \in {"test", "heartbeat"}
  /\ request[r].monitor \notin deleted
  /\ \E result \in Results :
       /\ \/ failures' = StoredResult(request[r].monitor, result)
          \/ Faults /\ request[r].op = "heartbeat" /\ UNCHANGED failures
       /\ request' = [request EXCEPT ![r].at = "stored", ![r].status = result]
  /\ UNCHANGED <<incidentVars, row, checkVars>>

Off(copy) == [copy EXCEPT !.enabled = FALSE, !.status = "paused"]
On(copy, status) == [copy EXCEPT !.enabled = TRUE, !.status = status]

\* UpdateMonitor(): the request may name enabled, retry_count, both or neither.
Patched(copy) ==
  {[c EXCEPT !.retry = n] :
     c \in {copy, Off(copy), On(copy, IF copy.status = "paused" THEN "unknown" ELSE copy.status)},
     n \in 1..MaxRetry}

\* Mutant: a monitor is taken to be up when it is resumed.
EditedOptimistic(op, copy) ==
  CASE op = "pause"  -> {Off(copy)}
    [] op = "resume" -> {On(copy, "up")}
    [] op = "patch"  -> Patched(copy)
    [] op = "test"   -> {copy}

\* The rows a handler may write, made from the copy it read: setStatus(),
\* UpdateMonitor(), TestMonitor(); RotatePushToken() is a PATCH of neither.
Edited(op, copy) ==
  CASE op = "pause"  -> {Off(copy)}
    [] op = "resume" -> {On(copy, "unknown")}
    [] op = "patch"  -> Patched(copy)
    [] op = "test"   -> {copy}

\* Mutant: a test that changes the status calls the incident hook.
WriteBackWithHook(r) ==
  /\ \/ request[r].op \in {"pause", "resume", "patch"} /\ request[r].at = "read"
     \/ request[r].op = "test" /\ request[r].at = "stored"
  /\ request[r].monitor \notin deleted
  /\ \E edited \in Edited(request[r].op, request[r].copy) :
       row' = [row EXCEPT ![request[r].monitor] = edited]
  /\ IF request[r].status = request[r].copy.status THEN Return(r)
     ELSE request' = [request EXCEPT ![r].at = "recorded", ![r].copy = NoRow]
  /\ UNCHANGED <<incidentVars, failures, checkVars>>

\* UpdateMonitor at the end of such a handler.
WriteBack(r) ==
  /\ \/ request[r].op \in {"pause", "resume", "patch"} /\ request[r].at = "read"
     \/ request[r].op = "test" /\ request[r].at = "stored"
  /\ request[r].monitor \notin deleted
  /\ \E edited \in Edited(request[r].op, request[r].copy) :
       row' = [row EXCEPT ![request[r].monitor] = edited]
  /\ Return(r)
  /\ UNCHANGED <<incidentVars, failures, checkVars>>

\* RecordPushHeartbeat, which writes the status and leaves enabled alone.
RecordHeartbeat(r) ==
  /\ request[r].op = "heartbeat"
  /\ request[r].at = "stored"
  /\ request[r].monitor \notin deleted
  /\ row' = [row EXCEPT ![request[r].monitor].status = request[r].status]
  /\ IF request[r].status = request[r].copy.status THEN Return(r)
     ELSE request' = [request EXCEPT ![r].at = "recorded", ![r].copy = NoRow]
  /\ UNCHANGED <<incidentVars, failures, checkVars>>

\* h.incidentHook.OnScheduledStatusChange(...).
HeartbeatHook(r) ==
  /\ request[r].at = "recorded"
  /\ OnScheduledStatusChange(r, request[r].monitor, request[r].status)
  /\ Return(r)
  /\ UNCHANGED <<row, failures, checkVars>>

\* A statement fails, as it does once the monitor is gone: an error response.
RequestFails(r) ==
  /\ request[r].at \in {"read", "stored"}
  /\ Faults \/ request[r].monitor \in deleted
  /\ Return(r)
  /\ UNCHANGED <<incidentVars, row, failures, checkVars>>

\* The incident handlers, which only call the service.
IncidentRequest(r, i) ==
  /\ request[r] = NoRequest
  /\ \/ "acknowledge" \in Ops /\ Acknowledge(r, i)
     \/ "resolve" \in Ops /\ Resolve(r, i)
  /\ UNCHANGED <<row, failures, checkVars, request>>

\* The write of a call of the incident service, or its failure.
CallStep(t) ==
  /\ Insert(t) \/ WriteAcknowledged(t) \/ WriteResolved(t) \/ CallFails(t)
  /\ UNCHANGED <<row, failures, checkVars, request>>

\* DeleteMonitor(); monitor_results go with the row.
DeleteRow(m) ==
  /\ "delete" \in Ops
  /\ DeleteMonitor(m)
  /\ row' = [row EXCEPT ![m] = NoRow]
  /\ failures' = [failures EXCEPT ![m] = 0]
  /\ UNCHANGED <<checkVars, request>>

\* The server stops anywhere and starts again with the tables as they are.
ServerRestart ==
  /\ Restart
  /\ listed' = {}
  /\ phase' = [m \in Monitors |-> "idle"]
  /\ fetched' = [m \in Monitors |-> NoRow]
  /\ check' = [m \in Monitors |-> NoCheck]
  /\ request' = [r \in Requests |-> NoRequest]
  /\ UNCHANGED <<row, failures>>

-----------------------------------------------------------------------------
CheckStep(m) ==
  \/ Skip(m) \/ Enqueue(m) \/ Run(m) \/ RunFails(m) \/ Decide(m)
  \/ WriteRow(m) \/ WriteRowFails(m) \/ CheckHook(m) \/ CheckReturns(m)

RequestStep(r) ==
  \/ \E op \in RowWrites, m \in Monitors : ReadRow(r, op, m)
  \/ StoreResult(r) \/ WriteBack(r) \/ RecordHeartbeat(r) \/ HeartbeatHook(r)
  \/ RequestFails(r)
  \/ \E i \in DOMAIN incidents : IncidentRequest(r, i)

LifecycleNext ==
  \/ Fetch
  \/ \E m \in Monitors : CheckStep(m) \/ DeleteRow(m)
  \/ \E r \in Requests : RequestStep(r)
  \/ \E t \in Threads : CallStep(t)
  \/ ServerRestart

LifecycleSpec == LifecycleInit /\ [][LifecycleNext]_lifecycleVars

-----------------------------------------------------------------------------
(* Properties.                                                             *)

\* A status of m has been written and the hook that follows has not ended.
Hooking(m) ==
  \/ check[m].at = "written"
  \/ \E r \in Requests : request[r].at = "recorded" /\ request[r].monitor = m
  \/ \E t \in Threads : call[t].monitor = m

\* The hooks of the checks respect what IncidentService asks of its callers,
\* one hook at a time for a scheduled monitor, so that what holds of the
\* incidents table there (OpenIsNewest, RecoveryCloses) holds in the server.
ImplementsIncidents == IncidentSpec

\* The enabled flag and the paused status of a scheduled monitor agree: no mix
\* of checks and requests writing stale rows makes a monitor that looks
\* active and is never due, or the reverse.
EnabledMatchesStatus ==
  \A m \in Monitors \ (PushMonitors \cup deleted) :
    row[m].enabled <=> row[m].status # "paused"

\* Recovery (* -> up) resolves the active incident (docs/incidents.md, rule 3):
\* a monitor that is up, with no hook under way, has none.
RecoveryEndsIncident ==
  \A m \in Monitors \ deleted :
    row[m].status = "up" /\ ~Hooking(m) => ActiveOf(m) = {}
=============================================================================
