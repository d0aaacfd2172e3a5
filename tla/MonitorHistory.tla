--------------------------- MODULE MonitorHistory ---------------------------
(***************************************************************************)
(* MonitorLifecycle with two history variables, which constrain nothing.   *)
(*                                                                         *)
(* No UPDATE of the code has a condition but the id, and no statement a    *)
(* retry, so races, failing statements and restarts may leave the status   *)
(* of a monitor at odds with its incidents or with its results.  crossed   *)
(* and unjudged remember for which monitors something of the kind has      *)
(* happened since they were last seen in order, so that the properties can *)
(* say that nothing else brings them into disorder.                        *)
(***************************************************************************)
EXTENDS MonitorLifecycle

VARIABLES
  crossed,               \* monitors whose incident hooks have been interfered with
  unjudged               \* monitors whose status leaves a result out of account

historyVars == <<lifecycleVars, crossed, unjudged>>

-----------------------------------------------------------------------------
(* Status and incidents.                                                   *)

Own(m) == {i \in DOMAIN incidents : incidents[i].monitor = m}

\* The rules of docs/incidents.md: a monitor that is up has no active incident,
\* one that is down or degraded has one, unless an operator has closed it; no
\* other incident of it is active.
StatusFits(m) ==
  /\ \A i \in ActiveOf(m), j \in Own(m) : j <= i
  /\ row[m].status = "up" => ActiveOf(m) = {}
  /\ row[m].status \in {"down", "degraded"} =>
       /\ Own(m) # {}
       /\ LET newest == incidents[NewestOf(Own(m))]
          IN  newest.status = "resolved" => ~newest.recovered

\* A request puts back the status the row had when it was read, and has no more.
RestoresStatus(m) ==
  \E r \in Requests :
    /\ request[r].monitor = m
    /\ WriteBack(r)
    /\ request[r].copy.status # row[m].status
    /\ row'[m].status = request[r].copy.status

\* A result is written as the status of m: by its check, or by a heartbeat.
WritesStatus(m, copy) ==
  \/ copy = check[m].copy /\ WriteRow(m)
  \/ \E r \in Requests :
       request[r].monitor = m /\ copy = request[r].copy /\ RecordHeartbeat(r)

\* The hook is called or not for a status that is no longer the row's, or while
\* the hook for an earlier change has not ended.
HooksOverlap(m) ==
  \E copy \in Row : WritesStatus(m, copy) /\ (copy.status # row[m].status \/ Hooking(m))

\* A hook does not get to its end.
LosesHook(m) ==
  /\ Hooking(m)
  /\ ServerRestart \/ \E t \in Threads : call[t].monitor = m /\ CallFails(t)

\* An acknowledgement is written over the resolution of an incident of m.
Reopens(m) ==
  \E t \in Threads :
    /\ WriteAcknowledged(t)
    /\ incidents[call[t].id].monitor = m
    /\ incidents[call[t].id].status = "resolved"

Crosses(m) == RestoresStatus(m) \/ HooksOverlap(m) \/ LosesHook(m) \/ Reopens(m)

-----------------------------------------------------------------------------
(* Status and results.                                                     *)

\* A check or request of m has stored a result and not yet written the status.
BeingJudged(m) ==
  \/ check[m].at \in {"ran", "decided"}
  \/ \E r \in Requests : request[r].at = "stored" /\ request[r].monitor = m

\* "When a monitor fails its retry threshold" (docs/monitoring.md) it is down.
ThresholdFits(m) == row[m].status \in {"up", "degraded"} => failures[m] < row[m].retry

\* Two results of m are being judged, or one is that of a manual test, which
\* leaves the status as it was, or one has not been stored.
ResultIgnored(m) ==
  \/ BeingJudged(m) /\ Run(m)
  \/ \E r \in Requests :
       /\ request[r].monitor = m
       /\ StoreResult(r)
       /\ \/ BeingJudged(m)
          \/ request[r].op = "test"
          \/ failures' # StoredResult(m, request'[r].status)

\* The latest results are not read, or the status is not written.
JudgementLost(m) ==
  \/ Decide(m) /\ check'[m].status # NewStatus(check[m].copy, check[m].status, failures[m])
  \/ BeingJudged(m) /\ (ServerRestart \/ WriteRowFails(m))
  \/ \E r \in Requests :
       request[r].monitor = m /\ request[r].at = "stored" /\ RequestFails(r)

\* A request lowers the threshold.
LowersRetry(m) ==
  \E r \in Requests :
    request[r].monitor = m /\ WriteBack(r) /\ row'[m].retry < row[m].retry

Misjudges(m) ==
  ResultIgnored(m) \/ JudgementLost(m) \/ LowersRetry(m) \/ RestoresStatus(m)

-----------------------------------------------------------------------------
HistoryInit ==
  /\ LifecycleInit
  /\ crossed = {}
  /\ unjudged = {}

\* A monitor is taken off the record once nothing is under way about it and it
\* is in order again.
HistoryNext ==
  /\ LifecycleNext
  /\ crossed' = {m \in Monitors : /\ m \in crossed \/ Crosses(m)
                                  /\ Hooking(m)' \/ ~StatusFits(m)'}
  /\ unjudged' = {m \in Monitors : /\ m \in unjudged \/ Misjudges(m)
                                   /\ BeingJudged(m)' \/ ~ThresholdFits(m)'}

HistorySpec == HistoryInit /\ [][HistoryNext]_historyVars

-----------------------------------------------------------------------------
(* Properties.                                                             *)

\* The status of a monitor and its incidents agree whenever no hook is under
\* way, whatever checks, heartbeats, operators, failing statements and restarts
\* do, unless hooks of that very monitor overlapped, one was cut short, a stale
\* status was put back or an acknowledgement crossed a resolution since they
\* last agreed.
IncidentsFollowStatus ==
  \A m \in Monitors \ (deleted \cup crossed) : ~Hooking(m) => StatusFits(m)

\* A monitor shown as up or degraded has failed fewer times in a row than the
\* retry_count in force, whatever happens, unless since it last was so a result
\* was stored beside another or by a manual test, a statement of the judgement
\* failed, a stale status was put back or a PATCH lowered retry_count.
ThresholdMeansDown ==
  \A m \in Monitors \ (deleted \cup unjudged) : ~BeingJudged(m) => ThresholdFits(m)
=============================================================================
