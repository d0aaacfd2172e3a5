------------------------ MODULE MCMonitorLifecycle ------------------------
(***************************************************************************)
(* Model checking of MonitorLifecycle with a scheduled and a push monitor. *)
(* What the statements of the code read and write is of one monitor, so    *)
(* two that are busy together add interleavings and no interaction.        *)
(***************************************************************************)
EXTENDS MonitorLifecycle

\* m is as it was created, but for its retry_count, and nothing is under way.
AsCreated(m) ==
  /\ row[m].status = IF row[m].enabled THEN "unknown" ELSE "paused"
  /\ failures[m] = 0
  /\ m \notin listed
  /\ phase[m] = "idle"
  /\ \A r \in Requests : request[r].monitor # m
  /\ \A i \in DOMAIN incidents : incidents[i].monitor # m
  /\ m \notin deleted

\* Bound: the behaviours in which only one monitor at a time is not as it was
\* created.
OneBusyMonitor == \A m, n \in Monitors : AsCreated(m) \/ AsCreated(n) \/ m = n
===========================================================================
