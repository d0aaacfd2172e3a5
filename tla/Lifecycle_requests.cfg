\* A scheduled monitor and a push monitor, one of them busy at a time, every operator
\* request, heartbeats, failing statements, restarts.
SPECIFICATION LifecycleSpec
CONSTANTS
  Monitors = {site, cron}
  PushMonitors = {cron}
  Threads = {site, cron, r1}
  None = None
  MaxIncidents = 1
  Faults = TRUE
  MaxRetry = 1
  Ops = {"pause", "resume", "patch", "test", "heartbeat", "acknowledge", "resolve", "delete"}
CONSTRAINT OneBusyMonitor
INVARIANTS
  LifecycleTypeOK
  EnabledMatchesStatus
PROPERTIES
  ImplementsIncidents
CHECK_DEADLOCK FALSE
