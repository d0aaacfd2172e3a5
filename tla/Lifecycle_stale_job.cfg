\* One scheduled monitor and its checks, no request, no fault.
SPECIFICATION LifecycleSpec
CONSTANTS
  Monitors = {site}
  PushMonitors = {}
  Threads = {site}
  None = None
  MaxIncidents = 1
  Faults = FALSE
  MaxRetry = 1
  Ops = {}
INVARIANTS
  RecoveryEndsIncident
CHECK_DEADLOCK FALSE
