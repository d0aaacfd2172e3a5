\* One scheduled and one push monitor, three goroutines, failing statements and restarts.
SPECIFICATION IncidentSpec
CONSTANTS
  Monitors = {site, cron}
  PushMonitors = {cron}
  Threads = {t1, t2, t3}
  None = None
  MaxIncidents = 3
  Faults = TRUE
SYMMETRY ThreadSymmetry
INVARIANTS
  IncidentTypeOK
  OpenIsNewest
PROPERTIES
  RecoveryCloses
\* The server stops for want of calls once every monitor has been deleted.
CHECK_DEADLOCK FALSE
