\* One push monitor, its checks and heartbeats, an operator, thresholds one and two.
SPECIFICATION HistorySpec
CONSTANTS
  Monitors = {cron}
  PushMonitors = {cron}
  Threads = {cron, r1}
  None = None
  MaxIncidents = 1
  Faults = TRUE
  MaxRetry = 2
  Ops = {"pause", "resume", "patch", "test", "heartbeat", "acknowledge"}
INVARIANTS
  IncidentsFollowStatus
  ThresholdMeansDown
CHECK_DEADLOCK FALSE
