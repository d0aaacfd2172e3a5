\* Two workers, two monitors, failing checks, pause, resume, heartbeats, stop.
SPECIFICATION Spec
CONSTANTS
  Monitors = {m1, m2}
  Workers = {w1, w2}
  None = None
INVARIANTS
  TypeOK
  OneCheckAtATime
  StoppedMeansQuiet
PROPERTIES
  ImplementsDispatch
  StopTerminates
