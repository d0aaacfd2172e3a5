\* One stream whose client stays when the server is stopped.
SPECIFICATION BusSpec
CONSTANTS
  Clients = {c1}
  Publishers = {p1}
  Main = Main
  None = None
  Capacity = 1
  MaxEvents = 1
INVARIANT ShutdownEndsStreams
CHECK_DEADLOCK FALSE
