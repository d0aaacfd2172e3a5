\* Two streams, channels of two, a publisher, and the shutdown.
SPECIFICATION FairBusSpec
CONSTANTS
  Clients = {c1, c2}
  Publishers = {p1}
  Main = Main
  None = None
  Capacity = 2
  MaxEvents = 3
INVARIANTS
  TypeOK
  NoPanic
  InOrder
  NothingAfterShutdown
PROPERTIES
  PublishReturns
  GoneIsUnsubscribed
\* The process ends.
CHECK_DEADLOCK FALSE
