SPECIFICATION FairSpec
CONSTANTS
  Clients = {a, b, c}
  NoClient = NoClient
  MaxThreads = 2
  Targets <- MCTargets
INVARIANTS TypeOK SlotsAccounted ContextsAccounted SocketsAccounted VisibleZonesReady RoutedIsAnswered
PROPERTY BacklogServed
CHECK_DEADLOCK FALSE
