SPECIFICATION Spec
CONSTANTS
  ExchangeCount = 1
  QueueCount = 1
  RoutingKeyCount = 1
  ParallelClients = 1
  MaxPublished = 1
INVARIANTS
  NothingRemainsAfterPurge
