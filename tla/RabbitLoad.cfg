SPECIFICATION FairSpec
CONSTANTS
  ExchangeCount = 1
  QueueCount = 2
  RoutingKeyCount = 1
  ParallelClients = 1
  MaxPublished = 1
INVARIANTS
  TypeOK
  DuplicationBounded
  StatisticsFinal
  NothingLeftBehind
PROPERTIES
  TestEnds
