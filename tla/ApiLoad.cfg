SPECIFICATION FairSpec
CONSTANTS
  Workers = {w1, w2}
  BufferFactor = 1
  RequestLimits = {0, 3}
  MaxCount = 5
  MaxSent = 2
  Answers <- OneAnswer
  Hour = 3600
INVARIANTS
  TypeOK
  EveryRequestAccounted
  LimitRespected
  RunsToLimit
  PanicOnlyWhenBothStop
  OneLateStartPerWorker
PROPERTIES
  Stops
  ImplementsLoadReport
