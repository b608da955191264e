SPECIFICATION Spec
CONSTANTS
  Workers = {w1, w2}
  BufferFactor = 1
  RequestLimits = {0}
  MaxCount = 5
  MaxSent = 3
  Answers <- OneAnswer
  Hour = 3600
INVARIANTS
  GracefulShutdown
