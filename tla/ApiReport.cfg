SPECIFICATION Spec
CONSTANTS
  Workers = {w1}
  BufferFactor = 2
  RequestLimits = {3}
  MaxCount = 5
  MaxSent = 2
  Answers <- ManyAnswers
  Hour = 3600
INVARIANTS
  ReportAddsUp
