CONSTANTS
  Client = {r1, r2}
  None = None
  Request <- MCRequest
  Configs <- MCConfigs
  MaxTime = 1
SPECIFICATION Spec
SYMMETRY MCSymmetry
CHECK_DEADLOCK FALSE
INVARIANTS TypeOK ServedToAuthorized CountersTellAnswers
