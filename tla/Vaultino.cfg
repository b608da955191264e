CONSTANTS
  Process = {p1, p2}
  Password = {k1, k2}
  Text <- MCText
  Cut <- MCCut
  Type = {"json", "env", "txt"}
  Supported = {"json", "env"}
  MaxCommands = 3
  None = None
SPECIFICATION Spec
SYMMETRY MCSymmetry
CHECK_DEADLOCK FALSE
INVARIANTS TypeOK PlainTextRemoved
PROPERTIES AloneIsAtomic NothingInvented
