CONSTANTS
  d1 = d1
  d2 = d2
  c1 = c1
  c2 = c2
  s1 = s1
  s2 = s2
  n1 = n1
  n2 = n2
  None = None
  Empty = Empty
  Broken = Broken
  Garbage = Garbage
  Admin = {a1, a2}
  Name = {c1, c2}
  Server = {s1, s2}
  Input <- MCInput
  Process = {p1, p2}
  Namespace = {n1, n2}
  Pods <- MCPods
  Flags <- MCFlags
  MaxRestarts = 1
SPECIFICATION Spec
SYMMETRY MCSymmetry
CHECK_DEADLOCK FALSE
INVARIANTS TypeOK KeysKept EnoughKeysUnseal SuccessMeansUnsealed AlwaysUsable
PROPERTIES OnlyNamedEntriesChange
CONSTRAINT Bounds
