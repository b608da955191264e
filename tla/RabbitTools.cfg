CONSTANTS
  Test = {t1, t2}
  Reader = {r1}
  Publisher = {p1, p2}
  Mine = Mine
  Fixed = Fixed
  NoName = NoName
  MaxCommands = 3
SPECIFICATION Spec
INVARIANTS TypeOK TestKeepsItsWord MessagesOfOthersKept
CHECK_DEADLOCK FALSE
