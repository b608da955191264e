SPECIFICATION FairSpec
CONSTANTS
  MaxPort = 4
  Concurrent = 2
  Starts <- MCStarts
  Ends <- MCEnds
INVARIANTS
  TypeOK
  AtMostConcurrent
  NothingLost
  PrintedInOrder
PROPERTIES
  ScanEnds
  ImplementsScan
