CONSTANTS
  Block = 4
  Prefix = 3
  Digits = 2
  MaxLen = 12
  Scans <- MCFiles
SPECIFICATION FairSpec
INVARIANTS
  TypeOK
  SeeksBeforeWindow
  BlockInBounds
PROPERTIES
  BlocksAreAdjacent
  ScanEnds
CHECK_DEADLOCK FALSE
