CONSTANT Inputs <- MCInputs
SPECIFICATION FairSpec
INVARIANTS
  TypeOK
  HeadsInOrder
  OncePerEntry
  StampedUnlessOrphaned
  ExtrasBelong
  NothingLeftBehind
  DeadlockDetail
PROPERTIES
  EveryFileIsLeft
  KeepsThePromise
CHECK_DEADLOCK FALSE
