CONSTANTS
  A = A
  B = B
  NoDB = NoDB
  DBs = {A, B}
  Oids = {1, 2}
  Worlds <- MCWorlds
SPECIFICATION FairSpec
INVARIANTS
  NoRowTwice
  OidLookupsHitFirst
  NamesHitTheirDatabase
  TriggersPlaced
  KnownInTime
PROPERTIES
  RowsStay
  CollectionEnds
CHECK_DEADLOCK FALSE
