CONSTANTS
  w = w
  x = x
  Clients = {c1, c2, c3}
  Workers = {w}
  Prepared = {x}
  Zero = Zero
  Objects = {table, xid}
  Listed = {table}
  Nothing = Nothing
  MaxHeld = 1
  Worlds <- MCWorlds
SPECIFICATION Spec
SYMMETRY Alike
INVARIANTS
  TypeOK
  WaitsAreShown
  BlockersOfThatLock
  DeadlocksAreReal
CHECK_DEADLOCK FALSE
