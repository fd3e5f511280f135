CONSTANTS
  Clients = {c1, c2}
  Servers = {s1}
  Pools = {p, q}
  Nodes = {1, 2, 3}
  NoNode = NoNode
  Sec = 2
  Waits = {1, 3}
  Worlds <- MCWorlds
SPECIFICATION Spec
INVARIANTS
  BooksBalance
  BackendsOwnStats
  FieldsAsNamed
CHECK_DEADLOCK FALSE
