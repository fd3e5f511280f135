CONSTANTS
  a = a
  b = b
  c = c
  A = A
  B = B
  PgBouncer = PgBouncer
  NoName = NoName
  Console = Console
  h = h
  k = k
  Hosts = {h, k}
  NoHost = NoHost
  Names = {a, b, c, PgBouncer}
  Databases = {A, B}
  Worlds <- MCWorlds
SPECIFICATION Spec
INVARIANT PendingAsked
CHECK_DEADLOCK FALSE
