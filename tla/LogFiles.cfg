CONSTANTS
  u = u
  g1 = g1
  g2 = g2
  gz = gz
  d1 = d1
  d2 = d2
  c1 = c1
  c2 = c2
  w = w
  v = v
  vdir = vdir
  r1 = r1
  r2 = r2
  r3 = r3
  Files = {u, g1, g2, gz, d1, d2, c1, c2, w, v, vdir}
  NoFile = NoFile
  Place <- MCPlace
  Format <- MCFormat
  Namesake <- MCNamesake
  RDSFiles = {r1, r2, r3}
  Portion = 2
  Ms = 2
  Worlds <- MCWorlds
SPECIFICATION Spec
INVARIANTS
  RightLog
  WholeAndInOrder
CHECK_DEADLOCK FALSE
