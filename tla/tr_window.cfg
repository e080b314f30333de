SPECIFICATION Spec
CONSTANTS
  m1 = m1
  m2 = m2
  h1 = h1
  h2 = h2
  p1 = p1
  p2 = p2
  Measurements = {m1, m2}
  Hexes = {h1, h2}
  HexOf <- OneEach
  Identified = {}
  Rebuilders = {p1, p2}
  Overlap = 3
  Ceiling = 1
  MaxTime = 4
  CommitDelay = 1
  RunTime = 1
  CanRemove = FALSE
  MaxCrashes = 0
SYMMETRY Alike
INVARIANTS NeverMissed
