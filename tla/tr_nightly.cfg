SPECIFICATION NightlySpec
CONSTANTS
  m1 = m1
  m2 = m2
  h1 = h1
  h2 = h2
  p1 = p1
  p2 = p2
  Measurements = {m1}
  Hexes = {h1}
  HexOf <- OnlyOne
  Identified = {m1}
  Rebuilders = {p1, p2}
  Overlap = 0
  Ceiling = 0
  MaxTime = 1
  CommitDelay = 0
  RunTime = 0
  CanRemove = TRUE
  MaxCrashes = 1
PROPERTIES EventuallyExact
