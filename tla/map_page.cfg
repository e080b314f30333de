SPECIFICATION MCSpec
CONSTANTS
  Operators = {o1}
  Areas = {a1, a2}
  Shaded = {a1}
  TooLarge = {a1}
  Signals = {s1}
  Bands = {n1}
  Boxes = {b1, b2}
  Home = b1
  Layers = {"cells"}
  None = None
  MaxSteps = 2
  MaxFailures = 1
  initial = initial
  data = data
  district = district
  elsewhere = elsewhere
  Sources = {"tiles", "cells"}
  Values = {empty, v1}
  Empty = empty
  Places = {initial, data, district, elsewhere}
  Initial = initial
  Data = data
  Elsewhere = elsewhere
  Box <- MCBox
  Animations = {"beacon"}
  ReducedMotion = FALSE
  Hovered = {"weak-area-outline", "coverage-fill"}
  Absent = Absent
  MaxMoves = 3
CHECK_DEADLOCK FALSE
INVARIANTS MapDataInv StaleIsAnnounced MapViewInv MapIsCurrent RestIsReported
PROPERTIES LoadingEnds WatchedMapHeals EventuallyDrawn
