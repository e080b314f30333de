SPECIFICATION Spec
CONSTANTS
  h1 = h1
  h2 = h2
  d1 = d1
  d2 = d2
  n1 = n1
  n2 = n2
  n3 = n3
  Hexes = {h1, h2}
  Handsets = {d1, d2}
  Networks = {n1, n2, n3}
  SimOf <- MCSimOf
  MinDevices = 2
  MaxReadings = 3
  RankedAtMost = 1
  None = None
  Places = {h1, h2}
  Distances = {480, 1040, 3000}
  Gives = {457, 1020, 2500}
  MaxCrew = 2
  Nowhere = Nowhere
  Operators = {n1, n2}
  Regions = {laos, north}
  Country = laos
  MaxTurns = 3
  Sheets = {"method", "figure", "fleet", "survey", "dashboard", "upload", "phone", "cells", "speedtest"}
  MaxLines = 4
  MaxMarks = 6
  Stops <- MCStops
  Moments <- MCMoments
  MinDistance = 2
  MaxSpeed = 1
  MaxRecords = 4
  Servers = {home, other}
  Default = home
  Asks = {a1, a2}
  Unset = Unset
  Cells = {c1, c2}
  MinObservations = 2
  MaxHeard = 2
  MaxPasses = 3
  Executors = {x1, x2}
  Ping = 1
  Attempts = 1
  Payload = 4
  Reserve = 6
  Budget = 12
  MaxDay = 2
  Amounts <- MCAmounts
SYMMETRY Symmetry
CHECK_DEADLOCK FALSE
INVARIANTS PagesInv TextIsKept SurveyIsTold AllowanceIsKept CellsAreOfOnePass EnrolmentInv
PROPERTIES FiguresKeepOrder
