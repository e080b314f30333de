SPECIFICATION MCSpec
CONSTANTS
  laos = laos
  north = north
  south = south
  town = town
  me = me
  ann = ann
  bob = bob
  QueueSteps = 4
  Areas = {laos, north, south, town}
  Parent <- MCParent
  Level <- MCLevel
  MaxShaded = 1
  MaxAsks = 2
  People = {me, ann, bob}
  Me = me
  Bootstrap = {bob}
  Devices = {d1}
  Networks = {n1}
  Slots = {1, 2}
  Beginning <- MCBeginning
  Visitors <- MCVisitors
  Configured = TRUE
  None = None
  MaxSteps = 4
  MaxFailures = 1
CHECK_DEADLOCK FALSE
INVARIANTS ConsoleInv UsersInv ViewIsOffered ControlAgrees
