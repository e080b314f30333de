SPECIFICATION Spec
CONSTANTS
  Records = {1, 2, 3}
  Workers = {oneoff, periodic}
  OneOff = oneoff
  Slots = {q1, q2}
  NoSlot = NoSlot
  QueueCap = 2
  BatchSize = 2
  MaxBatches = 2
  SentLimit = 2
  MaxClock = 1
  Opens <- SecondEarly
  Closes <- FirstAges
  Jumps <- JumpOneToTwo
  Malformed = {3}
  CanBlock = TRUE
  MaxFaults = 0
INVARIANTS CountedOnce TotalNeverOverstates Sound
PROPERTIES RowsLeaveInOrder
