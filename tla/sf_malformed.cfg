SPECIFICATION FairSpec
CONSTANTS
  Records = {1, 2}
  Workers = {oneoff, periodic}
  OneOff = oneoff
  Slots = {q1, q2}
  NoSlot = NoSlot
  QueueCap = 2
  BatchSize = 2
  MaxBatches = 1
  SentLimit = 1
  MaxClock = 0
  Opens <- AlwaysOpen
  Closes <- NeverClosed
  Jumps <- NoJumps
  Malformed = {2}
  CanBlock = FALSE
  MaxFaults = 0
PROPERTIES OneBadRecordCostsNoOther
