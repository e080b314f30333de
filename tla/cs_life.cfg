SPECIFICATION FairSpec
CONSTANTS
  Services = {s1, s2}
  NoService = NoService
  Places = {"p"}
  MinInterval = 2
  MaxFixAge = 1
  LockTimeout = 1
  Overtaking = FALSE
  MaxPending = 1
  MaxTime = 2
  MaxDeaths = 2
INVARIANTS NoLockWithoutWork StopMeansStop
PROPERTIES RecordsSpaced ResumesUnlessStopped
