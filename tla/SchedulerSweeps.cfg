\* Two sweeps, a user who saves settings once, a crash; days of two ticks.
CONSTANTS
  Sweeps = {s1, s2}
  Candidates = {c1, c2}
  DayLength = 2
  LocalTimes = {0, 1}
  Lease = 1
  RetryWait = 1
  MaxRunAttempts = 2
  LastTick = 3
  MaxSaves = 1
  MaxLostSweeps = 1
SPECIFICATION FairScheduleSpec
INVARIANTS
  OverlapNeedsExpiry
  NoDaySkipped
  SuccessIsComplete
PROPERTIES
  SuccessIsFinal
  DueIsHandled
