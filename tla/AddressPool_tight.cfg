SPECIFICATION Spec
CONSTANTS
  Sessions = {1, 2, 3}
  Devices = {d1}
  Addresses = {1, 2, 3}
  Workers = {w1}
  MaxLeases = 2
  MaxPendingReleases = 1
  PendingTTL = 1
  LeaseTTL = 1
  RetryBase = 1
  RetryCap = 1
  MaxShift = 1
  MaxRetryBatch = 1
  Durable = TRUE
  TornWrites = FALSE
  BootTimes = {0, 1, 2}
  WallStepsBack = FALSE
  MaxTime = 2
  MaxSkew = 0
  None = None
INVARIANTS
  SurvivesCrash
