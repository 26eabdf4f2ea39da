SPECIFICATION Spec
CONSTANTS
  Sessions = {1, 2}
  Devices = {d1, d2}
  Addresses = {1, 2}
  Workers = {w1, w2}
  MaxLeases = 2
  MaxPendingReleases = 1
  PendingTTL = 1
  LeaseTTL = 2
  RetryBase = 1
  RetryCap = 1
  MaxShift = 1
  MaxRetryBatch = 1
  Durable = TRUE
  TornWrites = FALSE
  BootTimes = {0, 2}
  WallStepsBack = TRUE
  MaxTime = 2
  MaxSkew = 1
  None = None
INVARIANTS
  UniqueAddresses
  SingleHome
  WithinBounds
  RetryOwed
  DurablyBacked
  SurvivesCrash
PROPERTY Refines
SYMMETRY PoolSymmetry
