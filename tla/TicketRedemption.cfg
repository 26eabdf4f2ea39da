SPECIFICATION FairSpec
CONSTANTS
  k1 = k1
  k2 = k2
  k3 = k3
  Tickets = {k1, k2, k3}
  Expiry <- Lifetimes
  Tasks = {w1, w2}
  Capacity = 2
  QueueCapacity = 2
  Skew = 1
  ReplyWithin = 1
  TornWrites = TRUE
  MaxTime = 3
  None = None
INVARIANTS
  AdmittedOnce
  DurableRedemption
  CacheBounded
PROPERTY
  StopDrains
