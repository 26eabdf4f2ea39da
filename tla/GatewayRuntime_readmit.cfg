SPECIFICATION Spec
CONSTANTS
  Tickets = {m1, m2}
  Sessions = {s}
  SessionOf <- Shared
  Sources = {a}
  Expiry = 1
  Budget = 0
  SourceCapacity = 1
  SourceTTL = 1
  MaxSessions = 1
  MaxLeases = 1
  MaxConnections = 2
  MaxMessages = 1
  QueueCapacity = 2
  PendingTTL = 1
  LeaseTTL = 1
  IdleTTL = 1
  SlowCalls = {}
  MaxTime = 0
  None = None
INVARIANT AdvertisedLeased
CHECK_DEADLOCK FALSE
SYMMETRY GatewaySymmetry
