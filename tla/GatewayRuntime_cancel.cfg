SPECIFICATION Spec
CONSTANTS
  Tickets = {m1, m2}
  Sessions = {m1, m2}
  SessionOf <- OneEach
  Sources = {a}
  Expiry = 1
  Budget = 0
  SourceCapacity = 1
  SourceTTL = 1
  MaxSessions = 2
  MaxLeases = 2
  MaxConnections = 2
  MaxMessages = 1
  QueueCapacity = 2
  PendingTTL = 1
  LeaseTTL = 1
  IdleTTL = 1
  SlowCalls = {"reserve", "commit", "release", "renew"}
  MaxTime = 1
  None = None
INVARIANT NoOrphan
CHECK_DEADLOCK FALSE
SYMMETRY GatewaySymmetry
