SPECIFICATION Spec
CONSTANTS
  Tickets = {m1, m2}
  Sessions = {s}
  SessionOf <- Shared
  Sources = {a, b}
  Expiry = 1
  Budget = 0
  SourceCapacity = 1
  SourceTTL = 1
  MaxSessions = 1
  MaxLeases = 1
  MaxConnections = 2
  MaxMessages = 1
  QueueCapacity = 2
  PendingTTL = 1
  LeaseTTL = 1
  IdleTTL = 1
  SlowCalls = {"reserve", "commit", "release", "renew", "sweep"}
  MaxTime = 1
  None = None
INVARIANTS PermitsBalance ActiveOwned
CHECK_DEADLOCK FALSE
SYMMETRY GatewaySymmetry
