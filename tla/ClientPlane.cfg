SPECIFICATION RunSpec
CONSTANTS
  None = None
  Apps = {a1, a2}
  MaxApps = 2
  MaxFilterId = 8
  Workers = {c1, c2}
  Nonces = {n1, n2, n3}
  MaxSeen = 2
  MaxSnapshots = 2
  ConnectAttempts = 2
  MaxCalls = 4
  Senders = {u1, u2}
  \* An accepted, a too long and an empty packet.
  Classes <- ServedClasses
  Lens = {0, 1, 2}
  MaxLen = 1
  MaxPackets = 1
  MaxBytes = 2
  Paths = {1, 2}
  Capacity = 2
  Conns = {c1, c2}
  Sessions = {s1}
  MaxSeq = 1
  Tasks = {t1}
  Threshold = 2
  GraceTicks = 1
  Ifaces = {1, 2, 3}
  Routed = {1, 2}
  GraceScans = 2
INVARIANTS
  PathsOwned Steered FailoverHeals   NonceOnce FiltersFollow
   FailureReported
CHECK_DEADLOCK FALSE
