SPECIFICATION ReuseSpec
CONSTANTS
  Sessions = {s1}
  Devices = {d1}
  Tasks = {l1}
  Conns = {1, 2}
  LastPathId = 1
  Epochs = {1, 2}
  MaxPaths = 1
  MaxHistory = 1
  MaxTombstones = 1
  TombstoneTTL = 1
  Expiries = {3}
  MaxSessions = 1
  MaxPending = 2
  PendingTTL = 1
  IdleTTL = 3
  MaxTime = 2
  MaxSkew = 0
  MaxOwed = 1
  None = None
PROPERTY
  NoEarlyReuse
