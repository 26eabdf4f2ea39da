SPECIFICATION Spec
CONSTANTS
  Sessions = {s1, s2}
  Devices = {d1}
  Tasks = {l1}
  Conns = {1, 2}
  LastPathId = 2
  Epochs = {1, 2}
  MaxPaths = 2
  MaxHistory = 2
  MaxTombstones = 1
  TombstoneTTL = 1
  Expiries = {2}
  MaxSessions = 1
  MaxPending = 1
  PendingTTL = 1
  IdleTTL = 1
  MaxTime = 2
  MaxSkew = 1
  MaxOwed = 1
  None = None
INVARIANTS
  PathsBound
  HandlesCurrent
  WithinLimits
PROPERTIES
  EpochsAdvance
SYMMETRY SessionSymmetry
