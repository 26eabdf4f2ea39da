SPECIFICATION TunnelSpec
CONSTANTS
  Conns = {c1, c2}
  Sessions = {s1}
  Paths = {1, 2}
  Capacity = 2
  MaxSeq = 1
  None = None
INVARIANT TunInOrder
CHECK_DEADLOCK FALSE
