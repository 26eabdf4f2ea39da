SPECIFICATION RunSpec
CONSTANTS
  d1 = d1
  w1 = w1
  w2 = w2
  m1 = m1
  peer = peer
  s1 = s1
  None = None
PROPERTIES QuarantineDrains SessionsEnd StopCompletes ShutdownJoins
CHECK_DEADLOCK FALSE
