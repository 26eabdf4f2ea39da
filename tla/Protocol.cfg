SPECIFICATION RunSpec
CONSTANTS
  Keys = {1, 2}
  MaxId = 3
  Classes = {"Realtime", "Bulk", "Control"}
  Deadline <- Deadlines
  Lengths = {1}
  MaxFlows = 1
  MaxPackets = 2
  MaxBytesPerFlow = 2
  MaxBytesPerSession = 2
  MaxFutureGap = 2
  DedupFlows = 1
  DedupPackets = 1
  FlowIdleTTL = 2
  TombstoneTTL = 1
  MaxTombstones = 1
  ClientTxs = {x1}
  Nonces = {n1, n2}
  Sessions = {s1, s2}
  None = None
  TunPackets <- ReadPackets
  HeaderLen = 2
  MaxDatagram = 5
  SafeDatagram = 4
  LastPacketId = 2
  Limits = {None, 1, 4, 5}
  Lens = {0, 1, 2, 3}
  BackendMtus = {3, 9}
  Headers <- SentHeaders
  Addresses = {"a1", "a2"}
  Connections = {"c1"}
  Epochs = {1}
  Packets <- UplinkPackets
  MaxPacketBytes = 50
  QueueCapacity = 3
  PathEpochs = {1}
  LastPathId = 2
  CompletedCapacity = 1
  CompletedTTL = 1
  AttachmentCapacity = 2
  PendingCapacity = 2
  PendingTTL = 1
  ExpiresAt = 3
  MaxPolicy = 3
  MaxInFlight = 2
  MaxTime = 3
INVARIANTS  Windowed FlowsStable  PolicyFollows
PROPERTIES DeliversInOrder FreshIds WithinReported  PolicyAdvances
SYMMETRY NonceSymmetry
CHECK_DEADLOCK FALSE
