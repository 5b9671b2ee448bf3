CONSTANTS
  BufferSize = 2
  PreloadLimit = 3
  BacklogLimit = 1
  TotalLimit = 2
  Word = 16
  MaxBytes = 4
  PeerPackets <- MCFewPackets
SPECIFICATION LifecycleSpec
CHECK_DEADLOCK FALSE
INVARIANT ShutdownFindsConnection
