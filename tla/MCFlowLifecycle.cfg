CONSTANTS
  BufferSize = 2
  PreloadLimit = 3
  BacklogLimit = 1
  TotalLimit = 2
  Word = 16
  MaxBytes = 4
  PeerPackets <- MCPeerPackets
SPECIFICATION FairLifecycleSpec
CHECK_DEADLOCK FALSE
INVARIANTS TypeOK AssertionsHold DeletedOnce GoneOnlyAfterBothCloses
  OutgoingWellFormed DeliveredInOrder BacklogTracksQueue
PROPERTIES BacklogIsSent EndIsSeen
