CONSTANTS
  BufferSize = 1
  PreloadLimit = 9
  BacklogLimit = 0
  TotalLimit = 0
  Word = 16
  MaxBytes = 2
  RemoteBytes = 1
  PromptAccept = TRUE
SPECIFICATION TunnelSpec
CHECK_DEADLOCK FALSE
INVARIANTS PacketsMeetTheirFlow InsertsAreFresh CloseComesLast
PROPERTIES ImplementsPipes
