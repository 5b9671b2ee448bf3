CONSTANTS
  BufferSize = 1
  PreloadLimit = 9
  BacklogLimit = 0
  TotalLimit = 0
  Word = 16
  MaxBytes = 1
  RemoteBytes = 1
  PromptAccept = TRUE
SPECIFICATION FairTunnelSpec
CHECK_DEADLOCK FALSE
PROPERTIES EndsTogether
