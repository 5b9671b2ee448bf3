CONSTANTS
  Sender <- TwoFlows
  Outbox <- TwoOutboxes
  HeaderSize = 2
  FlowHeaderSize = 1
  FillLimit = 0
  Heartbeats = 1
SPECIFICATION FairSpec
CHECK_DEADLOCK FALSE
INVARIANTS StreamAligned PacketsInOrder
PROPERTIES AllArrive CleanEndNoticed
