CONSTANTS
  Inserter <- MCInserter
  Consumer = "consumer"
  Outbox <- MCOutbox
  Shared = {"insert"}
  Word = 8
SPECIFICATION FairListSpec
CHECK_DEADLOCK FALSE
INVARIANT SizeCounts
PROPERTIES ListImplementsBuffer EveryCallReturns
