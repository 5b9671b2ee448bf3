SPECIFICATION FairSpec
CHECK_DEADLOCK FALSE
INVARIANTS RunsWhileLinksDo LoopersEndFirst
PROPERTIES SamplesBeginInBetween ClosedLinkEndsReaders
