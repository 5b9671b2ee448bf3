CONSTANT Packet <- MCPacket
SPECIFICATION FairSpec
INVARIANTS NoLostWakeup CountsExact
PROPERTIES ImplementsBuffer Drained
