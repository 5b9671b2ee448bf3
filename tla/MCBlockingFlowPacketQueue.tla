--------------------- MODULE MCBlockingFlowPacketQueue ---------------------
(* Five data packets of sizes that differ, so that a wrong byteSize_ shows. *)
EXTENDS BlockingFlowPacketQueue

MCPacket == { [id |-> i, size |-> i + 1] : i \in 0..4 }
============================================================================
