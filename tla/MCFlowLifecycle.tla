-------------------------- MODULE MCFlowLifecycle --------------------------
EXTENDS FlowLifecycle

(* Three data packets and a close packet from the peer: enough for a hole   *)
(* in the middle of the data when the packets come in another order.       *)
MCPeerPackets ==
  { [id |-> 0, size |-> 1, from |-> 0],
    [id |-> 1, size |-> 2, from |-> 1],
    [id |-> 2, size |-> 1, from |-> 3],
    [id |-> 3, size |-> 0, from |-> 4] }

(* Two data packets, for the runs that are not about their order.          *)
MCFewPackets ==
  { [id |-> 0, size |-> 1, from |-> 0],
    [id |-> 1, size |-> 2, from |-> 1],
    [id |-> 2, size |-> 0, from |-> 3] }
============================================================================
