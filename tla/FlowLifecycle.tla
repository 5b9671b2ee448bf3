--------------------------- MODULE FlowLifecycle ---------------------------
(***************************************************************************)
(* One flow from its construction to its destruction.  The bond writes the *)
(* packets of the peer flow to it, in any order.  What the peer sends is   *)
(* numbered without repetition, its data packets continue each other from  *)
(* the first byte on, and nothing follows its close packet (this flow      *)
(* sends its own packets like that: OutgoingWellFormed below).             *)
(***************************************************************************)
EXTENDS Flow

CONSTANT PeerPackets

(* What the peer flow sends: its close packet counts as no continuation,   *)
(* because Clear may have thrown away data packets before it.              *)
WellNumbered(packets) ==
  /\ packets \subseteq Packet
  /\ \A p, q \in packets :
       /\ p.id = q.id => p = q
       /\ IsClose(p) => q.id <= p.id
       /\ p.id = 0 /\ ~IsClose(p) => p.from = 0
       /\ q.id = p.id + 1 /\ ~IsClose(q) => q.from = p.from + p.size

ASSUME PeerAssumption == WellNumbered(PeerPackets)

VARIABLE incoming   \* the packets of the peer that did not arrive yet

allVars == <<vars, incoming>>

PeerPacketArrives(packet) ==
  /\ incoming' = incoming \ {packet}
  /\ WriteToFlow(packet)

LifecycleInit == Init /\ incoming = PeerPackets

LifecycleNext ==
  \/ FlowStep /\ UNCHANGED incoming
  \/ \E packet \in incoming : PeerPacketArrives(packet)

LifecycleSpec == LifecycleInit /\ [][LifecycleNext]_allVars

(* Neither link loses packets.                                             *)
FairLifecycleSpec ==
  /\ LifecycleSpec
  /\ FlowFairness
  /\ WF_allVars(\E packet \in incoming : PeerPacketArrives(packet))

----------------------------------------------------------------------------
TypeOK == FlowTypeOK /\ incoming \subseteq PeerPackets

(* The assertions of Flow.cpp: whoever deletes the flow finds all loopers  *)
(* stopped (:111, :155), the queue is empty after Clear (:79), and the     *)
(* packets popped are the next ones (BlockingFlowPacketQueue.h:74).        *)
AssertionsHold ==
  /\ \A looper \in {Writer, Bonder} :
       pc[looper] = "delete" => \A other \in Looper : ~running[other]
  /\ pc[Reader] = "renumber" => toBond.deque = <<>>
  /\ WellFormed(toBond)
  /\ WellFormed(toConnection)

(* closed_ is tested and set in two steps by two threads, yet no more than *)
(* one of them deletes the flow.                                           *)
DeletedOnce == deletions <= 1

(* The flow is destroyed only after the peer's close packet was popped and *)
(* its own was given to the bond: no packet of the peer is left to arrive  *)
(* for a flow that is gone.                                                *)
GoneOnlyAfterBothCloses ==
  /\ deleter # "none" => /\ pc[Reader] \in {"account", "done"}
                         /\ IsClose(flowPacket[Writer])
                         /\ IsClose(flowPacket[Bonder])
                         /\ incoming = {}
                         /\ toConnection.deque = <<>>
  /\ deleter = "deleted" => sent # <<>> /\ IsClose(sent[Len(sent)].packet)

(* The destructor closes and deletes the connection before it joins the    *)
(* loopers; no looper that could still poll, receive or send runs then.    *)
NoIOOnDeadConnection ==
  connection \in {"closed", "deleted"} => pc[Reader] # "poll" /\ pc[Writer] # "write"

(* The peer receives the ids 0, 1, 2, ..., the bytes of the endpoint from  *)
(* the first on without a hole, and a close packet only at the end,        *)
(* although Clear throws packets away and renumbers the close packet.      *)
OutgoingWellFormed ==
  \A i \in DOMAIN sent :
    /\ sent[i].packet.id = i - 1
    /\ IsClose(sent[i].packet) => i = Len(sent)
    /\ ~IsClose(sent[i].packet) =>
         sent[i].packet.from = IF i = 1 THEN 0
                               ELSE sent[i-1].packet.from + sent[i-1].packet.size

(* The endpoint gets the bytes of the peer in order, none twice, none left *)
(* out, however the packets were reordered on the two links.               *)
DeliveredInOrder == \A i \in DOMAIN output : output[i] = i - 1

(* totalBacklog_ lags behind the queue by what is between the two updates, *)
(* modulo the width: it can wrap around when the bonder subtracts first.   *)
(* The queue itself counts what Clear threw away.                          *)
BacklogTracksQueue ==
  totalBacklog = (toBond.byteSize
                  + (IF pc[Bonder] = "subtract" THEN flowPacket[Bonder].size ELSE 0)
                  - (IF pc[Reader] = "account" THEN flowPacket[Reader].size ELSE 0)) % Word

(* What was read from the endpoint is handed over, unless the peer's close *)
(* packet came first.                                                      *)
BacklogIsSent ==
  \A n \in 1..MaxBytes :
    received >= n ~> \/ ~running[Writer]
                     \/ \E i \in DOMAIN sent :
                          sent[i].packet.from + sent[i].packet.size >= n

(* The preload limit holds the reader back from the end of the stream too  *)
(* (Flow.cpp:55); it comes to see it when the queue was drained (:73), and *)
(* the close packet is handed over then.                                   *)
EndIsSeen ==
  endpoint # "open" ~>
    sent # <<>> /\ IsClose(sent[Len(sent)].packet)

----------------------------------------------------------------------------
(* What a comment of the code says, and the code does not do.              *)

(* "shutdown connection to endpoint" (Flow.cpp:116): it is still there.    *)
ShutdownFindsConnection == pc[Writer] = "shutdown" => connection \notin {"closed", "deleted"}
============================================================================
