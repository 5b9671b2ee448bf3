------------------------ MODULE FlowLifecycleProofs ------------------------
(***************************************************************************)
(* The safety of FlowLifecycle for every set of peer packets, every        *)
(* packet size and every limit.                                            *)
(***************************************************************************)
EXTENDS FlowLifecycle, FlowPacketQueueProofs

(* A step of the flow, or of a bond that writes any packet to it.          *)
FlowNext == FlowStep \/ \E packet \in Packet : WriteToFlow(packet)

Closing == {"stop", "test", "mark", "delete", "shutdown", "close", "done"}

(* Where each looper can stand, when it runs and what it holds there.      *)
LooperInv ==
  /\ pc[Reader] \in {"poll", "eof", "clear", "renumber", "insert", "account", "done"}
  /\ pc[Writer] \in {"pop", "write", "stop", "test", "mark", "delete", "shutdown", "done"}
  /\ pc[Bonder] \in {"pop", "subtract", "route", "stop", "test", "mark", "delete",
                     "close", "done"}
  /\ running[Reader] <=> \/ pc[Reader] = "poll"
                         \/ /\ pc[Reader] \in {"insert", "account"}
                            /\ ~IsClose(flowPacket[Reader])
  /\ running[Writer] <=> pc[Writer] \in {"pop", "write", "stop"}
  /\ running[Bonder] <=> pc[Bonder] \in {"pop", "subtract", "route", "stop"}
  /\ pc[Reader] \in {"eof", "clear", "renumber"} => IsClose(flowPacket[Reader])
  /\ pc[Writer] \in Closing => IsClose(flowPacket[Writer])
  /\ pc[Bonder] \in Closing => IsClose(flowPacket[Bonder])

LooperTypes ==
  /\ running \in [Looper -> BOOLEAN]
  /\ pc \in [Looper -> {"poll", "eof", "clear", "renumber", "insert", "account", "pop",
                        "write", "stop", "test", "mark", "delete", "shutdown",
                        "subtract", "route", "close", "done"}]
  /\ flowPacket \in [Looper -> Packet]

LEMMA LooperStep ==
  ASSUME LooperTypes, LooperInv, [FlowNext]_vars
  PROVE  LooperInv'
<1> USE DEF LooperTypes, LooperInv, Looper, Reader, Writer, Bonder, Closing, Goto, Hold, Stop,
            IsClose
<1>1. CASE UNCHANGED vars
  BY <1>1 DEF vars, loopers
<1>2. CASE \E packet \in Packet : WriteToFlow(packet)
  BY <1>2 DEF WriteToFlow, loopers
<1>3. CASE RecvData
  BY <1>3 DEF RecvData, MayRead
<1>4. CASE RecvEof
  BY <1>4 DEF RecvEof, MayRead
<1>5. CASE ReaderTestsClosed
  BY <1>5 DEF ReaderTestsClosed
<1>6. CASE ClearToBond
  BY <1>6 DEF ClearToBond
<1>7. CASE RenumberClose
  BY <1>7 DEF RenumberClose
<1>8. CASE InsertToBond
  BY <1>8 DEF InsertToBond
<1>9. CASE AddBacklog
  BY <1>9 DEF AddBacklog
<1>10. CASE PopToConnection
  BY <1>10 DEF PopToConnection
<1>11. CASE WriteToEndpoint
  BY <1>11 DEF WriteToEndpoint
<1>12. ASSUME NEW looper \in {Writer, Bonder}, CloseStep(looper)
       PROVE  LooperInv'
  BY <1>12 DEF CloseStep, StopOnClose, TestClosed, Mark, Delete
<1>13. CASE ShutdownConnection
  BY <1>13 DEF ShutdownConnection
<1>14. CASE PopToBond
  BY <1>14 DEF PopToBond
<1>15. CASE SubtractBacklog
  BY <1>15 DEF SubtractBacklog
<1>16. CASE Route
  BY <1>16 DEF Route
<1>17. CASE SendClose
  BY <1>17 DEF SendClose
<1>18. CASE DeleterStep \/ EndpointStep
  BY <1>18 DEF DeleterStep, EraseFromMap, CloseConnection, FreeConnection, JoinLoopers,
               EndpointStep, EndpointWrites, EndpointCloses, loopers
<1> QED
  BY <1>1, <1>2, <1>3, <1>4, <1>5, <1>6, <1>7, <1>8, <1>9, <1>10, <1>11, <1>12, <1>13,
     <1>14, <1>15, <1>16, <1>17, <1>18
  DEF FlowNext, FlowStep, ReaderStep, WriterStep, BonderStep

----------------------------------------------------------------------------
(* The two queues.                                                         *)

QueueTypes ==
  /\ toBondId \in Nat
  /\ toBond \in QueueOf(Packet)
  /\ toConnection \in QueueOf(Packet)

(* The reader numbers its packets upwards.  The close packet that takes    *)
(* the place of cleared ones falls back to the next id, never below it.    *)
OutgoingFresh ==
  /\ WellFormed(toBond)
  /\ \A p \in Range(toBond.deque) : p.id < toBondId
  /\ toBond.currentId <= toBondId
  /\ pc[Reader] \in {"eof", "clear", "renumber", "insert"} =>
       /\ flowPacket[Reader].id < toBondId
       /\ toBond.currentId <= flowPacket[Reader].id
       /\ \A p \in Range(toBond.deque) : p.id < flowPacket[Reader].id
  /\ pc[Reader] = "renumber" => toBond.deque = <<>>

(* Of the packets of the peer, those still coming have neither arrived nor *)
(* been passed, and none follows the close packet.                         *)
IncomingFresh(packets, coming) ==
  /\ WellFormed(toConnection)
  /\ coming \subseteq packets
  /\ Range(toConnection.deque) \subseteq packets
  /\ \A packet \in coming : Fresh(toConnection, packet)
  /\ \/ toConnection.currentId = 0
     \/ \E packet \in packets : packet.id + 1 = toConnection.currentId
  /\ pc[Writer] # "pop" => /\ flowPacket[Writer] \in packets
                           /\ flowPacket[Writer].id + 1 = toConnection.currentId
  /\ pc[Writer] = "write" => ~IsClose(flowPacket[Writer])
  /\ pc[Writer] \in Closing => coming = {} /\ toConnection.deque = <<>>

LEMMA FreshByRange ==
  ASSUME NEW q, NEW packet
  PROVE  Fresh(q, packet) <=> /\ packet.id >= q.currentId
                              /\ \A other \in Range(q.deque) : other.id # packet.id
  BY DEF Fresh, Range

LEMMA EmptyRange ==
  ASSUME NEW P, NEW deque \in Seq(P)
  PROVE  deque = <<>> <=> Range(deque) = {}
<1>1. deque # <<>> => 1 \in DOMAIN deque
  BY LenProperties, EmptySeq
<1>2. DOMAIN <<>> = {}
  BY EmptySeq
<1> QED
  BY <1>1, <1>2 DEF Range

LEMMA RangeHasType ==
  ASSUME NEW P, NEW deque \in Seq(P)
  PROVE  Range(deque) \subseteq P
  BY LenProperties, ElementOfSeq DEF Range

LEMMA PacketFields == \A p \in Packet : p.id \in Nat /\ p.size \in Nat /\ p.from \in Nat
  BY DEF Packet

(* What a looper that pops takes out of its queue and keeps.               *)
LEMMA PopEffect ==
  ASSUME LooperTypes, NEW looper \in Looper, NEW queue \in QueueOf(Packet),
         WellFormed(queue), queue.nextAvailable, Hold(looper, Head(queue.deque))
  PROVE  \E front \in Range(queue.deque) :
           /\ front = Head(queue.deque) /\ front \in Packet /\ front.id = queue.currentId
           /\ flowPacket' = [flowPacket EXCEPT ![looper] = front]
           /\ Popped(queue) \in QueueOf(Packet) /\ WellFormed(Popped(queue))
           /\ Popped(queue).currentId = queue.currentId + 1
           /\ Range(Popped(queue).deque) = Range(queue.deque) \ {front}
<1>1. /\ Popped(queue) \in QueueOf(Packet) /\ WellFormed(Popped(queue))
      /\ Popped(queue).currentId = queue.currentId + 1
      /\ Head(queue.deque) \in Packet /\ Head(queue.deque).id = queue.currentId
      /\ Head(queue.deque) \in Range(queue.deque)
      /\ Range(Popped(queue).deque) = Range(queue.deque) \ {Head(queue.deque)}
  BY PacketFields, PoppedProperties
<1> QED
  BY <1>1 DEF Hold

LEMMA OutgoingStep ==
  ASSUME LooperTypes, LooperInv, QueueTypes, OutgoingFresh, [FlowNext]_vars
  PROVE  OutgoingFresh' /\ toBondId' \in Nat /\ toBond' \in QueueOf(Packet)
<1> USE DEF QueueTypes, Looper, Reader, Writer, Bonder, Goto, Hold, Stop
<1> DEFINE Goal == OutgoingFresh' /\ toBondId' \in Nat /\ toBond' \in QueueOf(Packet)
<1>0. /\ toBond.currentId \in Nat /\ toBond.deque \in Seq(Packet)
      /\ \A p \in Range(toBond.deque) : p.id \in Nat
      /\ \A looper \in Looper : flowPacket[looper].id \in Nat
  BY PacketFields, RangeHasType DEF QueueOf, LooperTypes
(* Steps that leave the queue and the reader alone.                        *)
<1>1. ASSUME toBond' = toBond, toBondId' = toBondId,
             pc'[Reader] = pc[Reader], flowPacket'[Reader] = flowPacket[Reader]
      PROVE  Goal
  BY <1>1 DEF OutgoingFresh
<1>2. CASE UNCHANGED vars
  BY <1>1, <1>2 DEF vars, loopers
<1>3. CASE \E packet \in Packet : WriteToFlow(packet)
  BY <1>1, <1>3 DEF WriteToFlow, loopers
<1>4. CASE RecvData
  BY <1>0, <1>4 DEF RecvData, MayRead, OutgoingFresh, LooperTypes
<1>5. CASE RecvEof
  BY <1>0, <1>5 DEF RecvEof, MayRead, OutgoingFresh, LooperTypes
<1>6. CASE ReaderTestsClosed
  BY <1>6 DEF ReaderTestsClosed, OutgoingFresh, LooperTypes
<1>7. CASE ClearToBond
  <2>1. /\ toBond' \in QueueOf(Packet) /\ WellFormed(toBond')
        /\ toBond'.deque = <<>> /\ toBond'.currentId = toBond.currentId
    BY <1>7, ClearedProperties DEF ClearToBond
  <2>2. Range(toBond'.deque) = {}
    BY <2>1, EmptyRange, EmptySeq
  <2> QED
    BY <1>7, <2>1, <2>2 DEF ClearToBond, OutgoingFresh, LooperTypes
<1>8. CASE RenumberClose
  <2>1. toBond.deque = <<>> /\ Range(toBond.deque) = {}
    BY <1>0, <1>8, EmptyRange DEF RenumberClose, OutgoingFresh
  <2> QED
    BY <1>0, <1>8, <2>1 DEF RenumberClose, OutgoingFresh, LooperTypes
<1>9. CASE InsertToBond
  <2>1. pc[Reader] = "insert" /\ flowPacket[Reader] \in Packet
    BY <1>9 DEF InsertToBond, LooperTypes
  <2>2. Fresh(toBond, flowPacket[Reader])
    BY <1>0, <2>1, FreshByRange DEF OutgoingFresh
  <2>3. /\ toBond' \in QueueOf(Packet) /\ WellFormed(toBond')
        /\ toBond'.currentId = toBond.currentId
        /\ Range(toBond'.deque) = Range(toBond.deque) \union {flowPacket[Reader]}
    BY <1>9, <2>1, <2>2, PacketFields, InsertProperties DEF InsertToBond, OutgoingFresh
  <2> QED
    BY <1>9, <2>1, <2>3 DEF InsertToBond, OutgoingFresh, LooperTypes
<1>10. CASE AddBacklog
  BY <1>10 DEF AddBacklog, OutgoingFresh, LooperTypes
<1>11. CASE PopToBond
  <2>1. /\ toBond' = Popped(toBond) /\ toBond.nextAvailable
        /\ Hold(Bonder, Head(toBond.deque)) /\ WellFormed(toBond)
        /\ toBondId' = toBondId /\ pc'[Reader] = pc[Reader]
        /\ flowPacket'[Reader] = flowPacket[Reader]
    BY <1>11 DEF PopToBond, OutgoingFresh, LooperTypes
  <2>2. PICK front \in Range(toBond.deque) :
          /\ front \in Packet /\ front.id = toBond.currentId
          /\ toBond' \in QueueOf(Packet) /\ WellFormed(toBond')
          /\ toBond'.currentId = toBond.currentId + 1
          /\ Range(toBond'.deque) = Range(toBond.deque) \ {front}
    <3>1. Bonder \in Looper /\ toBond \in QueueOf(Packet)
      OBVIOUS
    <3> QED
      BY <2>1, <3>1, PopEffect
  <2>3. pc[Reader] # "renumber"
    BY <1>0, <2>2, EmptyRange DEF OutgoingFresh
  <2> QED
    BY <1>0, <2>1, <2>2, <2>3 DEF OutgoingFresh
<1>12. CASE WriterStep
  BY <1>1, <1>12 DEF WriterStep, PopToConnection, WriteToEndpoint, ShutdownConnection,
         CloseStep, StopOnClose, TestClosed, Mark, Delete, LooperTypes
<1>13. CASE SubtractBacklog \/ Route \/ SendClose \/ CloseStep(Bonder)
  BY <1>1, <1>13 DEF SubtractBacklog, Route, SendClose,
         CloseStep, StopOnClose, TestClosed, Mark, Delete, LooperTypes
<1>14. CASE DeleterStep \/ EndpointStep
  BY <1>1, <1>14 DEF DeleterStep, EraseFromMap, CloseConnection, FreeConnection, JoinLoopers,
               EndpointStep, EndpointWrites, EndpointCloses, loopers
<1> QED
  BY <1>2, <1>3, <1>4, <1>5, <1>6, <1>7, <1>8, <1>9, <1>10, <1>11, <1>12, <1>13, <1>14
  DEF FlowNext, FlowStep, ReaderStep, BonderStep

(* A step of the flow, or the arrival of one of the packets coming; those  *)
(* left are still coming after it.                                         *)
LEMMA IncomingStep ==
  ASSUME NEW packets, NEW coming, NEW left \in SUBSET coming,
         WellNumbered(packets), LooperTypes, LooperInv, QueueTypes,
         IncomingFresh(packets, coming),
         \/ UNCHANGED vars
         \/ FlowStep
         \/ \E packet \in coming : packet \notin left /\ WriteToFlow(packet)
  PROVE  IncomingFresh(packets, left)' /\ toConnection' \in QueueOf(Packet)
<1> USE DEF QueueTypes, Looper, Reader, Writer, Bonder, Goto, Hold, Stop
<1> DEFINE Goal == IncomingFresh(packets, left)' /\ toConnection' \in QueueOf(Packet)
<1>0. /\ toConnection.currentId \in Nat /\ toConnection.deque \in Seq(Packet)
      /\ packets \subseteq Packet /\ \A p \in packets : p.id \in Nat
      /\ left \subseteq coming
  BY PacketFields DEF QueueOf, WellNumbered
(* Steps that leave the queue alone and do not bring the writer to another *)
(* packet.                                                                 *)
<1>1. ASSUME toConnection' = toConnection, flowPacket'[Writer] = flowPacket[Writer],
             pc'[Writer] # "pop" => pc[Writer] # "pop",
             pc'[Writer] = "write" => pc[Writer] = "write",
             pc'[Writer] \in Closing => pc[Writer] \in Closing
      PROVE  Goal
  BY <1>0, <1>1 DEF IncomingFresh
<1>2. CASE UNCHANGED vars
  BY <1>1, <1>2 DEF vars, loopers
<1>3. ASSUME NEW packet \in coming, packet \notin left, WriteToFlow(packet)
      PROVE  Goal
  <2>1. /\ packet \in Packet /\ packet \in packets /\ Fresh(toConnection, packet)
        /\ toConnection' = Insert(toConnection, packet)
        /\ pc' = pc /\ flowPacket' = flowPacket /\ WellFormed(toConnection)
    BY <1>0, <1>3 DEF IncomingFresh, WriteToFlow, loopers
  <2>2. /\ toConnection' \in QueueOf(Packet) /\ WellFormed(toConnection')
        /\ toConnection'.currentId = toConnection.currentId
        /\ Range(toConnection'.deque) = Range(toConnection.deque) \union {packet}
    BY <2>1, PacketFields, InsertProperties
  <2>3. ASSUME NEW other \in left
        PROVE  Fresh(toConnection', other)
    <3>1. other \in coming /\ other # packet /\ other \in packets
      BY <1>0, <1>3 DEF IncomingFresh
    <3>2. other.id # packet.id
      BY <2>1, <3>1 DEF WellNumbered
    <3>3. /\ other.id >= toConnection.currentId
          /\ \A p \in Range(toConnection.deque) : p.id # other.id
      BY <3>1, FreshByRange DEF IncomingFresh
    <3> QED
      BY <2>2, <3>2, <3>3, FreshByRange
  <2>4. pc[Writer] \notin Closing
    BY <1>3 DEF IncomingFresh
  <2> QED
    BY <1>0, <2>1, <2>2, <2>3, <2>4 DEF IncomingFresh
<1>4. CASE ReaderStep
  BY <1>1, <1>4 DEF ReaderStep, RecvData, RecvEof, ReaderTestsClosed, ClearToBond,
     RenumberClose, InsertToBond, AddBacklog, MayRead, LooperTypes
<1>5. CASE PopToConnection
  <2>1. /\ toConnection' = Popped(toConnection) /\ toConnection.nextAvailable
        /\ Hold(Writer, Head(toConnection.deque)) /\ WellFormed(toConnection)
        /\ pc[Writer] = "pop"
        /\ pc'[Writer] = IF IsClose(Head(toConnection.deque)) THEN "stop" ELSE "write"
    BY <1>5 DEF PopToConnection, IncomingFresh, LooperTypes
  <2>2. PICK front \in Range(toConnection.deque) :
          /\ front = Head(toConnection.deque)
          /\ front \in Packet /\ front.id = toConnection.currentId
          /\ flowPacket' = [flowPacket EXCEPT ![Writer] = front]
          /\ toConnection' \in QueueOf(Packet) /\ WellFormed(toConnection')
          /\ toConnection'.currentId = toConnection.currentId + 1
          /\ Range(toConnection'.deque) = Range(toConnection.deque) \ {front}
    <3>1. Writer \in Looper /\ toConnection \in QueueOf(Packet)
      OBVIOUS
    <3> QED
      BY <2>1, <3>1, PopEffect
  <2>3. ASSUME NEW other \in coming
        PROVE  /\ other.id \in Nat /\ other.id >= toConnection.currentId + 1
               /\ Fresh(toConnection', other)
    <3>1. /\ other.id \in Nat /\ other.id >= toConnection.currentId /\ other.id # front.id
          /\ \A p \in Range(toConnection'.deque) : p.id # other.id
      BY <1>0, <2>2, FreshByRange DEF IncomingFresh
    <3> QED
      BY <1>0, <2>2, <3>1, FreshByRange
  <2>4. \A p \in Range(toConnection'.deque) : p.id \in Nat /\ p.id >= toConnection.currentId + 1
    BY <1>0, <2>2 DEF WellFormed, NotPassed, Range, IncomingFresh
  <2>5. front \in packets /\ flowPacket'[Writer] = front
    BY <2>2 DEF IncomingFresh, LooperTypes
  <2>6. ASSUME IsClose(front)
        PROVE  left = {} /\ toConnection'.deque = <<>>
    <3>1. \A q \in packets : q.id <= front.id
      BY <2>5, <2>6 DEF WellNumbered
    <3>2. coming \subseteq packets /\ Range(toConnection'.deque) \subseteq packets
      BY <2>2 DEF IncomingFresh
    <3>3. coming = {}
      BY <1>0, <2>2, <2>3, <3>1, <3>2
    <3>4. Range(toConnection'.deque) = {}
      BY <1>0, <2>2, <2>4, <3>1, <3>2
    <3>5. toConnection'.deque \in Seq(Packet)
      BY <2>2 DEF QueueOf
    <3> QED
      BY <1>0, <3>3, <3>4, <3>5, EmptyRange
  <2>7. /\ pc'[Writer] \in Closing => IsClose(front)
        /\ pc'[Writer] = "write" => ~IsClose(front)
    BY <2>1, <2>2 DEF Closing
  <2>8. /\ left \subseteq packets /\ Range(toConnection'.deque) \subseteq packets
        /\ \A other \in left : Fresh(toConnection', other)
    BY <1>0, <2>2, <2>3 DEF IncomingFresh
  <2>9. flowPacket'[Writer].id + 1 = toConnection'.currentId
    BY <2>2, <2>5
  <2> QED
    BY <2>2, <2>5, <2>6, <2>7, <2>8, <2>9 DEF IncomingFresh
<1>6. CASE WriteToEndpoint \/ ShutdownConnection \/ CloseStep(Writer)
  BY <1>1, <1>6 DEF WriteToEndpoint, ShutdownConnection, CloseStep, StopOnClose, TestClosed,
     Mark, Delete, LooperTypes, Closing
<1>7. CASE BonderStep
  BY <1>1, <1>7 DEF BonderStep, PopToBond, SubtractBacklog, Route, SendClose,
     CloseStep, StopOnClose, TestClosed, Mark, Delete, LooperTypes
<1>8. CASE DeleterStep \/ EndpointStep
  BY <1>1, <1>8 DEF DeleterStep, EraseFromMap, CloseConnection, FreeConnection, JoinLoopers,
               EndpointStep, EndpointWrites, EndpointCloses, loopers
<1> QED
  BY <1>2, <1>3, <1>4, <1>5, <1>6, <1>7, <1>8 DEF FlowStep, WriterStep

(* The peer sends another packet: its number is new, and it is coming.     *)
LEMMA IncomingGrows ==
  ASSUME NEW packets, NEW coming, NEW packet \in Packet,
         WellNumbered(packets), QueueTypes, IncomingFresh(packets, coming),
         \A p \in packets : p.id < packet.id /\ ~IsClose(p),
         pc[Writer] \in Closing => IsClose(flowPacket[Writer])
  PROVE  IncomingFresh(packets \union {packet}, coming \union {packet})
<1>1. packet.id \in Nat /\ toConnection.currentId \in Nat /\ \A p \in packets : p.id \in Nat
  BY PacketFields DEF QueueTypes, QueueOf, WellNumbered
<1>2. toConnection.currentId <= packet.id
  BY <1>1 DEF IncomingFresh
<1>3. \A p \in Range(toConnection.deque) : p.id # packet.id
  BY <1>1 DEF IncomingFresh
<1>4. Fresh(toConnection, packet)
  BY <1>1, <1>2, <1>3, FreshByRange
<1>5. pc[Writer] \notin Closing
  BY DEF IncomingFresh, Closing, Writer
<1> QED
  BY <1>4, <1>5 DEF IncomingFresh

----------------------------------------------------------------------------
(* Who closes, who deletes, and when.                                      *)

ReaderEnded == pc[Reader] \in {"account", "done"} /\ ~running[Reader]
WriterEnded == pc[Writer] \in {"shutdown", "done"}
BonderEnded == pc[Bonder] \in {"close", "done"}

(* A close packet in the queue of the bond, or taken from it, shows that   *)
(* the reader ended.  closed_ shows that one of the closers is through; a  *)
(* closer that finds it set has not been through, so it was the other one, *)
(* and the reader, which has not ended yet, clears only for the writer.    *)
ClosingInv ==
  /\ \A p \in Range(toBond.deque) : IsClose(p) => ReaderEnded
  /\ pc[Bonder] \in Closing => ReaderEnded
  /\ closed => WriterEnded \/ BonderEnded
  /\ pc[Reader] \in {"clear", "renumber"} => WriterEnded
  /\ connection = "shut" => pc[Writer] = "done"
  /\ pc[Writer] = "delete" => BonderEnded
  /\ pc[Bonder] = "delete" => WriterEnded
  /\ deletions \in {0, 1}
  /\ deletions = 1 => WriterEnded /\ BonderEnded
  /\ deleter # "none" => deletions = 1
  /\ connection \in {"closed", "deleted"} => deletions = 1
  /\ ~inMap => deletions = 1

LEMMA ClosingStep ==
  ASSUME LooperTypes, LooperInv, QueueTypes, OutgoingFresh, ClosingInv,
         [FlowNext]_vars
  PROVE  ClosingInv'
<1> USE DEF Looper, Reader, Writer, Bonder, Goto, Hold, Stop, ReaderEnded, WriterEnded,
            BonderEnded, Closing
<1>1. CASE UNCHANGED vars
  BY <1>1 DEF vars, loopers, lifetime, ClosingInv
<1>2. CASE \E packet \in Packet : WriteToFlow(packet)
  BY <1>2 DEF WriteToFlow, loopers, lifetime, ClosingInv
<1>3. CASE RecvData \/ RecvEof \/ ReaderTestsClosed \/ RenumberClose \/ AddBacklog
  BY <1>3 DEF RecvData, RecvEof, ReaderTestsClosed, RenumberClose, AddBacklog, MayRead,
     lifetime, ClosingInv, LooperTypes, LooperInv
<1>4. CASE ClearToBond
  <2>1. Cleared(toBond).deque = <<>> /\ Range(<<>>) = {}
    BY EmptySeq DEF Cleared, Range
  <2> QED
    BY <1>4, <2>1 DEF ClearToBond, lifetime, ClosingInv, LooperTypes
<1>5. CASE InsertToBond
  <2>1. /\ pc[Reader] = "insert" /\ flowPacket[Reader] \in Packet
        /\ toBond \in QueueOf(Packet) /\ WellFormed(toBond)
        /\ flowPacket[Reader].id >= toBond.currentId
        /\ \A p \in Range(toBond.deque) : p.id # flowPacket[Reader].id
    <3>1. /\ flowPacket[Reader].id \in Nat /\ toBond.currentId \in Nat
          /\ \A p \in Range(toBond.deque) : p.id \in Nat
      BY PacketFields, RangeHasType DEF QueueTypes, QueueOf, LooperTypes
    <3> QED
      BY <1>5, <3>1 DEF InsertToBond, OutgoingFresh, LooperTypes, QueueTypes
  <2>2. Range(toBond'.deque) = Range(toBond.deque) \union {flowPacket[Reader]}
    <3>1. toBond' = Insert(toBond, flowPacket[Reader])
      BY <1>5 DEF InsertToBond
    <3>2. Fresh(toBond, flowPacket[Reader])
      BY <2>1, FreshByRange
    <3> QED
      BY <2>1, <3>1, <3>2, PacketFields, InsertProperties
  <2>3. \A p \in Range(toBond'.deque) : IsClose(p) => ReaderEnded'
    <3>1. IsClose(flowPacket[Reader]) => ~running[Reader]
      BY <2>1 DEF LooperInv, LooperTypes, IsClose
    <3> QED
      BY <1>5, <2>2, <3>1 DEF InsertToBond, ClosingInv, LooperTypes
  <2> QED
    BY <1>5, <2>3 DEF InsertToBond, lifetime, ClosingInv, LooperTypes
<1>6. CASE PopToConnection \/ WriteToEndpoint \/ ShutdownConnection
  BY <1>6 DEF PopToConnection, WriteToEndpoint, ShutdownConnection, lifetime, ClosingInv,
     LooperTypes
<1>7. ASSUME NEW looper \in {Writer, Bonder}, CloseStep(looper)
      PROVE  ClosingInv'
  <2>1. CASE StopOnClose(looper)
    BY <1>7, <2>1 DEF StopOnClose, lifetime, ClosingInv, LooperTypes
  <2>2. CASE TestClosed(looper)
    BY <1>7, <2>2 DEF TestClosed, lifetime, ClosingInv, LooperTypes
  <2>3. CASE Mark(looper)
    BY <1>7, <2>3 DEF Mark, lifetime, ClosingInv, LooperTypes
  <2>4. CASE Delete(looper)
    BY <1>7, <2>4 DEF Delete, lifetime, ClosingInv, LooperTypes
  <2> QED
    BY <1>7, <2>1, <2>2, <2>3, <2>4 DEF CloseStep
<1>8. CASE PopToBond
  <2>1. /\ toBond' = Popped(toBond) /\ toBond.nextAvailable
        /\ Hold(Bonder, Head(toBond.deque)) /\ WellFormed(toBond)
        /\ Bonder \in Looper /\ toBond \in QueueOf(Packet)
    BY <1>8 DEF PopToBond, OutgoingFresh, QueueTypes
  <2>2. PICK front \in Range(toBond.deque) :
          /\ front = Head(toBond.deque)
          /\ Range(toBond'.deque) = Range(toBond.deque) \ {front}
    BY <2>1, PopEffect
  <2> QED
    BY <1>8, <2>2 DEF PopToBond, lifetime, ClosingInv, LooperTypes
<1>9. CASE SubtractBacklog \/ Route \/ SendClose
  <2>1. CASE SubtractBacklog
    BY <2>1 DEF SubtractBacklog, lifetime, ClosingInv, LooperTypes
  <2>2. CASE Route
    BY <2>2 DEF Route, lifetime, ClosingInv, LooperTypes
  <2>3. CASE SendClose
    BY <2>3 DEF SendClose, lifetime, ClosingInv, LooperTypes
  <2> QED
    BY <1>9, <2>1, <2>2, <2>3
<1>10. CASE DeleterStep \/ EndpointStep
  BY <1>10 DEF DeleterStep, EraseFromMap, CloseConnection, FreeConnection, JoinLoopers,
     EndpointStep, EndpointWrites, EndpointCloses, loopers, lifetime, ClosingInv
<1> QED
  BY <1>1, <1>2, <1>3, <1>4, <1>5, <1>6, <1>7, <1>8, <1>9, <1>10
  DEF FlowNext, FlowStep, ReaderStep, WriterStep, BonderStep

----------------------------------------------------------------------------
(* Types.                                                                  *)

StreamTypes ==
  /\ closed \in BOOLEAN
  /\ satellite \in BOOLEAN
  /\ totalBacklog \in 0..(Word - 1)
  /\ inMap \in BOOLEAN
  /\ connection \in {"open", "shut", "closed", "deleted"}
  /\ deleter \in {"none", "erase", "close", "free", "join", "deleted"}
  /\ deletions \in Nat
  /\ endpoint \in {"open", "fin", "reset"}
  /\ written \in Nat
  /\ received \in 0..written
  /\ output \in Seq(Nat)
  /\ sent \in Seq([packet : Packet, path : {"ter", "sat"}])

LEMMA SentTypes ==
  ASSUME StreamTypes
  PROVE  /\ Len(sent) \in Nat /\ DOMAIN sent = 1..Len(sent)
         /\ \A i \in DOMAIN sent : sent[i].packet \in Packet
<1> DEFINE S == [packet : Packet, path : {"ter", "sat"}]
<1>1. sent \in Seq(S)
  BY DEF StreamTypes
<1>2. Len(sent) \in Nat /\ DOMAIN sent = 1..Len(sent)
  BY <1>1, LenProperties
<1>3. \A i \in 1..Len(sent) : sent[i] \in S
  BY <1>1, ElementOfSeq
<1> QED
  BY <1>2, <1>3

LEMMA TypesSplit == FlowTypeOK <=> LooperTypes /\ QueueTypes /\ StreamTypes
  BY DEF FlowTypeOK, LooperTypes, QueueTypes, QueueOf, StreamTypes

LEMMA WrapsAround ==
  ASSUME NEW n \in Int
  PROVE  n % Word \in 0..(Word - 1)
  BY FlowAssumption

LEMMA FunctionIsSeq ==
  ASSUME NEW S, NEW n \in Nat, NEW f \in [1..n -> S]
  PROVE  f \in Seq(S)
<1>1. [1..n -> S] \in {[1..m -> S] : m \in Nat}
  OBVIOUS
<1>2. f \in UNION {[1..m -> S] : m \in Nat}
  BY <1>1
<1> QED
  BY <1>2, SeqDef, Zenon

LEMMA StreamTypesStep ==
  ASSUME LooperTypes, StreamTypes, [FlowNext]_vars
  PROVE  StreamTypes'
<1> USE DEF Looper, Reader, Writer, Bonder, StreamTypes
<1>0. \A looper \in Looper : /\ flowPacket[looper] \in Packet
                             /\ flowPacket[looper].size \in Nat
                             /\ flowPacket[looper].from \in Nat
  BY PacketFields DEF LooperTypes
<1>1. CASE UNCHANGED vars
  BY <1>1 DEF vars, backlog, lifetime, peer
<1>2. CASE \E packet \in Packet : WriteToFlow(packet)
  BY <1>2 DEF WriteToFlow, backlog, lifetime, peer
<1>3. CASE RecvData
  <2>1. Available \in Nat /\ Available <= written - received
    BY <1>3, FlowAssumption DEF RecvData, Available
  <2> QED
    BY <1>3, <2>1 DEF RecvData, backlog, lifetime
<1>4. CASE RecvEof \/ ReaderTestsClosed \/ ClearToBond \/ RenumberClose \/ InsertToBond
  BY <1>4 DEF RecvEof, ReaderTestsClosed, ClearToBond, RenumberClose, InsertToBond,
     backlog, lifetime, peer
<1>5. CASE AddBacklog
  <2>1. totalBacklog + flowPacket[Reader].size \in Int
    BY <1>0, FlowAssumption
  <2>2. (totalBacklog + flowPacket[Reader].size) % Word \in 0..(Word - 1)
    BY <2>1, WrapsAround
  <2> QED
    BY <1>5, <2>2 DEF AddBacklog, lifetime, peer
<1>6. CASE PopToConnection \/ ShutdownConnection \/ PopToBond
  BY <1>6 DEF PopToConnection, ShutdownConnection, PopToBond, backlog, lifetime, peer
<1>7. CASE WriteToEndpoint
  <2>1. Bytes(flowPacket[Writer]) \in Seq(Nat)
    <3>1. \A i \in 1..flowPacket[Writer].size : flowPacket[Writer].from + i - 1 \in Nat
      BY <1>0
    <3>2. flowPacket[Writer].size \in Nat
      BY <1>0
    <3>3. Bytes(flowPacket[Writer]) \in [1..flowPacket[Writer].size -> Nat]
      BY <3>1 DEF Bytes
    <3> QED
      BY <3>2, <3>3, FunctionIsSeq
  <2>2. output \o Bytes(flowPacket[Writer]) \in Seq(Nat)
    BY <2>1, ConcatProperties
  <2> QED
    BY <1>7, <2>2 DEF WriteToEndpoint, backlog, lifetime
<1>8. ASSUME NEW looper \in {Writer, Bonder}, CloseStep(looper)
      PROVE  StreamTypes'
  <2>1. CASE StopOnClose(looper) \/ TestClosed(looper)
    BY <2>1 DEF StopOnClose, TestClosed, backlog, lifetime, peer
  <2>2. CASE Mark(looper)
    BY <2>2 DEF Mark, backlog, lifetime, peer
  <2>3. CASE Delete(looper)
    BY <2>3 DEF Delete, backlog, peer
  <2> QED
    BY <1>8, <2>1, <2>2, <2>3 DEF CloseStep
<1>9. CASE SubtractBacklog
  <2>1. totalBacklog - flowPacket[Bonder].size \in Int
    BY <1>0, FlowAssumption
  <2>2. (totalBacklog - flowPacket[Bonder].size) % Word \in 0..(Word - 1)
    BY <2>1, WrapsAround
  <2> QED
    BY <1>9, <2>2 DEF SubtractBacklog, lifetime, peer
<1>10. CASE Route \/ SendClose
  <2>1. ASSUME NEW path \in {"ter", "sat"}, HandOver(flowPacket[Bonder], path)
        PROVE  sent' \in Seq([packet : Packet, path : {"ter", "sat"}])
    BY <1>0, <2>1, AppendProperties DEF HandOver
  <2> QED
    BY <1>10, <2>1 DEF Route, SendClose, backlog, lifetime, peer
<1>11. CASE DeleterStep
  BY <1>11 DEF DeleterStep, EraseFromMap, CloseConnection, FreeConnection, JoinLoopers,
     backlog, peer
<1>12. CASE EndpointStep
  BY <1>12 DEF EndpointStep, EndpointWrites, EndpointCloses, backlog, lifetime
<1> QED
  BY <1>1, <1>2, <1>3, <1>4, <1>5, <1>6, <1>7, <1>8, <1>9, <1>10, <1>11, <1>12
  DEF FlowNext, FlowStep, ReaderStep, WriterStep, BonderStep

----------------------------------------------------------------------------
(* The total backlog.                                                      *)

LEMMA DivMod ==
  ASSUME NEW w \in Nat \ {0}, NEW a \in Int
  PROVE  a \div w \in Int /\ a % w \in 0..(w - 1) /\ a = w * (a \div w) + (a % w)
  OBVIOUS

LEMMA RemainderUnique ==
  ASSUME NEW w \in Nat \ {0}, NEW q \in Int, NEW p \in Int,
         NEW r \in 0..(w - 1), NEW s \in 0..(w - 1), w * q + r = w * p + s
  PROVE  r = s
<1>1. w * (q - p) = s - r /\ w * (p - q) = r - s
  OBVIOUS
<1>2. ~(q - p >= 1)
  <2>1. q - p >= 1 => w * (q - p) >= w
    OBVIOUS
  <2> QED
    BY <1>1, <2>1
<1>3. ~(p - q >= 1)
  <2>1. p - q >= 1 => w * (p - q) >= w
    OBVIOUS
  <2> QED
    BY <1>1, <2>1
<1> QED
  BY <1>2, <1>3

(* Adding to a counter that wraps around: the width is taken off at the    *)
(* end, or on the way.                                                     *)
LEMMA WrapSum ==
  ASSUME NEW w \in Nat \ {0}, NEW a \in Int, NEW b \in Int
  PROVE  ((a % w) + b) % w = (a + b) % w
<1> DEFINE c == (a % w) + b
           d == a + b
           q == (a \div w) + (c \div w)
           p == d \div w
           r == c % w
           s == d % w
<1>1. a \div w \in Int /\ a % w \in 0..(w - 1) /\ a = w * (a \div w) + (a % w)
  BY DivMod
<1>2. c \in Int /\ d \in Int /\ d = w * (a \div w) + c
  BY <1>1
<1>3. c \div w \in Int /\ r \in 0..(w - 1) /\ c = w * (c \div w) + r
  BY <1>2, DivMod
<1>4. p \in Int /\ s \in 0..(w - 1) /\ d = w * p + s
  BY <1>2, DivMod
<1>5. w * (a \div w) + w * (c \div w) = w * q
  BY <1>1, <1>3
<1>6. q \in Int
  BY <1>1, <1>3
<1> HIDE DEF c, d, q, p, r, s
<1>7. w * q + r = w * p + s
  BY <1>1, <1>2, <1>3, <1>4, <1>5, <1>6
<1>8. r = s
  BY <1>3, <1>4, <1>6, <1>7, RemainderUnique
<1> QED
  BY <1>8 DEF c, d, r, s

InPop == IF pc[Bonder] = "subtract" THEN flowPacket[Bonder].size ELSE 0
InInsert == IF pc[Reader] = "account" THEN flowPacket[Reader].size ELSE 0

LEMMA BacklogStep ==
  ASSUME LooperTypes, LooperInv, QueueTypes, OutgoingFresh, BacklogTracksQueue,
         [FlowNext]_vars
  PROVE  BacklogTracksQueue'
<1> USE DEF Looper, Reader, Writer, Bonder, Goto, Hold, Stop
<1> DEFINE Held == toBond.byteSize + InPop - InInsert
<1>0. /\ toBond.byteSize \in Int
      /\ \A looper \in Looper : flowPacket[looper].size \in Nat
      /\ InPop \in Int /\ InInsert \in Int /\ Held \in Int
      /\ totalBacklog = Held % Word
  BY PacketFields DEF QueueTypes, QueueOf, LooperTypes, BacklogTracksQueue, InPop, InInsert
<1>1. ASSUME totalBacklog' = totalBacklog, Held' = Held
      PROVE  BacklogTracksQueue'
  BY <1>0, <1>1 DEF BacklogTracksQueue, InPop, InInsert
(* Steps that leave alone what is counted.                                 *)
<1>2. ASSUME totalBacklog' = totalBacklog, toBond'.byteSize = toBond.byteSize,
             InPop' = InPop, InInsert' = InInsert
      PROVE  BacklogTracksQueue'
  BY <1>1, <1>2
<1>3. CASE UNCHANGED vars
  BY <1>2, <1>3 DEF vars, loopers, backlog, InPop, InInsert
<1>4. CASE \E packet \in Packet : WriteToFlow(packet)
  BY <1>2, <1>4 DEF WriteToFlow, loopers, backlog, InPop, InInsert
<1>5. CASE RecvData \/ RecvEof \/ ReaderTestsClosed \/ RenumberClose
  BY <1>2, <1>5 DEF RecvData, RecvEof, ReaderTestsClosed, RenumberClose, MayRead, backlog,
     InPop, InInsert, LooperTypes
<1>6. CASE ClearToBond
  BY <1>2, <1>6 DEF ClearToBond, Cleared, backlog, InPop, InInsert, LooperTypes
<1>7. CASE InsertToBond
  <2>1. toBond'.byteSize = toBond.byteSize + flowPacket[Reader].size
    BY <1>7 DEF InsertToBond, Insert
  <2>2. totalBacklog' = totalBacklog /\ InPop' = InPop /\ InInsert = 0
        /\ InInsert' = flowPacket[Reader].size
    BY <1>7 DEF InsertToBond, backlog, InPop, InInsert, LooperTypes
  <2> QED
    BY <1>0, <1>1, <2>1, <2>2
<1>8. CASE AddBacklog
  <2> DEFINE size == flowPacket[Reader].size
  <2>1. /\ totalBacklog' = (totalBacklog + size) % Word /\ toBond' = toBond
        /\ InPop' = InPop /\ InInsert = size /\ InInsert' = 0
    BY <1>8 DEF AddBacklog, InPop, InInsert, LooperTypes
  <2>2. Held' = Held + size
    BY <1>0, <2>1
  <2> HIDE DEF Held
  <2>3. totalBacklog' = (Held + size) % Word
    BY <1>0, <2>1, WrapSum, FlowAssumption
  <2> QED
    BY <2>2, <2>3 DEF Held, BacklogTracksQueue, InPop, InInsert
<1>9. CASE PopToBond
  <2>1. /\ toBond' = Popped(toBond) /\ toBond.nextAvailable
        /\ Hold(Bonder, Head(toBond.deque)) /\ WellFormed(toBond)
        /\ Bonder \in Looper /\ toBond \in QueueOf(Packet)
    BY <1>9 DEF PopToBond, OutgoingFresh, QueueTypes
  <2>2. PICK front \in Range(toBond.deque) :
          /\ front = Head(toBond.deque) /\ front \in Packet
          /\ flowPacket' = [flowPacket EXCEPT ![Bonder] = front]
    BY <2>1, PopEffect
  <2>3. toBond'.byteSize = toBond.byteSize - front.size /\ front.size \in Nat
    BY <2>1, <2>2, PacketFields DEF Popped
  <2>4. totalBacklog' = totalBacklog /\ InInsert' = InInsert /\ InPop = 0
        /\ InPop' = front.size
    BY <1>9, <2>2 DEF PopToBond, backlog, InPop, InInsert, LooperTypes, IsClose
  <2> QED
    BY <1>0, <1>1, <2>3, <2>4
<1>10. CASE SubtractBacklog
  <2> DEFINE size == flowPacket[Bonder].size
  <2>1. /\ totalBacklog' = (totalBacklog - size) % Word /\ toBond' = toBond
        /\ InPop = size /\ InPop' = 0 /\ InInsert' = InInsert
    BY <1>10 DEF SubtractBacklog, InPop, InInsert, LooperTypes
  <2>2. Held' = Held + (-size) /\ -size \in Int
    BY <1>0, <2>1
  <2>3. totalBacklog - size = totalBacklog + (-size)
    BY <1>0
  <2> HIDE DEF Held
  <2>4. totalBacklog' = (Held + (-size)) % Word
    BY <1>0, <2>1, <2>2, <2>3, WrapSum, FlowAssumption
  <2> QED
    BY <2>2, <2>4 DEF Held, BacklogTracksQueue, InPop, InInsert
<1>11. CASE PopToConnection \/ WriteToEndpoint \/ ShutdownConnection
  BY <1>2, <1>11 DEF PopToConnection, WriteToEndpoint, ShutdownConnection, backlog,
     InPop, InInsert, LooperTypes
<1>12. CASE Route \/ SendClose
  BY <1>2, <1>12 DEF Route, SendClose, backlog, InPop, InInsert, LooperTypes
<1>13. ASSUME NEW looper \in {Writer, Bonder}, CloseStep(looper)
       PROVE  BacklogTracksQueue'
  BY <1>2, <1>13 DEF CloseStep, StopOnClose, TestClosed, Mark, Delete, backlog,
     InPop, InInsert, LooperTypes
<1>14. CASE DeleterStep \/ EndpointStep
  BY <1>2, <1>14 DEF DeleterStep, EraseFromMap, CloseConnection, FreeConnection, JoinLoopers,
     EndpointStep, EndpointWrites, EndpointCloses, loopers, backlog, InPop, InInsert
<1> QED
  BY <1>3, <1>4, <1>5, <1>6, <1>7, <1>8, <1>9, <1>10, <1>11, <1>12, <1>13, <1>14
  DEF FlowNext, FlowStep, ReaderStep, WriterStep, BonderStep

----------------------------------------------------------------------------
(* The bytes the endpoint receives.                                        *)

EndpointReads == connection = "open" /\ endpoint # "reset"
InWrite == IF pc[Writer] = "write" THEN flowPacket[Writer].size ELSE 0

(* The number of the data packets the writer popped.                       *)
Passed == IF pc[Writer] \in Closing THEN toConnection.currentId - 1
          ELSE toConnection.currentId

(* As long as Send succeeds the output, with the packet the writer holds,  *)
(* ends where the last of them ends.                                       *)
DeliveryInv(packets) ==
  /\ DeliveredInOrder
  /\ EndpointReads =>
       /\ Passed = 0 => Len(output) + InWrite = 0
       /\ \A p \in packets : p.id + 1 = Passed => p.from + p.size = Len(output) + InWrite

LEMMA DeliveryStep ==
  ASSUME NEW packets, NEW coming, WellNumbered(packets),
         LooperTypes, LooperInv, QueueTypes, StreamTypes, IncomingFresh(packets, coming),
         DeliveryInv(packets), [FlowNext]_vars
  PROVE  DeliveryInv(packets)'
<1> USE DEF Looper, Reader, Writer, Bonder, Goto, Hold, Stop
<1>0. /\ toConnection.currentId \in Nat
      /\ flowPacket[Writer].size \in Nat /\ flowPacket[Writer].from \in Nat
      /\ output \in Seq(Nat) /\ Len(output) \in Nat /\ DOMAIN output = 1..Len(output)
      /\ \A p \in packets : p.id \in Nat /\ p.size \in Nat /\ p.from \in Nat
  BY PacketFields, LenProperties
  DEF QueueTypes, QueueOf, LooperTypes, StreamTypes, WellNumbered
(* Steps that leave the writer and the numbering of its queue alone.       *)
<1>1. ASSUME output' = output, toConnection'.currentId = toConnection.currentId,
             \/ pc'[Writer] = pc[Writer]
             \/ pc[Writer] \in Closing /\ pc'[Writer] \in Closing,
             flowPacket'[Writer] = flowPacket[Writer],
             EndpointReads' => EndpointReads
      PROVE  DeliveryInv(packets)'
  BY <1>1 DEF DeliveryInv, DeliveredInOrder, InWrite, Passed, Closing
<1>2. CASE UNCHANGED vars
  BY <1>1, <1>2 DEF vars, loopers, lifetime, peer, EndpointReads
<1>3. CASE \E packet \in Packet : WriteToFlow(packet)
  BY <1>1, <1>3 DEF WriteToFlow, Insert, loopers, lifetime, peer, EndpointReads
<1>4. CASE ReaderStep
  BY <1>1, <1>4 DEF ReaderStep, RecvData, RecvEof, ReaderTestsClosed, ClearToBond,
     RenumberClose, InsertToBond, AddBacklog, lifetime, peer, EndpointReads, LooperTypes
<1>5. CASE PopToConnection
  <2>1. /\ toConnection' = Popped(toConnection) /\ toConnection.nextAvailable
        /\ Hold(Writer, Head(toConnection.deque)) /\ WellFormed(toConnection)
        /\ pc[Writer] = "pop" /\ output' = output /\ EndpointReads' = EndpointReads
        /\ pc'[Writer] = IF IsClose(Head(toConnection.deque)) THEN "stop" ELSE "write"
    BY <1>5 DEF PopToConnection, IncomingFresh, LooperTypes, lifetime, peer, EndpointReads
  <2>2. PICK front \in Range(toConnection.deque) :
          /\ front = Head(toConnection.deque)
          /\ front \in Packet /\ front.id = toConnection.currentId
          /\ flowPacket' = [flowPacket EXCEPT ![Writer] = front]
          /\ toConnection'.currentId = toConnection.currentId + 1
    <3>1. Writer \in Looper /\ toConnection \in QueueOf(Packet)
      BY DEF QueueTypes
    <3> QED
      BY <2>1, <3>1, PopEffect
  <2>3. front \in packets /\ flowPacket'[Writer] = front
    BY <2>2 DEF IncomingFresh, LooperTypes
  <2>4. Passed = toConnection.currentId /\ InWrite = 0
    BY <2>1 DEF Passed, InWrite, Closing
  <2>5. DeliveredInOrder'
    BY <2>1 DEF DeliveryInv, DeliveredInOrder
  <2>6. CASE IsClose(front)
    <3>1. Passed' = Passed /\ InWrite' = 0
      BY <1>0, <2>1, <2>2, <2>4, <2>6 DEF Passed, InWrite, Closing
    <3> QED
      BY <2>1, <2>4, <2>5, <3>1 DEF DeliveryInv
  <2>7. CASE ~IsClose(front)
    <3>1. Passed' = toConnection.currentId + 1 /\ InWrite' = front.size
      BY <2>1, <2>2, <2>3, <2>7 DEF Passed, InWrite, Closing
    <3>2. ASSUME EndpointReads
          PROVE  front.from = Len(output)
      <4>1. CASE toConnection.currentId = 0
        BY <1>0, <2>2, <2>3, <2>4, <2>7, <3>2, <4>1 DEF DeliveryInv, WellNumbered
      <4>2. CASE toConnection.currentId # 0
        <5>1. PICK p \in packets : p.id + 1 = toConnection.currentId
          BY <4>2 DEF IncomingFresh
        <5>2. p.from + p.size = Len(output)
          BY <1>0, <2>4, <3>2, <5>1 DEF DeliveryInv
        <5>3. front.from = p.from + p.size
          BY <2>2, <2>3, <2>7, <5>1 DEF WellNumbered
        <5> QED
          BY <5>2, <5>3
      <4> QED
        BY <4>1, <4>2
    <3>3. ASSUME EndpointReads, NEW p \in packets, p.id + 1 = Passed'
          PROVE  p.from + p.size = Len(output) + InWrite'
      <4>1. p = front
        BY <1>0, <2>2, <2>3, <3>1, <3>3 DEF WellNumbered
      <4> QED
        BY <3>1, <3>2, <3>3, <4>1
    <3> QED
      BY <1>0, <2>1, <2>5, <3>1, <3>3 DEF DeliveryInv
  <2> QED
    BY <2>6, <2>7
<1>6. CASE WriteToEndpoint
  <2> DEFINE packet == flowPacket[Writer]
             bytes == Bytes(packet)
  <2>1. /\ toConnection' = toConnection /\ pc[Writer] = "write" /\ pc'[Writer] = "pop"
        /\ EndpointReads' = EndpointReads
        /\ output' = IF EndpointReads THEN output \o bytes ELSE output
    BY <1>6 DEF WriteToEndpoint, lifetime, LooperTypes, EndpointReads
  <2>2. InWrite = packet.size /\ InWrite' = 0 /\ Passed' = Passed
        /\ Passed = toConnection.currentId
    BY <2>1 DEF InWrite, Passed, Closing
  <2>3. CASE EndpointReads
    <3>1. packet.from = Len(output)
      <4>1. packet \in packets /\ packet.id + 1 = Passed
        BY <2>1, <2>2 DEF IncomingFresh
      <4>2. packet.from + packet.size = Len(output) + packet.size
        BY <2>2, <2>3, <4>1 DEF DeliveryInv
      <4> QED
        BY <1>0, <4>2
    <3>2. /\ bytes \in Seq(Nat) /\ Len(bytes) = packet.size
          /\ \A i \in 1..packet.size : bytes[i] = packet.from + i - 1
      <4>1. \A i \in 1..packet.size : packet.from + i - 1 \in Nat
        BY <1>0
      <4>2. bytes \in [1..packet.size -> Nat]
        BY <4>1 DEF Bytes
      <4>3. bytes \in Seq(Nat)
        BY <1>0, <4>2, FunctionIsSeq
      <4>4. Len(bytes) = packet.size
        BY <1>0, <4>2, <4>3, LenProperties
      <4> QED
        BY <4>3, <4>4 DEF Bytes
    <3> HIDE DEF packet, bytes
    <3>3. /\ Len(output') = Len(output) + packet.size
          /\ DOMAIN output' = 1..(Len(output) + packet.size)
          /\ \A i \in 1..Len(output) : output'[i] = output[i]
          /\ \A i \in 1..packet.size : output'[Len(output) + i] = bytes[i]
      <4>1. output' = output \o bytes /\ output \in Seq(Nat) /\ bytes \in Seq(Nat)
        BY <1>0, <2>1, <2>3, <3>2
      <4> QED
        BY <1>0, <3>2, <4>1, ConcatProperties, LenProperties
    <3>4. ASSUME NEW i \in 1..(Len(output) + packet.size)
          PROVE  output'[i] = i - 1
      <4>1. CASE i \in 1..Len(output)
        BY <1>0, <3>3, <4>1 DEF DeliveryInv, DeliveredInOrder
      <4>2. CASE i > Len(output)
        <5>1. i - Len(output) \in 1..packet.size /\ Len(output) + (i - Len(output)) = i
          BY <1>0, <4>2 DEF packet
        <5>2. output'[i] = packet.from + (i - Len(output)) - 1
          BY <3>2, <3>3, <5>1
        <5> QED
          BY <1>0, <3>1, <5>2
      <4> QED
        BY <1>0, <4>1, <4>2
    <3>5. /\ Passed' = 0 => Len(output') + InWrite' = 0
          /\ \A p \in packets : p.id + 1 = Passed' => p.from + p.size = Len(output') + InWrite'
      BY <1>0, <2>1, <2>2, <2>3, <3>3 DEF DeliveryInv, packet
    <3> QED
      BY <2>1, <3>3, <3>4, <3>5 DEF DeliveryInv, DeliveredInOrder
  <2>4. CASE ~EndpointReads
    BY <2>1, <2>4 DEF DeliveryInv, DeliveredInOrder
  <2> QED
    BY <2>3, <2>4
<1>7. CASE ShutdownConnection \/ CloseStep(Writer)
  <2>1. /\ output' = output /\ toConnection' = toConnection /\ flowPacket' = flowPacket
        /\ pc[Writer] \in Closing /\ pc'[Writer] \in Closing
        /\ EndpointReads' => EndpointReads
    BY <1>7 DEF ShutdownConnection, CloseStep, StopOnClose, TestClosed, Mark, Delete,
       lifetime, peer, EndpointReads, LooperTypes, Closing
  <2> QED
    BY <1>1, <2>1
<1>8. CASE BonderStep
  BY <1>1, <1>8 DEF BonderStep, PopToBond, SubtractBacklog, Route, SendClose, CloseStep,
     StopOnClose, TestClosed, Mark, Delete, lifetime, peer, EndpointReads, LooperTypes
<1>9. CASE DeleterStep \/ EndpointStep
  BY <1>1, <1>9 DEF DeleterStep, EraseFromMap, CloseConnection, FreeConnection, JoinLoopers,
     EndpointStep, EndpointWrites, EndpointCloses, loopers, lifetime, peer, EndpointReads
<1> QED
  BY <1>2, <1>3, <1>4, <1>5, <1>6, <1>7, <1>8, <1>9
  DEF FlowNext, FlowStep, WriterStep

(* Packets beyond those popped change nothing.                             *)
LEMMA DeliveryGrows ==
  ASSUME NEW packets, NEW packet \in Packet, WellNumbered(packets), QueueTypes,
         DeliveryInv(packets), packet.id >= toConnection.currentId
  PROVE  DeliveryInv(packets \union {packet})
<1>1. packet.id \in Nat /\ toConnection.currentId \in Nat
  BY PacketFields DEF QueueTypes, QueueOf
<1>2. packet.id + 1 # Passed
  BY <1>1 DEF Passed
<1> QED
  BY <1>2 DEF DeliveryInv

(* The endpoint sees its own writes and, in order, what the peer sent.     *)
LEMMA EndpointSees ==
  ASSUME NEW packets, NEW coming, WellNumbered(packets), LooperTypes, QueueTypes, StreamTypes,
         IncomingFresh(packets, coming), DeliveryInv(packets), FlowStep
  PROVE  \/ written' \in {written, written + 1} /\ output' = output
         \/ /\ written' = written
            /\ \E p \in packets : p.size # 0 /\ p.from = Len(output) /\ output' = output \o Bytes(p)
<1> USE DEF Looper, Reader, Writer, Bonder
<1>1. CASE WriteToEndpoint
  <2> DEFINE packet == flowPacket[Writer]
  <2>1. /\ pc[Writer] = "write" /\ written' = written
        /\ output' = IF EndpointReads THEN output \o Bytes(packet) ELSE output
    BY <1>1 DEF WriteToEndpoint, EndpointReads
  <2>2. /\ packet \in packets /\ packet.size # 0
        /\ packet.id + 1 = toConnection.currentId
    BY <2>1 DEF IncomingFresh, IsClose
  <2>3. Passed = toConnection.currentId /\ InWrite = packet.size
    BY <2>1 DEF Passed, InWrite, Closing
  <2>4. /\ packet.from \in Nat /\ packet.size \in Nat /\ Len(output) \in Nat
    BY PacketFields, LenProperties DEF LooperTypes, StreamTypes
  <2>5. EndpointReads => packet.from = Len(output)
    <3>1. EndpointReads => packet.from + packet.size = Len(output) + packet.size
      BY <2>2, <2>3 DEF DeliveryInv
    <3> QED
      BY <2>4, <3>1
  <2> HIDE DEF packet
  <2>6. CASE EndpointReads
    BY <2>1, <2>2, <2>5, <2>6
  <2>7. CASE ~EndpointReads
    BY <2>1, <2>7
  <2> QED
    BY <2>6, <2>7
<1>2. CASE ReaderStep
  BY <1>2 DEF ReaderStep, RecvData, RecvEof, ReaderTestsClosed, ClearToBond, RenumberClose,
     InsertToBond, AddBacklog, peer
<1>3. CASE PopToConnection \/ ShutdownConnection \/ CloseStep(Writer)
  BY <1>3 DEF PopToConnection, ShutdownConnection, CloseStep, StopOnClose, TestClosed, Mark,
     Delete, peer
<1>4. CASE BonderStep
  BY <1>4 DEF BonderStep, PopToBond, SubtractBacklog, Route, SendClose, CloseStep,
     StopOnClose, TestClosed, Mark, Delete, peer
<1>5. CASE DeleterStep \/ EndpointStep
  BY <1>5 DEF DeleterStep, EraseFromMap, CloseConnection, FreeConnection, JoinLoopers,
     EndpointStep, EndpointWrites, EndpointCloses, peer
<1> QED
  BY <1>1, <1>2, <1>3, <1>4, <1>5 DEF FlowStep, WriterStep

----------------------------------------------------------------------------
(* The packets the peer receives.                                          *)

SentEnd == IF sent = <<>> THEN 0
           ELSE sent[Len(sent)].packet.from + sent[Len(sent)].packet.size

(* Where the next packet popped has to start.                              *)
NextFrom == IF pc[Bonder] \in {"subtract", "route"}
            THEN flowPacket[Bonder].from + flowPacket[Bonder].size
            ELSE SentEnd

(* The packets between the reader and the bonder: the data, and the close  *)
(* packet as long as the reader cannot clear, which it does only after the *)
(* writer ended.                                                           *)
Waiting(p) ==
  /\ p \in Packet
  /\ ~IsClose(p) \/ ~WriterEnded
  /\ \/ p \in Range(toBond.deque)
     \/ pc[Reader] \in {"eof", "insert"} /\ p = flowPacket[Reader]

(* What was handed over and what the bonder holds.                         *)
SentInv ==
  /\ OutgoingWellFormed
  /\ pc[Bonder] # "done" => \A i \in DOMAIN sent : ~IsClose(sent[i].packet)
  /\ pc[Bonder] = "pop" => toBond.currentId = Len(sent)
  /\ pc[Bonder] \notin {"pop", "done"} =>
       flowPacket[Bonder].id = Len(sent) /\ toBond.currentId = Len(sent) + 1
  /\ pc[Bonder] \in {"subtract", "route"} =>
       ~IsClose(flowPacket[Bonder]) /\ flowPacket[Bonder].from = SentEnd
  /\ pc[Bonder] \in Closing \ {"done"} /\ ~WriterEnded => flowPacket[Bonder].from = SentEnd
  /\ pc[Bonder] = "done" => sent # <<>> /\ IsClose(sent[Len(sent)].packet)
  /\ pc[Bonder] = "done" /\ ~WriterEnded =>
       sent[Len(sent)].packet.from =
         IF Len(sent) = 1 THEN 0
         ELSE sent[Len(sent) - 1].packet.from + sent[Len(sent) - 1].packet.size

(* What waits continues it, up to where the reader is.                     *)
WaitingInv ==
  /\ pc[Bonder] \in {"pop", "subtract", "route"} =>
       /\ \A p \in Packet : Waiting(p) /\ p.id = toBond.currentId => p.from = NextFrom
       /\ running[Reader] /\ toBond.currentId = toBondId => NextFrom = received
  /\ \A p, q \in Packet : Waiting(p) /\ Waiting(q) /\ q.id = p.id + 1 =>
                            q.from = p.from + p.size
  /\ running[Reader] =>
       \A p \in Packet : Waiting(p) /\ p.id + 1 = toBondId => p.from + p.size = received

LEMMA WriterStaysEnded ==
  ASSUME LooperTypes, [FlowNext]_vars
  PROVE  WriterEnded => WriterEnded'
<1> USE DEF LooperTypes, WriterEnded, Looper, Reader, Writer, Bonder, Goto
<1>1. CASE UNCHANGED vars
  BY <1>1 DEF vars, loopers
<1>2. CASE \E packet \in Packet : WriteToFlow(packet)
  BY <1>2 DEF WriteToFlow, loopers
<1>3. CASE ReaderStep
  BY <1>3 DEF ReaderStep, RecvData, RecvEof, ReaderTestsClosed, ClearToBond, RenumberClose,
     InsertToBond, AddBacklog
<1>4. CASE WriterStep
  BY <1>4 DEF WriterStep, PopToConnection, WriteToEndpoint, ShutdownConnection, CloseStep,
     StopOnClose, TestClosed, Mark, Delete
<1>5. CASE BonderStep
  BY <1>5 DEF BonderStep, PopToBond, SubtractBacklog, Route, SendClose, CloseStep,
     StopOnClose, TestClosed, Mark, Delete
<1>6. CASE DeleterStep \/ EndpointStep
  BY <1>6 DEF DeleterStep, EraseFromMap, CloseConnection, FreeConnection, JoinLoopers,
     EndpointStep, EndpointWrites, EndpointCloses, loopers
<1> QED
  BY <1>1, <1>2, <1>3, <1>4, <1>5, <1>6 DEF FlowNext, FlowStep

LEMMA OutgoingDataStep ==
  ASSUME LooperTypes, LooperInv, QueueTypes, StreamTypes, OutgoingFresh, ClosingInv,
         SentInv, WaitingInv,
         [FlowNext]_vars
  PROVE  SentInv' /\ WaitingInv'
<1> USE DEF Looper, Reader, Writer, Bonder, Goto, Hold, Stop
<1>0. /\ toBond.currentId \in Nat /\ toBondId \in Nat /\ received \in Nat
      /\ \A looper \in Looper : flowPacket[looper] \in Packet
      /\ \A p \in Packet : p.id \in Nat /\ p.size \in Nat /\ p.from \in Nat
      /\ Range(toBond.deque) \subseteq Packet
  BY PacketFields, RangeHasType DEF QueueTypes, QueueOf, LooperTypes, StreamTypes
<1>15. Len(sent) \in Nat /\ DOMAIN sent = 1..Len(sent)
  BY LenProperties DEF StreamTypes
<1>17. WriterEnded => WriterEnded'
  BY WriterStaysEnded
(* What was sent so far, element by element.                               *)
<1>16. ASSUME SentInv, NEW i \in 1..Len(sent)
       PROVE  /\ sent[i].packet.id = i - 1
              /\ IsClose(sent[i].packet) => i = Len(sent)
              /\ ~IsClose(sent[i].packet) =>
                   sent[i].packet.from = IF i = 1 THEN 0
                                         ELSE sent[i-1].packet.from + sent[i-1].packet.size
  BY <1>15, <1>16 DEF SentInv, OutgoingWellFormed
(* Steps that change neither what was sent nor what waits.                 *)
<1>1. ASSUME sent' = sent, toBond'.currentId = toBond.currentId,
             \/ pc'[Bonder] = pc[Bonder]
             \/ /\ pc[Bonder] \notin {"pop", "done"} /\ pc'[Bonder] \notin {"pop", "done"}
                /\ pc'[Bonder] \in {"subtract", "route"} <=>
                     pc[Bonder] \in {"subtract", "route"},
             flowPacket'[Bonder] = flowPacket[Bonder]
      PROVE  SentInv' /\ SentEnd' = SentEnd /\ NextFrom' = NextFrom
  BY <1>1, <1>17 DEF SentInv, OutgoingWellFormed, SentEnd, NextFrom, LooperInv, Closing
<1>2. ASSUME \A p \in Packet : Waiting(p)' => Waiting(p),
             toBond'.currentId = toBond.currentId, NextFrom' = NextFrom,
             pc'[Bonder] \in {"pop", "subtract", "route"} =>
               pc[Bonder] \in {"pop", "subtract", "route"},
             running'[Reader] => running[Reader] /\ toBondId' = toBondId /\ received' = received
      PROVE  WaitingInv'
  BY <1>2 DEF WaitingInv
<1>3. CASE UNCHANGED vars
  <2>1. \A p \in Packet : Waiting(p)' => Waiting(p)
    BY <1>3, <1>17 DEF vars, loopers, Waiting
  <2> QED
    BY <1>1, <1>2, <1>3, <2>1 DEF vars, loopers, peer
<1>4. CASE \E packet \in Packet : WriteToFlow(packet)
  <2>1. \A p \in Packet : Waiting(p)' => Waiting(p)
    BY <1>4, <1>17 DEF WriteToFlow, loopers, Waiting
  <2> QED
    BY <1>1, <1>2, <1>4, <2>1 DEF WriteToFlow, loopers, peer
<1>5. CASE RecvData
  <2> DEFINE n == [id |-> toBondId, size |-> Available, from |-> received]
  <2>1. /\ pc[Reader] = "poll" /\ pc'[Reader] = "insert" /\ flowPacket'[Reader] = n
        /\ toBond' = toBond /\ toBondId' = toBondId + 1 /\ received' = received + Available
        /\ sent' = sent /\ pc'[Bonder] = pc[Bonder] /\ flowPacket'[Bonder] = flowPacket[Bonder]
        /\ running' = running
    BY <1>5 DEF RecvData, MayRead, LooperTypes
  <2>2. running[Reader]
    BY <2>1 DEF LooperInv
  <2>3. n.id = toBondId /\ n.from = received /\ n.size = Available
    OBVIOUS
  <2>4. /\ SentInv' /\ NextFrom' = NextFrom
        /\ pc'[Bonder] = pc[Bonder] /\ toBond'.currentId = toBond.currentId
    BY <1>1, <2>1
  <2> HIDE DEF n
  <2>5. \A p \in Packet : Waiting(p)' => Waiting(p) \/ p = n
    BY <2>1, <1>17 DEF Waiting
  <2>6. \A p \in Packet : Waiting(p) => p.id < toBondId
    BY <2>1 DEF Waiting, OutgoingFresh
  <2>7. Available \in Nat
    BY <1>5, FlowAssumption DEF Available, RecvData, StreamTypes
  <2>8. toBond.currentId <= toBondId
    BY DEF OutgoingFresh
  <2>9. ASSUME NEW p \in Packet, Waiting(p)', p.id = toBond'.currentId,
               pc'[Bonder] \in {"pop", "subtract", "route"}
        PROVE  p.from = NextFrom'
    BY <1>0, <2>2, <2>3, <2>4, <2>5, <2>9 DEF WaitingInv
  <2>10. ASSUME NEW p \in Packet, NEW q \in Packet, Waiting(p)', Waiting(q)', q.id = p.id + 1
         PROVE  q.from = p.from + p.size
    <3>1. p # n
      BY <1>0, <2>3, <2>5, <2>6, <2>10
    <3>2. CASE q = n
      BY <1>0, <2>2, <2>3, <2>5, <2>10, <3>1, <3>2 DEF WaitingInv
    <3>3. CASE q # n
      BY <2>5, <2>10, <3>1, <3>3 DEF WaitingInv
    <3> QED
      BY <3>2, <3>3
  <2>11. ASSUME NEW p \in Packet, Waiting(p)', p.id + 1 = toBondId'
         PROVE  p.from + p.size = received'
    <3>1. p = n
      BY <1>0, <2>1, <2>5, <2>6, <2>11
    <3> QED
      BY <2>1, <2>3, <3>1
  <2>12. toBond'.currentId # toBondId'
    BY <1>0, <2>1, <2>8
  <2> QED
    BY <2>4, <2>9, <2>10, <2>11, <2>12 DEF WaitingInv
<1>18. CASE RecvEof
  <2> DEFINE n == [id |-> toBondId, size |-> 0, from |-> received]
  <2>1. /\ pc[Reader] = "poll" /\ pc'[Reader] = "eof" /\ flowPacket'[Reader] = n
        /\ toBond' = toBond /\ ~running'[Reader]
        /\ sent' = sent /\ pc'[Bonder] = pc[Bonder] /\ flowPacket'[Bonder] = flowPacket[Bonder]
    BY <1>18 DEF RecvEof, MayRead, LooperTypes
  <2>2. running[Reader]
    BY <2>1 DEF LooperInv
  <2>3. n.id = toBondId /\ n.from = received /\ n.size = 0
    OBVIOUS
  <2>4. /\ SentInv' /\ NextFrom' = NextFrom
        /\ pc'[Bonder] = pc[Bonder] /\ toBond'.currentId = toBond.currentId
    BY <1>1, <2>1
  <2> HIDE DEF n
  <2>5. \A p \in Packet : Waiting(p)' => Waiting(p) \/ p = n
    BY <1>17, <2>1 DEF Waiting
  <2>6. \A p \in Packet : Waiting(p) => p.id < toBondId
    BY <2>1 DEF Waiting, OutgoingFresh
  <2>7. ASSUME NEW p \in Packet, Waiting(p)', p.id = toBond'.currentId,
               pc'[Bonder] \in {"pop", "subtract", "route"}
        PROVE  p.from = NextFrom'
    BY <1>0, <2>2, <2>3, <2>4, <2>5, <2>7 DEF WaitingInv
  <2>8. ASSUME NEW p \in Packet, NEW q \in Packet, Waiting(p)', Waiting(q)', q.id = p.id + 1
        PROVE  q.from = p.from + p.size
    <3>1. p # n
      BY <1>0, <2>3, <2>5, <2>6, <2>8
    <3>2. CASE q = n
      BY <1>0, <2>2, <2>3, <2>5, <2>8, <3>1, <3>2 DEF WaitingInv
    <3>3. CASE q # n
      BY <2>5, <2>8, <3>1, <3>3 DEF WaitingInv
    <3> QED
      BY <3>2, <3>3
  <2> QED
    BY <2>1, <2>4, <2>7, <2>8 DEF WaitingInv
<1>6. CASE ReaderTestsClosed \/ RenumberClose \/ AddBacklog
  <2>1. \A p \in Packet : Waiting(p)' => Waiting(p)
    <3>1. \/ pc'[Reader] \notin {"eof", "insert"}
          \/ pc[Reader] = "eof" /\ flowPacket' = flowPacket
          \/ IsClose(flowPacket'[Reader]) /\ WriterEnded
      <4>1. CASE AddBacklog
        BY <4>1 DEF AddBacklog, LooperTypes
      <4>2. CASE ReaderTestsClosed
        BY <4>2 DEF ReaderTestsClosed, LooperTypes
      <4>3. CASE RenumberClose
        <5>1. /\ flowPacket[Reader] \in Packet /\ flowPacket[Reader].size = 0
              /\ flowPacket'[Reader] = [flowPacket[Reader] EXCEPT !.id = toBond.currentId]
              /\ WriterEnded
          BY <1>0, <4>3 DEF RenumberClose, LooperTypes, LooperInv, IsClose, ClosingInv
        <5> QED
          BY <5>1 DEF IsClose, Packet
      <4> QED
        BY <1>6, <4>1, <4>2, <4>3
    <3>2. toBond' = toBond
      BY <1>6 DEF ReaderTestsClosed, RenumberClose, AddBacklog
    <3> QED
      BY <1>17, <3>1, <3>2 DEF Waiting
  <2>2. /\ sent' = sent /\ toBond' = toBond /\ pc'[Bonder] = pc[Bonder]
        /\ flowPacket'[Bonder] = flowPacket[Bonder]
        /\ running'[Reader] => running[Reader] /\ toBondId' = toBondId /\ received' = received
    BY <1>6 DEF ReaderTestsClosed, RenumberClose, AddBacklog, LooperTypes, peer
  <2> QED
    BY <1>1, <1>2, <2>1, <2>2
<1>7. CASE ClearToBond
  <2>1. toBond'.deque = <<>> /\ toBond'.currentId = toBond.currentId /\ Range(<<>>) = {}
    BY <1>7, EmptySeq DEF ClearToBond, Cleared, Range
  <2>2. /\ sent' = sent /\ pc'[Bonder] = pc[Bonder] /\ pc'[Reader] = "renumber"
        /\ flowPacket'[Bonder] = flowPacket[Bonder] /\ running' = running
        /\ toBondId' = toBondId /\ received' = received
    BY <1>7 DEF ClearToBond, LooperTypes, peer
  <2>3. \A p \in Packet : Waiting(p)' => Waiting(p)
    BY <2>1, <2>2, <1>17 DEF Waiting
  <2> QED
    BY <1>1, <1>2, <2>1, <2>2, <2>3
<1>8. CASE InsertToBond
  <2>1. /\ pc[Reader] = "insert" /\ toBond' = Insert(toBond, flowPacket[Reader])
        /\ sent' = sent /\ pc'[Bonder] = pc[Bonder] /\ pc'[Reader] = "account"
        /\ flowPacket' = flowPacket /\ running' = running
        /\ toBondId' = toBondId /\ received' = received
    BY <1>8 DEF InsertToBond, LooperTypes, peer
  <2>2. Fresh(toBond, flowPacket[Reader])
    BY <1>0, <2>1, FreshByRange DEF OutgoingFresh
  <2>3. /\ toBond'.currentId = toBond.currentId
        /\ Range(toBond'.deque) = Range(toBond.deque) \union {flowPacket[Reader]}
    BY <1>0, <2>1, <2>2, PacketFields, InsertProperties DEF OutgoingFresh, QueueTypes
  <2>4. \A p \in Packet : Waiting(p)' => Waiting(p)
    BY <2>1, <2>3, <1>17 DEF Waiting
  <2> QED
    BY <1>1, <1>2, <2>1, <2>3, <2>4
<1>9. CASE PopToBond
  <2>1. /\ toBond' = Popped(toBond) /\ toBond.nextAvailable
        /\ Hold(Bonder, Head(toBond.deque)) /\ WellFormed(toBond)
        /\ Bonder \in Looper /\ toBond \in QueueOf(Packet)
        /\ pc[Bonder] = "pop" /\ sent' = sent /\ pc'[Reader] = pc[Reader]
        /\ pc'[Bonder] = IF IsClose(Head(toBond.deque)) THEN "stop" ELSE "subtract"
        /\ running' = running /\ toBondId' = toBondId /\ received' = received
    BY <1>9 DEF PopToBond, OutgoingFresh, QueueTypes, LooperTypes, peer
  <2>2. PICK front \in Range(toBond.deque) :
          /\ front = Head(toBond.deque) /\ front \in Packet /\ front.id = toBond.currentId
          /\ flowPacket' = [flowPacket EXCEPT ![Bonder] = front]
          /\ toBond'.currentId = toBond.currentId + 1
          /\ Range(toBond'.deque) = Range(toBond.deque) \ {front}
    BY <2>1, PopEffect
  <2>3. flowPacket'[Bonder] = front /\ flowPacket'[Reader] = flowPacket[Reader]
    BY <2>2 DEF LooperTypes
  <2>4. \A p \in Packet : Waiting(p)' => Waiting(p)
    BY <2>1, <2>2, <2>3, <1>17 DEF Waiting
  <2>5. ~IsClose(front) \/ ~WriterEnded => Waiting(front)
    BY <2>2 DEF Waiting
  <2>6. ~IsClose(front) \/ ~WriterEnded => front.from = SentEnd
    BY <2>1, <2>2, <2>5 DEF WaitingInv, NextFrom
  <2>7. SentEnd' = SentEnd
    BY <2>1 DEF SentEnd
  <2>8. SentInv'
    <3>1. OutgoingWellFormed' /\ toBond.currentId = Len(sent)
          /\ \A i \in DOMAIN sent : ~IsClose(sent[i].packet)
      BY <2>1 DEF SentInv, OutgoingWellFormed
    <3> QED
      BY <1>17, <2>1, <2>2, <2>3, <2>6, <2>7, <3>1 DEF SentInv, Closing
  <2>9. ~IsClose(front) => NextFrom' = front.from + front.size
    BY <2>1, <2>2, <2>3 DEF NextFrom
  <2>10. ASSUME NEW p \in Packet, Waiting(p)', p.id = toBond'.currentId, ~IsClose(front)
         PROVE  p.from = NextFrom'
    BY <2>2, <2>4, <2>5, <2>9, <2>10 DEF WaitingInv
  <2>11. ASSUME running'[Reader], toBond'.currentId = toBondId', ~IsClose(front)
         PROVE  NextFrom' = received'
    BY <2>1, <2>2, <2>5, <2>9, <2>11 DEF WaitingInv
  <2>12. pc'[Bonder] \in {"pop", "subtract", "route"} => ~IsClose(front)
    BY <2>1, <2>2
  <2> QED
    BY <2>1, <2>4, <2>8, <2>10, <2>11, <2>12 DEF WaitingInv
<1>10. CASE SubtractBacklog
  <2>1. /\ sent' = sent /\ toBond' = toBond /\ flowPacket' = flowPacket
        /\ pc[Bonder] = "subtract" /\ pc'[Bonder] = "route" /\ pc'[Reader] = pc[Reader]
        /\ running' = running /\ toBondId' = toBondId /\ received' = received
    BY <1>10 DEF SubtractBacklog, LooperTypes, peer
  <2>2. \A p \in Packet : Waiting(p)' => Waiting(p)
    BY <2>1, <1>17 DEF Waiting
  <2> QED
    BY <1>1, <1>2, <2>1, <2>2
<1>11. CASE Route \/ SendClose
  <2> DEFINE packet == flowPacket[Bonder]
  <2>1. /\ \E path \in {"ter", "sat"} : sent' = Append(sent, [packet |-> packet, path |-> path])
        /\ toBond' = toBond /\ flowPacket' = flowPacket
        /\ pc[Bonder] \in {"route", "close"} /\ pc'[Reader] = pc[Reader]
        /\ pc'[Bonder] = IF pc[Bonder] = "route" THEN "pop" ELSE "done"
        /\ running' = running /\ toBondId' = toBondId /\ received' = received
    BY <1>11 DEF Route, SendClose, HandOver, LooperTypes, peer
  <2>2. /\ Len(sent') = Len(sent) + 1 /\ DOMAIN sent' = 1..(Len(sent) + 1)
        /\ \A i \in 1..Len(sent) : sent'[i] = sent[i]
        /\ sent'[Len(sent) + 1].packet = packet
        /\ sent' # <<>>
    BY <1>15, <2>1, AppendProperties, EmptySeq DEF StreamTypes
  <2>3. packet.id = Len(sent) /\ toBond.currentId = Len(sent) + 1
        /\ \A i \in 1..Len(sent) : ~IsClose(sent[i].packet)
    BY <1>15, <2>1 DEF SentInv
  <2>4. CASE pc[Bonder] = "route"
    <3>1. ~IsClose(packet) /\ packet.from = SentEnd
      BY <2>4 DEF SentInv
    <3>2. SentEnd' = packet.from + packet.size
      BY <2>2 DEF SentEnd
    <3>3. NextFrom = packet.from + packet.size /\ NextFrom' = SentEnd'
      BY <2>1, <2>4 DEF NextFrom
    <3>4. OutgoingWellFormed'
      <4> SUFFICES ASSUME NEW i \in 1..(Len(sent) + 1)
                   PROVE  /\ sent'[i].packet.id = i - 1
                          /\ ~IsClose(sent'[i].packet)
                          /\ sent'[i].packet.from =
                               IF i = 1 THEN 0
                               ELSE sent'[i-1].packet.from + sent'[i-1].packet.size
        BY <2>2 DEF OutgoingWellFormed
      <4>1. CASE i \in 1..Len(sent)
        <5>1. i # 1 => i - 1 \in 1..Len(sent)
          BY <1>15, <4>1
        <5>2. sent'[i] = sent[i] /\ (i # 1 => sent'[i-1] = sent[i-1])
          BY <2>2, <4>1, <5>1
        <5>3. ~IsClose(sent[i].packet)
          BY <2>3, <4>1
        <5> QED
          BY <1>16, <4>1, <5>2, <5>3
      <4>2. CASE i = Len(sent) + 1
        <5>1. Len(sent) = 0 => sent = <<>>
          BY EmptySeq DEF StreamTypes
        <5>2. Len(sent) # 0 => sent # <<>> /\ Len(sent) \in 1..Len(sent)
          BY <1>15, EmptySeq
        <5> QED
          BY <1>15, <2>2, <2>3, <3>1, <4>2, <5>1, <5>2 DEF SentEnd
      <4> QED
        BY <1>15, <4>1, <4>2
    <3>5. \A i \in DOMAIN sent' : ~IsClose(sent'[i].packet)
      BY <1>15, <2>2, <2>3, <3>1
    <3>6. SentInv'
      BY <2>1, <2>2, <2>3, <2>4, <3>4, <3>5 DEF SentInv, Closing
    <3>7. \A p \in Packet : Waiting(p)' => Waiting(p)
      BY <2>1, <1>17 DEF Waiting
    <3>8. WaitingInv'
      BY <1>2, <2>1, <2>4, <3>2, <3>3, <3>7
    <3> QED
      BY <3>6, <3>8
  <2>5. CASE pc[Bonder] = "close"
    <3>1. IsClose(packet)
      BY <2>5 DEF LooperInv, Closing
    <3>2. OutgoingWellFormed'
      <4> SUFFICES ASSUME NEW i \in 1..(Len(sent) + 1)
                   PROVE  /\ sent'[i].packet.id = i - 1
                          /\ IsClose(sent'[i].packet) => i = Len(sent) + 1
                          /\ ~IsClose(sent'[i].packet) =>
                               sent'[i].packet.from =
                                 IF i = 1 THEN 0
                                 ELSE sent'[i-1].packet.from + sent'[i-1].packet.size
        BY <2>2 DEF OutgoingWellFormed
      <4>1. CASE i \in 1..Len(sent)
        <5>1. i # 1 => i - 1 \in 1..Len(sent)
          BY <1>15, <4>1
        <5>2. sent'[i] = sent[i] /\ (i # 1 => sent'[i-1] = sent[i-1])
          BY <2>2, <4>1, <5>1
        <5>3. ~IsClose(sent[i].packet)
          BY <2>3, <4>1
        <5> QED
          BY <1>16, <4>1, <5>2, <5>3
      <4>2. CASE i = Len(sent) + 1
        BY <1>15, <2>2, <2>3, <3>1, <4>2
      <4> QED
        BY <1>15, <4>1, <4>2
    <3>6. ~WriterEnded => packet.from = SentEnd
      BY <2>5 DEF SentInv, Closing
    <3>7. ASSUME ~WriterEnded'
          PROVE  packet.from = IF Len(sent') = 1 THEN 0
                               ELSE sent'[Len(sent') - 1].packet.from
                                    + sent'[Len(sent') - 1].packet.size
      <4>1. packet.from = SentEnd
        BY <1>17, <3>6, <3>7
      <4>2. Len(sent) = 0 <=> sent = <<>>
        BY EmptySeq DEF StreamTypes
      <4>3. Len(sent') - 1 = Len(sent) /\ (Len(sent) # 0 => Len(sent) \in 1..Len(sent))
        BY <1>15, <2>2
      <4> QED
        BY <1>15, <2>2, <4>1, <4>2, <4>3 DEF SentEnd
    <3>3. SentInv'
      <4>1. sent'[Len(sent')].packet = packet
        BY <2>2
      <4> QED
        BY <2>1, <2>2, <2>5, <3>1, <3>2, <3>7, <4>1 DEF SentInv, Closing
    <3>4. \A p \in Packet : Waiting(p)' => Waiting(p)
      BY <2>1, <1>17 DEF Waiting
    <3>5. WaitingInv'
      BY <2>1, <2>5, <3>4 DEF WaitingInv
    <3> QED
      BY <3>3, <3>5
  <2> QED
    BY <2>1, <2>4, <2>5
<1>12. CASE PopToConnection \/ WriteToEndpoint \/ ShutdownConnection \/ CloseStep(Writer)
  <2>1. /\ sent' = sent /\ toBond' = toBond /\ pc'[Bonder] = pc[Bonder]
        /\ pc'[Reader] = pc[Reader] /\ running'[Reader] = running[Reader]
        /\ flowPacket'[Bonder] = flowPacket[Bonder]
        /\ flowPacket'[Reader] = flowPacket[Reader]
        /\ toBondId' = toBondId /\ received' = received
    BY <1>12 DEF PopToConnection, WriteToEndpoint, ShutdownConnection, CloseStep, StopOnClose,
       TestClosed, Mark, Delete, LooperTypes, peer
  <2>2. \A p \in Packet : Waiting(p)' => Waiting(p)
    BY <2>1, <1>17 DEF Waiting
  <2> QED
    BY <1>1, <1>2, <2>1, <2>2
<1>13. CASE CloseStep(Bonder)
  <2>1. /\ sent' = sent /\ toBond' = toBond
        /\ pc[Bonder] \in {"stop", "test", "mark", "delete"}
        /\ pc'[Bonder] \in {"test", "mark", "delete", "close"}
        /\ pc'[Reader] = pc[Reader] /\ running'[Reader] = running[Reader]
        /\ flowPacket' = flowPacket
        /\ toBondId' = toBondId /\ received' = received
    BY <1>13 DEF CloseStep, StopOnClose, TestClosed, Mark, Delete, LooperTypes, peer
  <2>2. \A p \in Packet : Waiting(p)' => Waiting(p)
    BY <2>1, <1>17 DEF Waiting
  <2> QED
    BY <1>1, <1>2, <2>1, <2>2
<1>14. CASE DeleterStep \/ EndpointStep
  <2>1. /\ sent' = sent /\ toBond' = toBond /\ pc' = pc /\ running' = running
        /\ flowPacket' = flowPacket
        /\ toBondId' = toBondId /\ received' = received
    BY <1>14 DEF DeleterStep, EraseFromMap, CloseConnection, FreeConnection, JoinLoopers,
       EndpointStep, EndpointWrites, EndpointCloses, loopers, peer
  <2>2. \A p \in Packet : Waiting(p)' => Waiting(p)
    BY <2>1, <1>17 DEF Waiting
  <2> QED
    BY <1>1, <1>2, <2>1, <2>2
<1> QED
  BY <1>3, <1>4, <1>5, <1>18, <1>6, <1>7, <1>8, <1>9, <1>10, <1>11, <1>12, <1>13, <1>14
  DEF FlowNext, FlowStep, ReaderStep, WriterStep, BonderStep

(* No packet holds more than was read, and a close packet stands where     *)
(* reading ended.                                                          *)
EndsAtMost(p) == p.from + p.size <= received /\ (IsClose(p) => p.from = received)

ReadInv ==
  /\ \A p \in Range(toBond.deque) : EndsAtMost(p)
  /\ pc[Reader] \in {"eof", "clear", "renumber", "insert"} => EndsAtMost(flowPacket[Reader])
  /\ pc[Bonder] # "pop" => EndsAtMost(flowPacket[Bonder])
  /\ \A i \in DOMAIN sent : EndsAtMost(sent[i].packet)

LEMMA ReadStep ==
  ASSUME LooperTypes, LooperInv, QueueTypes, StreamTypes, OutgoingFresh, ClosingInv, SentInv,
         ReadInv, [FlowNext]_vars
  PROVE  ReadInv'
<1> USE DEF QueueTypes, Looper, Reader, Writer, Bonder, Goto, Hold, Stop
<1>0. /\ received \in Nat
      /\ \A looper \in Looper : flowPacket[looper] \in Packet
      /\ \A p \in Packet : p.id \in Nat /\ p.size \in Nat /\ p.from \in Nat
      /\ Range(toBond.deque) \subseteq Packet
  BY PacketFields, RangeHasType DEF QueueTypes, QueueOf, LooperTypes, StreamTypes
<1>16. \A i \in DOMAIN sent : sent[i].packet \in Packet
  BY SentTypes
(* Steps that read nothing and neither pop nor hand over.                  *)
<1>1. ASSUME received' = received, sent' = sent,
             \A p \in Range(toBond'.deque) : EndsAtMost(p),
             pc'[Reader] \in {"eof", "clear", "renumber", "insert"} =>
               EndsAtMost(flowPacket'[Reader]),
             pc'[Bonder] # "pop" => EndsAtMost(flowPacket'[Bonder])
      PROVE  ReadInv'
  BY <1>1 DEF ReadInv, EndsAtMost
<1>2. ASSUME received' = received, sent' = sent, toBond' = toBond,
             flowPacket'[Reader] = flowPacket[Reader],
             flowPacket'[Bonder] = flowPacket[Bonder],
             pc'[Reader] \in {"eof", "clear", "renumber", "insert"} =>
               pc[Reader] \in {"eof", "clear", "renumber", "insert"},
             pc'[Bonder] # "pop" => pc[Bonder] # "pop"
      PROVE  ReadInv'
  BY <1>1, <1>2 DEF ReadInv
<1>3. CASE UNCHANGED vars
  BY <1>2, <1>3 DEF vars, loopers, peer
<1>4. CASE \E packet \in Packet : WriteToFlow(packet)
  BY <1>2, <1>4 DEF WriteToFlow, loopers, peer
<1>5. CASE RecvData
  <2> DEFINE n == [id |-> toBondId, size |-> Available, from |-> received]
  <2>1. /\ pc[Reader] = "poll" /\ flowPacket'[Reader] = n /\ Available > 0
        /\ toBond' = toBond /\ received' = received + Available
        /\ sent' = sent /\ pc'[Bonder] = pc[Bonder]
        /\ flowPacket'[Bonder] = flowPacket[Bonder]
    BY <1>5 DEF RecvData, MayRead, LooperTypes
  <2>2. Available \in Nat
    BY <1>5, FlowAssumption DEF Available, RecvData, StreamTypes
  <2>3. n.from = received /\ n.size = Available
    OBVIOUS
  <2> HIDE DEF n
  <2>4. ASSUME NEW p \in Packet, EndsAtMost(p), ~IsClose(p)
        PROVE  EndsAtMost(p)'
    BY <1>0, <2>1, <2>2, <2>4 DEF EndsAtMost
  <2>5. ~ReaderEnded
    BY <2>1 DEF ReaderEnded
  <2>6. /\ \A p \in Range(toBond.deque) : ~IsClose(p)
        /\ pc[Bonder] \notin Closing
    BY <2>5 DEF ClosingInv
  <2>7. \A i \in DOMAIN sent : ~IsClose(sent[i].packet)
    BY <2>6 DEF SentInv, Closing
  <2>8. pc[Bonder] # "pop" => ~IsClose(flowPacket[Bonder])
    BY <2>6 DEF SentInv, LooperInv, Closing
  <2>9. EndsAtMost(flowPacket[Reader])'
    BY <1>0, <2>1, <2>2, <2>3 DEF EndsAtMost, IsClose
  <2>10. \A p \in Range(toBond'.deque) : EndsAtMost(p)'
    BY <1>0, <2>1, <2>4, <2>6 DEF ReadInv
  <2>11. pc'[Bonder] # "pop" => EndsAtMost(flowPacket[Bonder])'
    BY <1>0, <2>1, <2>2, <2>8 DEF ReadInv, EndsAtMost
  <2>12. \A i \in DOMAIN sent' : EndsAtMost(sent[i].packet)'
    BY <1>0, <1>16, <2>1, <2>2, <2>7 DEF ReadInv, EndsAtMost
  <2> QED
    BY <2>9, <2>10, <2>11, <2>12 DEF ReadInv
<1>6. CASE RecvEof
  <2>1. /\ flowPacket'[Reader] = [id |-> toBondId, size |-> 0, from |-> received]
        /\ toBond' = toBond /\ received' = received
        /\ sent' = sent /\ pc'[Bonder] = pc[Bonder]
        /\ flowPacket'[Bonder] = flowPacket[Bonder]
    BY <1>6 DEF RecvEof, LooperTypes, peer
  <2>2. EndsAtMost(flowPacket'[Reader])
    BY <1>0, <2>1 DEF EndsAtMost
  <2> QED
    BY <1>1, <2>1, <2>2 DEF ReadInv
<1>7. CASE ReaderTestsClosed \/ AddBacklog
  BY <1>2, <1>7 DEF ReaderTestsClosed, AddBacklog, LooperTypes, peer
<1>8. CASE ClearToBond
  <2>1. Cleared(toBond).deque = <<>> /\ Range(<<>>) = {}
    BY EmptySeq DEF Cleared, Range
  <2> QED
    BY <1>1, <1>8, <2>1 DEF ClearToBond, ReadInv, LooperTypes, peer
<1>9. CASE RenumberClose
  <2>1. /\ flowPacket'[Reader] = [flowPacket[Reader] EXCEPT !.id = toBond.currentId]
        /\ pc[Reader] = "renumber" /\ toBond' = toBond /\ received' = received
        /\ sent' = sent /\ pc'[Bonder] = pc[Bonder]
        /\ flowPacket'[Bonder] = flowPacket[Bonder]
    BY <1>9 DEF RenumberClose, LooperTypes, peer
  <2>2. /\ flowPacket'[Reader].from = flowPacket[Reader].from
        /\ flowPacket'[Reader].size = flowPacket[Reader].size
    BY <1>0, <2>1 DEF Packet
  <2>3. EndsAtMost(flowPacket'[Reader])
    BY <2>1, <2>2 DEF ReadInv, EndsAtMost, IsClose
  <2> QED
    BY <1>1, <2>1, <2>3 DEF ReadInv
<1>10. CASE InsertToBond
  <2>1. /\ pc[Reader] = "insert" /\ toBond' = Insert(toBond, flowPacket[Reader])
        /\ sent' = sent /\ pc'[Bonder] = pc[Bonder] /\ pc'[Reader] = "account"
        /\ flowPacket' = flowPacket /\ received' = received
    BY <1>10 DEF InsertToBond, LooperTypes, peer
  <2>2. Fresh(toBond, flowPacket[Reader])
    BY <1>0, <2>1, FreshByRange, PacketFields DEF OutgoingFresh
  <2>3. Range(toBond'.deque) = Range(toBond.deque) \union {flowPacket[Reader]}
    BY <1>0, <2>1, <2>2, PacketFields, InsertProperties DEF OutgoingFresh
  <2> QED
    BY <1>1, <2>1, <2>3 DEF ReadInv
<1>11. CASE PopToBond
  <2>1. /\ toBond' = Popped(toBond) /\ toBond.nextAvailable
        /\ Hold(Bonder, Head(toBond.deque)) /\ WellFormed(toBond)
        /\ Bonder \in Looper /\ toBond \in QueueOf(Packet)
        /\ sent' = sent /\ pc'[Reader] = pc[Reader] /\ received' = received
    BY <1>11 DEF PopToBond, OutgoingFresh, LooperTypes, peer
  <2>2. PICK front \in Range(toBond.deque) :
          /\ flowPacket' = [flowPacket EXCEPT ![Bonder] = front]
          /\ Range(toBond'.deque) = Range(toBond.deque) \ {front}
    BY <2>1, PopEffect
  <2>3. flowPacket'[Bonder] = front /\ flowPacket'[Reader] = flowPacket[Reader]
    BY <2>2 DEF LooperTypes
  <2> QED
    BY <1>1, <2>1, <2>2, <2>3 DEF ReadInv
<1>12. CASE Route \/ SendClose
  <2>1. /\ \E path \in {"ter", "sat"} :
             sent' = Append(sent, [packet |-> flowPacket[Bonder], path |-> path])
        /\ toBond' = toBond /\ flowPacket' = flowPacket /\ received' = received
        /\ pc[Bonder] # "pop" /\ pc'[Reader] = pc[Reader]
    BY <1>12 DEF Route, SendClose, HandOver, LooperTypes, peer
  <2>2. /\ DOMAIN sent' = 1..(Len(sent) + 1) /\ DOMAIN sent = 1..Len(sent)
        /\ \A i \in 1..Len(sent) : sent'[i] = sent[i]
        /\ sent'[Len(sent) + 1].packet = flowPacket[Bonder]
    BY <1>0, <2>1, AppendProperties, LenProperties DEF StreamTypes
  <2>3. \A i \in DOMAIN sent' : EndsAtMost(sent'[i].packet)
    BY <2>1, <2>2 DEF ReadInv
  <2> QED
    BY <2>1, <2>3 DEF ReadInv, EndsAtMost
<1>13. CASE WriterStep
  BY <1>2, <1>13 DEF WriterStep, PopToConnection, WriteToEndpoint, ShutdownConnection,
     CloseStep, StopOnClose, TestClosed, Mark, Delete, LooperTypes, peer
<1>14. CASE SubtractBacklog \/ CloseStep(Bonder)
  BY <1>2, <1>14 DEF SubtractBacklog, CloseStep, StopOnClose, TestClosed, Mark, Delete,
     LooperTypes, peer
<1>15. CASE DeleterStep \/ EndpointStep
  BY <1>2, <1>15 DEF DeleterStep, EraseFromMap, CloseConnection, FreeConnection, JoinLoopers,
     EndpointStep, EndpointWrites, EndpointCloses, loopers, peer
<1> QED
  BY <1>3, <1>4, <1>5, <1>6, <1>7, <1>8, <1>9, <1>10, <1>11, <1>12, <1>13, <1>14, <1>15
  DEF FlowNext, FlowStep, ReaderStep, BonderStep


----------------------------------------------------------------------------
(* All of it together.                                                     *)

LEMMA LooperTypesStep ==
  ASSUME LooperTypes, QueueTypes, StreamTypes, OutgoingFresh, WellFormed(toConnection),
         [FlowNext]_vars
  PROVE  LooperTypes'
<1> USE DEF LooperTypes, Looper, Reader, Writer, Bonder, Goto, Hold, Stop
<1>1. CASE UNCHANGED vars
  BY <1>1 DEF vars, loopers
<1>2. CASE \E packet \in Packet : WriteToFlow(packet)
  BY <1>2 DEF WriteToFlow, loopers
<1>3. CASE RecvData
  <2>1. [id |-> toBondId, size |-> Available, from |-> received] \in Packet
    BY <1>3, FlowAssumption DEF RecvData, Available, Packet, QueueTypes, StreamTypes
  <2> QED
    BY <1>3, <2>1 DEF RecvData, MayRead
<1>4. CASE RecvEof
  <2>1. [id |-> toBondId, size |-> 0, from |-> received] \in Packet
    BY DEF Packet, QueueTypes, StreamTypes
  <2> QED
    BY <1>4, <2>1 DEF RecvEof, MayRead
<1>5. CASE RenumberClose
  <2>1. [flowPacket[Reader] EXCEPT !.id = toBond.currentId] \in Packet
    BY DEF Packet, QueueTypes, QueueOf
  <2> QED
    BY <1>5, <2>1 DEF RenumberClose
<1>6. CASE ReaderTestsClosed \/ ClearToBond \/ InsertToBond \/ AddBacklog
  BY <1>6 DEF ReaderTestsClosed, ClearToBond, InsertToBond, AddBacklog
<1>7. CASE PopToConnection
  <2>1. /\ toConnection \in QueueOf(Packet) /\ WellFormed(toConnection)
        /\ toConnection.nextAvailable
    BY <1>7 DEF PopToConnection, QueueTypes
  <2>2. Head(toConnection.deque) \in Packet
    BY <2>1, PacketFields, PoppedProperties
  <2> QED
    BY <1>7, <2>2 DEF PopToConnection
<1>8. CASE PopToBond
  <2>1. toBond \in QueueOf(Packet) /\ WellFormed(toBond) /\ toBond.nextAvailable
    BY <1>8 DEF PopToBond, QueueTypes, OutgoingFresh
  <2>2. Head(toBond.deque) \in Packet
    BY <2>1, PacketFields, PoppedProperties
  <2> QED
    BY <1>8, <2>2 DEF PopToBond
<1>9. CASE WriteToEndpoint \/ ShutdownConnection \/ SubtractBacklog \/ Route \/ SendClose
  <2>1. CASE WriteToEndpoint \/ ShutdownConnection
    BY <2>1 DEF WriteToEndpoint, ShutdownConnection
  <2>2. CASE SubtractBacklog \/ SendClose
    BY <2>2 DEF SubtractBacklog, SendClose
  <2>3. CASE Route
    BY <2>3 DEF Route
  <2> QED
    BY <1>9, <2>1, <2>2, <2>3
<1>10. ASSUME NEW looper \in {Writer, Bonder}, CloseStep(looper)
       PROVE  LooperTypes'
  <2>1. CASE StopOnClose(looper)
    BY <2>1 DEF StopOnClose
  <2>2. CASE TestClosed(looper)
    BY <2>2 DEF TestClosed
  <2>3. CASE Mark(looper)
    BY <2>3 DEF Mark
  <2>4. CASE Delete(looper)
    BY <2>4 DEF Delete
  <2> QED
    BY <1>10, <2>1, <2>2, <2>3, <2>4 DEF CloseStep
<1>11. CASE DeleterStep \/ EndpointStep
  BY <1>11 DEF DeleterStep, EraseFromMap, CloseConnection, FreeConnection, JoinLoopers,
     EndpointStep, EndpointWrites, EndpointCloses, loopers
<1> QED
  BY <1>1, <1>2, <1>3, <1>4, <1>5, <1>6, <1>7, <1>8, <1>9, <1>10, <1>11
  DEF FlowNext, FlowStep, ReaderStep, WriterStep, BonderStep

(* The memory goes after the last looper; a looper that ended stays there. *)
JoinedInv == deleter = "deleted" => \A looper \in Looper : pc[looper] = "done"

LEMMA JoinedStep ==
  ASSUME LooperTypes, JoinedInv, [FlowNext]_vars
  PROVE  JoinedInv'
<1> USE DEF LooperTypes, JoinedInv, Looper, Reader, Writer, Bonder, Goto, lifetime
<1>1. CASE UNCHANGED vars
  BY <1>1 DEF vars, loopers
<1>2. CASE \E packet \in Packet : WriteToFlow(packet)
  BY <1>2 DEF WriteToFlow, loopers
<1>3. CASE ReaderStep
  BY <1>3 DEF ReaderStep, RecvData, RecvEof, ReaderTestsClosed, ClearToBond, RenumberClose,
     InsertToBond, AddBacklog, MayRead
<1>4. CASE PopToConnection \/ WriteToEndpoint \/ ShutdownConnection
  <2>1. pc[Writer] # "done" /\ deleter' = deleter /\ pc'[Bonder] = pc[Bonder]
    BY <1>4 DEF PopToConnection, WriteToEndpoint, ShutdownConnection
  <2> QED
    BY <2>1
<1>5. CASE PopToBond \/ SubtractBacklog \/ Route \/ SendClose
  <2>1. pc[Bonder] # "done" /\ deleter' = deleter
    BY <1>5 DEF PopToBond, SubtractBacklog, Route, SendClose
  <2> QED
    BY <2>1
<1>6. ASSUME NEW looper \in {Writer, Bonder}, CloseStep(looper)
      PROVE  JoinedInv'
  BY <1>6 DEF CloseStep, StopOnClose, TestClosed, Mark, Delete
<1>7. CASE DeleterStep \/ EndpointStep
  BY <1>7 DEF DeleterStep, EraseFromMap, CloseConnection, FreeConnection, JoinLoopers,
     EndpointStep, EndpointWrites, EndpointCloses, loopers
<1> QED
  BY <1>2, <1>1, <1>3, <1>4, <1>5, <1>6, <1>7
  DEF FlowNext, FlowStep, WriterStep, BonderStep

(* The invariant of a flow, given the packets its peer sends and those of  *)
(* them still coming.                                                      *)
FlowInv(packets, coming) ==
  /\ LooperTypes /\ QueueTypes /\ StreamTypes
  /\ LooperInv
  /\ OutgoingFresh
  /\ IncomingFresh(packets, coming)
  /\ ClosingInv
  /\ JoinedInv
  /\ BacklogTracksQueue
  /\ DeliveryInv(packets)
  /\ SentInv
  /\ WaitingInv
  /\ ReadInv

LEMMA FlowInvStep ==
  ASSUME NEW packets, NEW coming, NEW left \in SUBSET coming,
         WellNumbered(packets), FlowInv(packets, coming),
         \/ UNCHANGED vars
         \/ FlowStep
         \/ \E packet \in coming : packet \notin left /\ WriteToFlow(packet)
  PROVE  FlowInv(packets, left)'
<1>1. /\ LooperTypes /\ QueueTypes /\ StreamTypes /\ LooperInv /\ OutgoingFresh
      /\ IncomingFresh(packets, coming) /\ ClosingInv /\ JoinedInv /\ BacklogTracksQueue
      /\ DeliveryInv(packets) /\ SentInv /\ WaitingInv /\ ReadInv
  BY DEF FlowInv
<1>2. [FlowNext]_vars
  BY <1>1 DEF FlowNext, IncomingFresh, WellNumbered
<1>3. WellFormed(toConnection)
  BY <1>1 DEF IncomingFresh
<1>4. LooperTypes' /\ LooperInv' /\ StreamTypes'
  BY <1>1, <1>2, <1>3, LooperTypesStep, LooperStep, StreamTypesStep
<1>5. OutgoingFresh' /\ toBondId' \in Nat /\ toBond' \in QueueOf(Packet)
  BY <1>1, <1>2, OutgoingStep
<1>6. IncomingFresh(packets, left)' /\ toConnection' \in QueueOf(Packet)
  BY <1>1, IncomingStep
<1>7. QueueTypes'
  BY <1>5, <1>6 DEF QueueTypes
<1>8. ClosingInv' /\ JoinedInv'
  BY <1>1, <1>2, ClosingStep, JoinedStep
<1>9. BacklogTracksQueue'
  BY <1>1, <1>2, BacklogStep
<1>10. DeliveryInv(packets)'
  BY <1>1, <1>2, DeliveryStep
<1>11. SentInv' /\ WaitingInv'
  BY <1>1, <1>2, OutgoingDataStep
<1>12. ReadInv'
  BY <1>1, <1>2, ReadStep
<1> QED
  BY <1>4, <1>5, <1>6, <1>7, <1>8, <1>9, <1>10, <1>11, <1>12 DEF FlowInv

LEMMA FlowInvGrows ==
  ASSUME NEW packets, NEW coming, NEW packet \in Packet,
         WellNumbered(packets), FlowInv(packets, coming),
         \A p \in packets : p.id < packet.id /\ ~IsClose(p)
  PROVE  FlowInv(packets \union {packet}, coming \union {packet})
<1>1. IncomingFresh(packets \union {packet}, coming \union {packet})
  BY IncomingGrows DEF FlowInv, LooperInv
<1>2. packet.id >= toConnection.currentId
  BY <1>1 DEF IncomingFresh, Fresh
<1>3. DeliveryInv(packets \union {packet})
  BY <1>2, DeliveryGrows DEF FlowInv
<1> QED
  BY <1>1, <1>3 DEF FlowInv

LEMMA FlowInvInit ==
  ASSUME NEW packets, WellNumbered(packets), Init
  PROVE  FlowInv(packets, packets)
<1> USE DEF Init, Looper, Reader, Writer, Bonder
<1>0. /\ NewQueue \in QueueOf(Packet) /\ WellFormed(NewQueue)
      /\ NewQueue.currentId = 0 /\ NewQueue.byteSize = 0
      /\ NewQueue.deque = <<>> /\ Range(<<>>) = {}
  BY NewQueueWellFormed, EmptySeq DEF NewQueue, Range
<1>1. <<>> \in Seq(Nat) /\ <<>> \in Seq([packet : Packet, path : {"ter", "sat"}])
      /\ Len(<<>>) = 0 /\ DOMAIN <<>> = {}
  BY EmptySeq
<1>2. LooperTypes
  BY DEF LooperTypes, NoPacket, Packet
<1>3. LooperInv
  BY DEF LooperInv, Closing
<1>4. QueueTypes
  BY <1>0 DEF QueueTypes
<1>5. StreamTypes
  <2>1. 0 \in 0..(Word - 1)
    BY FlowAssumption
  <2>2. output \in Seq(Nat) /\ sent \in Seq([packet : Packet, path : {"ter", "sat"}])
    BY <1>1
  <2>3. /\ closed \in BOOLEAN /\ satellite \in BOOLEAN /\ inMap \in BOOLEAN
        /\ connection \in {"open", "shut", "closed", "deleted"}
        /\ deleter \in {"none", "erase", "close", "free", "join", "deleted"}
        /\ endpoint \in {"open", "fin", "reset"}
    OBVIOUS
  <2>4. deletions \in Nat /\ written \in Nat /\ received \in 0..written
    OBVIOUS
  <2>5. totalBacklog \in 0..(Word - 1)
    BY <2>1
  <2> QED
    BY <2>2, <2>3, <2>4, <2>5, Zenon DEF StreamTypes
<1>6. OutgoingFresh
  BY <1>0 DEF OutgoingFresh
<1>7. IncomingFresh(packets, packets)
  <2>1. \A packet \in packets : packet.id \in Nat
    BY PacketFields DEF WellNumbered
  <2>2. \A packet \in packets : Fresh(NewQueue, packet)
    BY <1>0, <2>1, FreshByRange
  <2> QED
    BY <1>0, <2>2 DEF IncomingFresh, Closing
<1>8. ClosingInv
  BY <1>0 DEF ClosingInv, Closing
<1>9. JoinedInv
  BY DEF JoinedInv
<1>10. BacklogTracksQueue
  <2>1. 0 % Word = 0
    BY FlowAssumption
  <2> QED
    BY <1>0, <2>1 DEF BacklogTracksQueue
<1>11. DeliveryInv(packets)
  <2>1. \A packet \in packets : packet.id \in Nat
    BY PacketFields DEF WellNumbered
  <2>2. Passed = 0 /\ InWrite = 0
    BY <1>0 DEF Passed, InWrite, Closing
  <2> QED
    BY <1>1, <2>1, <2>2 DEF DeliveryInv, DeliveredInOrder
<1>12. SentInv
  BY <1>0, <1>1 DEF SentInv, OutgoingWellFormed, Closing
<1>13. WaitingInv
  BY <1>0 DEF WaitingInv, Waiting, NextFrom, SentEnd
<1>14. ReadInv
  BY <1>0, <1>1 DEF ReadInv
<1> QED
  BY <1>2, <1>3, <1>4, <1>5, <1>6, <1>7, <1>8, <1>9, <1>10, <1>11, <1>12, <1>13, <1>14
  DEF FlowInv

(* What a flow handed over is what the peer of a flow sends.               *)
SentPackets == {sent[i].packet : i \in DOMAIN sent}

LEMMA SentIsWellNumbered ==
  ASSUME StreamTypes, SentInv
  PROVE  WellNumbered(SentPackets)
<1>1. Len(sent) \in Nat /\ DOMAIN sent = 1..Len(sent)
  BY SentTypes
<1>2. \A i \in DOMAIN sent : sent[i].packet \in Packet
  BY SentTypes
<1>3. SentPackets \subseteq Packet
  BY <1>2 DEF SentPackets
<1>4. ASSUME NEW i \in DOMAIN sent, NEW j \in DOMAIN sent
      PROVE  /\ sent[i].packet.id = sent[j].packet.id => i = j
             /\ IsClose(sent[i].packet) => sent[j].packet.id <= sent[i].packet.id
             /\ sent[i].packet.id = 0 /\ ~IsClose(sent[i].packet) => sent[i].packet.from = 0
             /\ sent[j].packet.id = sent[i].packet.id + 1 /\ ~IsClose(sent[j].packet) =>
                  sent[j].packet.from = sent[i].packet.from + sent[i].packet.size
  <2>1. i \in 1..Len(sent) /\ j \in 1..Len(sent)
    BY <1>1
  <2>2. sent[i].packet.id = i - 1 /\ sent[j].packet.id = j - 1
    BY DEF SentInv, OutgoingWellFormed
  <2>3. IsClose(sent[i].packet) => i = Len(sent)
    BY DEF SentInv, OutgoingWellFormed
  <2>4. i = 1 /\ ~IsClose(sent[i].packet) => sent[i].packet.from = 0
    BY DEF SentInv, OutgoingWellFormed
  <2>5. j = i + 1 /\ ~IsClose(sent[j].packet) =>
          sent[j].packet.from = sent[i].packet.from + sent[i].packet.size
    <3> SUFFICES ASSUME j = i + 1, ~IsClose(sent[j].packet)
                 PROVE  sent[j].packet.from = sent[i].packet.from + sent[i].packet.size
      OBVIOUS
    <3>1. j # 1 /\ j - 1 = i
      BY <1>1, <2>1
    <3> QED
      BY <3>1 DEF SentInv, OutgoingWellFormed
  <2> QED
    BY <1>1, <2>1, <2>2, <2>3, <2>4, <2>5
<1> QED
  BY <1>3, <1>4 DEF WellNumbered, SentPackets

(* It grows by one packet at a time, numbered upwards, and not beyond the  *)
(* close packet.                                                           *)
LEMMA SentGrows ==
  ASSUME LooperTypes, StreamTypes, SentInv, [FlowNext]_vars
  PROVE  \/ sent' = sent
         \/ \E packet \in Packet, path \in {"ter", "sat"} :
              /\ sent' = Append(sent, [packet |-> packet, path |-> path])
              /\ SentPackets' = SentPackets \union {packet}
              /\ \A p \in SentPackets : p.id < packet.id /\ ~IsClose(p)
<1>1. CASE Route \/ SendClose
  <2> DEFINE packet == flowPacket[Bonder]
  <2>1. /\ \E path \in {"ter", "sat"} : sent' = Append(sent, [packet |-> packet, path |-> path])
        /\ pc[Bonder] \in {"route", "close"} /\ packet \in Packet
    BY <1>1 DEF Route, SendClose, HandOver, LooperTypes, Looper, Bonder
  <2>2. /\ Len(sent) \in Nat /\ DOMAIN sent = 1..Len(sent)
        /\ DOMAIN sent' = 1..(Len(sent) + 1)
        /\ \A i \in 1..Len(sent) : sent'[i] = sent[i]
        /\ sent'[Len(sent) + 1].packet = packet
    BY <2>1, AppendProperties, LenProperties DEF StreamTypes
  <2>3. SentPackets' = SentPackets \union {packet}
    <3>1. SentPackets' = {sent'[i].packet : i \in 1..(Len(sent) + 1)}
      BY <2>2 DEF SentPackets
    <3>2. SentPackets = {sent[i].packet : i \in 1..Len(sent)}
      BY <2>2 DEF SentPackets
    <3>3. 1..(Len(sent) + 1) = 1..Len(sent) \union {Len(sent) + 1}
      BY <2>2
    <3> QED
      BY <2>2, <3>1, <3>2, <3>3
  <2>4. packet.id = Len(sent) /\ \A i \in DOMAIN sent : ~IsClose(sent[i].packet)
    BY <2>1 DEF SentInv
  <2>5. \A i \in DOMAIN sent : sent[i].packet.id = i - 1
    BY DEF SentInv, OutgoingWellFormed
  <2>6. \A p \in SentPackets : p.id < packet.id /\ ~IsClose(p)
    BY <2>2, <2>4, <2>5 DEF SentPackets
  <2> QED
    BY <2>1, <2>3, <2>6
<1>2. CASE UNCHANGED vars \/ \E packet \in Packet : WriteToFlow(packet)
  BY <1>2 DEF vars, WriteToFlow
<1>3. CASE ReaderStep \/ WriterStep
  BY <1>3 DEF ReaderStep, RecvData, RecvEof, ReaderTestsClosed, ClearToBond, RenumberClose,
     InsertToBond, AddBacklog, WriterStep, PopToConnection, WriteToEndpoint,
     ShutdownConnection, CloseStep, StopOnClose, TestClosed, Mark, Delete
<1>4. CASE PopToBond \/ SubtractBacklog \/ CloseStep(Bonder)
  BY <1>4 DEF PopToBond, SubtractBacklog, CloseStep, StopOnClose, TestClosed, Mark, Delete
<1>5. CASE DeleterStep \/ EndpointStep
  BY <1>5 DEF DeleterStep, EraseFromMap, CloseConnection, FreeConnection, JoinLoopers,
     EndpointStep, EndpointWrites, EndpointCloses
<1> QED
  BY <1>1, <1>2, <1>3, <1>4, <1>5 DEF FlowNext, FlowStep, BonderStep

----------------------------------------------------------------------------
(* The flow of FlowLifecycle: the packets of its peer are PeerPackets.     *)

IndInv == FlowInv(PeerPackets, incoming)

LEMMA InitiallyIndInv == LifecycleInit => IndInv
  BY FlowInvInit, PeerAssumption DEF LifecycleInit, IndInv

LEMMA Inductive == IndInv /\ [LifecycleNext]_allVars => IndInv'
<1> SUFFICES ASSUME IndInv, [LifecycleNext]_allVars
             PROVE  IndInv'
  OBVIOUS
<1>1. PICK coming, left : coming = incoming /\ left = incoming'
  OBVIOUS
<1>2. FlowInv(PeerPackets, coming)
  BY <1>1 DEF IndInv
<1>3. /\ left \subseteq coming
      /\ \/ UNCHANGED vars
         \/ FlowStep
         \/ \E packet \in coming : packet \notin left /\ WriteToFlow(packet)
  BY <1>1 DEF LifecycleNext, PeerPacketArrives, allVars
<1>4. FlowInv(PeerPackets, left)'
  BY <1>2, <1>3, FlowInvStep, PeerAssumption
<1> QED
  BY <1>1, <1>4 DEF IndInv, FlowInv, IncomingFresh

(* IndInv holds in every reachable state, whatever packets the peer sends  *)
(* and in whatever order the threads run.                                  *)
THEOREM IndInvHolds == LifecycleSpec => []IndInv
<1> QED
  BY InitiallyIndInv, Inductive, PTL DEF LifecycleSpec

----------------------------------------------------------------------------
(* What follows from it.                                                   *)

(* Every variable of the flow keeps its type; in particular the packets    *)
(* popped from both queues are packets, and totalBacklog_ stays below the  *)
(* width of its type.                                                      *)
THEOREM TypeCorrect == LifecycleSpec => []TypeOK
<1>1. IndInv => TypeOK
  BY TypesSplit DEF IndInv, FlowInv, TypeOK, IncomingFresh
<1> QED
  BY <1>1, IndInvHolds, PTL

(* No assertion of Flow.cpp or BlockingFlowPacketQueue.h fails: neither    *)
(* those on Looper::Running before the flow is deleted, nor that on the    *)
(* queue after Clear, nor those on the ids popped.                         *)
THEOREM NoAssertionFails == LifecycleSpec => []AssertionsHold
<1>1. IndInv => AssertionsHold
  <2> SUFFICES ASSUME IndInv
               PROVE  AssertionsHold
    OBVIOUS
  <2>1. ASSUME NEW looper \in {Writer, Bonder}, pc[looper] = "delete"
        PROVE  \A other \in Looper : ~running[other]
    <3>1. pc[Writer] \in {"shutdown", "done", "delete"} /\ pc[Bonder] \in Closing \ {"stop"}
      BY <2>1 DEF IndInv, FlowInv, ClosingInv, WriterEnded, BonderEnded, Writer, Bonder, Closing
    <3>2. ~running[Writer] /\ ~running[Bonder]
      BY <3>1 DEF IndInv, FlowInv, LooperInv, Closing
    <3>3. ~running[Reader]
      BY <3>1 DEF IndInv, FlowInv, ClosingInv, ReaderEnded
    <3> QED
      BY <3>2, <3>3 DEF Looper
  <2> QED
    BY <2>1 DEF AssertionsHold, IndInv, FlowInv, OutgoingFresh, IncomingFresh
<1> QED
  BY <1>1, IndInvHolds, PTL

(* The unsynchronised test and set of closed_ by SendToConnection and      *)
(* SendToBond never makes both of them delete the flow.                    *)
THEOREM NeverDeletedTwice == LifecycleSpec => []DeletedOnce
<1>1. IndInv => DeletedOnce
  BY DEF IndInv, FlowInv, ClosingInv, DeletedOnce
<1> QED
  BY <1>1, IndInvHolds, PTL

(* ~Flow starts only when the close packets of both directions were        *)
(* popped, and ends only when that of the flow was given to the bond; no   *)
(* packet of the peer is left for a flow that is not in the map any more.  *)
THEOREM GoneInBothDirections == LifecycleSpec => []GoneOnlyAfterBothCloses
<1>1. IndInv => GoneOnlyAfterBothCloses
  <2> SUFFICES ASSUME IndInv
               PROVE  GoneOnlyAfterBothCloses
    OBVIOUS
  <2>1. ASSUME deleter # "none"
        PROVE  /\ pc[Reader] \in {"account", "done"}
               /\ IsClose(flowPacket[Writer]) /\ IsClose(flowPacket[Bonder])
               /\ incoming = {} /\ toConnection.deque = <<>>
    <3>1. WriterEnded /\ BonderEnded
      BY <2>1 DEF IndInv, FlowInv, ClosingInv
    <3>2. pc[Writer] \in Closing /\ pc[Bonder] \in Closing
      BY <3>1 DEF WriterEnded, BonderEnded, Closing
    <3> QED
      BY <3>2 DEF IndInv, FlowInv, LooperInv, IncomingFresh, ClosingInv, ReaderEnded
  <2>2. deleter = "deleted" => pc[Bonder] = "done"
    BY DEF IndInv, FlowInv, JoinedInv, Looper
  <2>3. deleter = "deleted" => sent # <<>> /\ IsClose(sent[Len(sent)].packet)
    BY <2>2 DEF IndInv, FlowInv, SentInv
  <2> QED
    BY <2>1, <2>3 DEF GoneOnlyAfterBothCloses
<1> QED
  BY <1>1, IndInvHolds, PTL

(* ~Flow closes and deletes connection_ before it joins the loopers, yet   *)
(* none of them polls, receives or sends on it then.                       *)
THEOREM DeadConnectionUnused == LifecycleSpec => []NoIOOnDeadConnection
<1>1. IndInv => NoIOOnDeadConnection
  <2> SUFFICES ASSUME IndInv, connection \in {"closed", "deleted"}
               PROVE  pc[Reader] # "poll" /\ pc[Writer] # "write"
    BY DEF NoIOOnDeadConnection
  <2>1. WriterEnded /\ BonderEnded
    BY DEF IndInv, FlowInv, ClosingInv
  <2>2. ReaderEnded
    BY <2>1 DEF IndInv, FlowInv, ClosingInv, BonderEnded, Closing
  <2> QED
    BY <2>1, <2>2 DEF WriterEnded, ReaderEnded
<1> QED
  BY <1>1, IndInvHolds, PTL

(* What SendToBond hands over is numbered from 0 and holds the bytes of    *)
(* the endpoint without a hole up to the only close packet, even when      *)
(* Clear gave up packets that the reader had numbered.                     *)
THEOREM OutgoingIsWellFormed == LifecycleSpec => []OutgoingWellFormed
<1>1. IndInv => OutgoingWellFormed
  BY DEF IndInv, FlowInv, SentInv
<1> QED
  BY <1>1, IndInvHolds, PTL

(* The endpoint gets a prefix of the peer's bytes, in order, however the   *)
(* two links reorder the packets.                                          *)
THEOREM EndpointGetsBytesInOrder == LifecycleSpec => []DeliveredInOrder
<1>1. IndInv => DeliveredInOrder
  BY DEF IndInv, FlowInv, DeliveryInv
<1> QED
  BY <1>1, IndInvHolds, PTL

(* byteSize_ of the FlowMap is what the queue holds, but for what a thread *)
(* is about to add or to subtract, modulo the width of size_t.             *)
THEOREM BacklogIsTracked == LifecycleSpec => []BacklogTracksQueue
<1>1. IndInv => BacklogTracksQueue
  BY DEF IndInv, FlowInv
<1> QED
  BY <1>1, IndInvHolds, PTL
============================================================================
