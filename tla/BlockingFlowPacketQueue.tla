---------------------- MODULE BlockingFlowPacketQueue ----------------------
(***************************************************************************)
(* One BlockingFlowPacketQueue between its threads.  Producers insert      *)
(* packets in any order; the one looper that owns the other end pops and   *)
(* blocks on the condition variable.  Every action is one critical section *)
(* of the mutex.  The producer can give up the packets that wait: Clear,   *)
(* then Insert of a close packet numbered currentId (Flow::RecvFromConn-   *)
(* ection does so after the flow was closed from the other side).          *)
(***************************************************************************)
EXTENDS FlowPacketQueue

CONSTANT Packet   \* the packets the producers insert

ASSUME PacketAssumption ==
  /\ Packet \subseteq [id : Nat, size : Nat]
  /\ \A p, q \in Packet : p.id = q.id => p = q

VARIABLES queue,      \* deque_, nextAvailable_, currentId_, size_, byteSize_
          consumer,   \* "out" of Pop, "waiting" on the condition variable,
                      \* "woken" and about to test the predicate again
          unsent,     \* the packets not inserted yet
          producer,   \* "open", "cleared", "closed"
          popped      \* the packets Pop returned, in order

vars == <<queue, consumer, unsent, producer, popped>>

ClosePacket(id) == [id |-> id, size |-> 0]

Init ==
  /\ queue = NewQueue
  /\ consumer = "out"
  /\ unsent = Packet
  /\ producer = "open"
  /\ popped = <<>>

(* Faulty: a notification only when the deque was empty.                   *)
NotifiedOnlyWhenEmpty(deque, currentId) ==
  IF consumer = "waiting" /\ IsNext(deque, currentId) /\ queue.deque = <<>>
  THEN "woken" ELSE consumer

(* notify_one, called by Insert while the packet to hand out is in front.  *)
Notified(deque, currentId) ==
  IF consumer = "waiting" /\ IsNext(deque, currentId)
  THEN "woken" ELSE consumer

InsertPacket(packet) ==
  /\ queue' = Insert(queue, packet)
  /\ consumer' = Notified(queue'.deque, queue'.currentId)

Produce(packet) ==
  /\ producer = "open"
  /\ InsertPacket(packet)
  /\ unsent' = unsent \ {packet}
  /\ UNCHANGED <<producer, popped>>

Clear ==
  /\ producer = "open"
  /\ producer' = "cleared"
  /\ queue' = Cleared(queue)
  /\ unsent' = {}
  /\ UNCHANGED <<consumer, popped>>

ProduceClose ==
  /\ producer = "cleared"
  /\ producer' = "closed"
  /\ InsertPacket(ClosePacket(queue.currentId))
  /\ UNCHANGED <<unsent, popped>>

Pop ==
  /\ consumer \in {"out", "woken"}
  /\ queue.nextAvailable
  /\ popped' = Append(popped, Head(queue.deque))
  /\ queue' = Popped(queue)
  /\ consumer' = "out"
  /\ UNCHANGED <<unsent, producer>>

(* The predicate of the wait is false: release the mutex and block.        *)
Wait ==
  /\ consumer \in {"out", "woken"}
  /\ ~queue.nextAvailable
  /\ consumer' = "waiting"
  /\ UNCHANGED <<queue, unsent, producer, popped>>

(* A condition variable may wake up without a notification.                *)
WakeUpSpuriously ==
  /\ consumer = "waiting"
  /\ consumer' = "woken"
  /\ UNCHANGED <<queue, unsent, producer, popped>>

Next ==
  \/ \E packet \in unsent : Produce(packet)
  \/ Clear
  \/ ProduceClose
  \/ Pop
  \/ Wait
  \/ WakeUpSpuriously

Spec == Init /\ [][Next]_vars

(* The threads run; nothing makes a spurious wake-up or a Clear happen.    *)
FairSpec ==
  /\ Spec
  /\ WF_vars(\E packet \in unsent : Produce(packet))
  /\ WF_vars(ProduceClose)
  /\ WF_vars(Pop)
  /\ WF_vars(Wait)

----------------------------------------------------------------------------
TypeOK ==
  /\ queue \in [deque : Seq([id : Nat, size : Nat]), nextAvailable : BOOLEAN,
                currentId : Nat, size : Int, byteSize : Int]
  /\ consumer \in {"out", "waiting", "woken"}
  /\ unsent \subseteq Packet
  /\ producer \in {"open", "cleared", "closed"}
  /\ popped \in Seq([id : Nat, size : Nat])

(* The deque stays sorted by id without repetition, and nextAvailable_ is  *)
(* up exactly when the front is the packet to hand out: the two assertions *)
(* of Pop (BlockingFlowPacketQueue.h:74 and :89) never fail, and Pop never *)
(* takes the front of an empty deque.                                      *)
QueueWellFormed == WellFormed(queue)

(* Whatever order the packets came in, Pop returned 0, 1, 2, ..., and      *)
(* currentId_ counts them.                                                 *)
InOrder ==
  /\ \A i \in DOMAIN popped : popped[i].id = i - 1
  /\ queue.currentId = Len(popped)

(* notify_one is called only when the front is the packet to hand out, and *)
(* not by Pop: the consumer still never sleeps while a packet is ready.    *)
NoLostWakeup == consumer = "waiting" => ~queue.nextAvailable

(* Until Clear, every packet is still to insert, in the deque or handed    *)
(* out: the sorted insert drops none.                                      *)
NothingLost ==
  producer = "open" => Packet = unsent \union Range(queue.deque) \union Range(popped)

(* size_ is the length of the deque, also after Clear; byteSize_ is the    *)
(* payload that waits only until Clear, which forgets to reset it.         *)
CountsExact ==
  /\ queue.size = Len(queue.deque)
  /\ queue.byteSize >= Payload(queue.deque)
  /\ producer = "open" => queue.byteSize = Payload(queue.deque)

(* The queue is a reorder buffer: the deque holds the pending packets.     *)
Buffer == INSTANCE ReorderBuffer
            WITH pending <- Range(queue.deque), delivered <- popped
ImplementsBuffer == Buffer!Spec

(* Everything inserted gets out: with all the ids below the largest one    *)
(* present the consumer ends with an empty deque, having received every    *)
(* packet, or the close packet that follows a Clear.                       *)
Drained ==
  <>[](/\ queue.deque = <<>>
       /\ \/ producer = "open" /\ Range(popped) = Packet
          \/ producer = "closed" /\ popped # <<>> /\ popped[Len(popped)].size = 0)
============================================================================
