-------------------------- MODULE FlowPacketQueue --------------------------
(***************************************************************************)
(* The value kept under the mutex of a BlockingFlowPacketQueue, and what   *)
(* each critical section makes of it.  A packet is any record with the     *)
(* fields id and size; id is the 64-bit sequence number of the flow and    *)
(* size the length of the payload, 0 in a close packet.                    *)
(*                                                                         *)
(* The counters are unbounded here: 2^64 packets are out of reach of one   *)
(* flow, and byteSize never falls below 0 because a packet is subtracted   *)
(* once, after it was added.                                               *)
(***************************************************************************)
EXTENDS Integers, SequencesExt

NewQueue ==
  [deque         |-> <<>>,
   nextAvailable |-> FALSE,
   currentId     |-> 0,
   size          |-> 0,
   byteSize      |-> 0]

(* The position of the last packet whose id is smaller than id, 0 when     *)
(* there is none: where the loop over crbegin()..crend() stops.            *)
LastBelow(deque, id) ==
  CHOOSE k \in 0..Len(deque) :
    /\ k > 0 => deque[k].id < id
    /\ \A j \in (k+1)..Len(deque) : deque[j].id >= id

(* Where Insert puts the packet.  A packet with the id of the front finds  *)
(* no smaller one and is not stored at all.                                *)
Placed(deque, packet) ==
  IF deque = <<>> \/ packet.id < deque[1].id
  THEN <<packet>> \o deque
  ELSE LET k == LastBelow(deque, packet.id)
       IN  IF k = 0 THEN deque ELSE InsertAt(deque, k+1, packet)

(* Faulty: whatever is in front counts as the next packet.                 *)
IsThere(deque, currentId) == deque # <<>>

IsNext(deque, currentId) == deque # <<>> /\ deque[1].id = currentId

Insert(queue, packet) ==
  LET deque == Placed(queue.deque, packet)
  IN  [deque         |-> deque,
       nextAvailable |-> queue.nextAvailable \/ IsNext(deque, queue.currentId),
       currentId     |-> queue.currentId,
       size          |-> queue.size + 1,
       byteSize      |-> queue.byteSize + packet.size]

(* Faulty: the flag stays up while the deque is not empty.                 *)
PoppedWithoutCheck(queue) ==
  LET deque == Tail(queue.deque)
  IN  [deque         |-> deque,
       nextAvailable |-> deque # <<>>,
       currentId     |-> queue.currentId + 1,
       size          |-> queue.size - 1,
       byteSize      |-> queue.byteSize - Head(queue.deque).size]

(* Faulty: the flag is lowered although the next packet is there.          *)
PoppedFlagDown(queue) ==
  LET deque == Tail(queue.deque)
  IN  [deque         |-> deque,
       nextAvailable |-> FALSE,
       currentId     |-> queue.currentId + 1,
       size          |-> queue.size - 1,
       byteSize      |-> queue.byteSize - Head(queue.deque).size]

(* Faulty: the bytes of the packet stay in the counter.                    *)
PoppedKeepingBytes(queue) ==
  LET deque == Tail(queue.deque)
  IN  [deque         |-> deque,
       nextAvailable |-> IsNext(deque, queue.currentId + 1),
       currentId     |-> queue.currentId + 1,
       size          |-> queue.size - 1,
       byteSize      |-> queue.byteSize]

(* Pop once the condition variable let the caller through: the packet is   *)
(* the front, and the queue becomes Popped(queue).                         *)
Popped(queue) ==
  LET deque == Tail(queue.deque)
  IN  [deque         |-> deque,
       nextAvailable |-> IsNext(deque, queue.currentId + 1),
       currentId     |-> queue.currentId + 1,
       size          |-> queue.size - 1,
       byteSize      |-> queue.byteSize - Head(queue.deque).size]

(* Faulty: size_ is not reset.                                             *)
ClearedKeepingSize(queue) ==
  [queue EXCEPT !.deque = <<>>, !.nextAvailable = FALSE]

(* Faulty: the numbering starts again.                                     *)
ClearedFromZero(queue) ==
  [queue EXCEPT !.deque = <<>>, !.nextAvailable = FALSE, !.size = 0, !.currentId = 0]

(* currentId and byteSize keep their values.                               *)
Cleared(queue) ==
  [deque         |-> <<>>,
   nextAvailable |-> FALSE,
   currentId     |-> queue.currentId,
   size          |-> 0,
   byteSize      |-> queue.byteSize]

----------------------------------------------------------------------------
(* What the other operations rely on.                                      *)

(* The ids are strictly increasing from the front to the back.             *)
Sorted(deque) ==
  \A i, j \in DOMAIN deque : i < j => deque[i].id < deque[j].id

(* The flag is up exactly when the front is the packet to hand out next.   *)
FlagExact(queue) ==
  queue.nextAvailable <=> IsNext(queue.deque, queue.currentId)

(* No packet kept is one whose turn has passed.                            *)
NotPassed(queue) ==
  \A i \in DOMAIN queue.deque : queue.deque[i].id >= queue.currentId

WellFormed(queue) ==
  Sorted(queue.deque) /\ FlagExact(queue) /\ NotPassed(queue)

(* The packet may be inserted: its turn has not passed and its id is not   *)
(* in the queue.                                                           *)
Fresh(queue, packet) ==
  /\ packet.id >= queue.currentId
  /\ \A i \in DOMAIN queue.deque : queue.deque[i].id # packet.id

(* The bytes of payload in a deque.                                        *)
Payload(deque) ==
  LET upTo[i \in 0..Len(deque)] == IF i = 0 THEN 0 ELSE upTo[i-1] + deque[i].size
  IN  upTo[Len(deque)]
============================================================================
