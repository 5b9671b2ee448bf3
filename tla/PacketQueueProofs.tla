------------------------- MODULE PacketQueueProofs -------------------------
(***************************************************************************)
(* Both packet queues implement ReorderBuffer.  First the queue that blocks*)
(* on a condition variable, for every set of packets with distinct ids;    *)
(* then the list without locks, for all inserters and all they bring, while*)
(* no insertion overlaps with Pop.                                         *)
(***************************************************************************)
EXTENDS BlockingFlowPacketQueue, LockFreeFlowPacketQueue, FlowPacketQueueProofs,
        FiniteSetTheorems

AnyPacket == [id : Nat, size : Nat]

(* A packet not inserted yet can be: its turn has not passed and no other  *)
(* packet of the deque has its id.                                         *)
UnsentFresh == \A packet \in unsent : Fresh(queue, packet)

(* After Clear there is nothing to insert but the close packet, and it     *)
(* meets an empty deque.                                                   *)
ClearedEmpty ==
  /\ producer # "open" => unsent = {}
  /\ producer = "cleared" => queue.deque = <<>>

IndInv ==
  /\ TypeOK
  /\ QueueWellFormed
  /\ InOrder
  /\ NoLostWakeup
  /\ NothingLost
  /\ UnsentFresh
  /\ ClearedEmpty

LEMMA RangeOfAppend ==
  ASSUME NEW S, NEW seq \in Seq(S), NEW e \in S
  PROVE  Range(Append(seq, e)) = Range(seq) \union {e}
<1>1. /\ Len(seq) \in Nat /\ DOMAIN seq = 1..Len(seq)
      /\ DOMAIN Append(seq, e) = 1..(Len(seq) + 1)
      /\ \A i \in 1..Len(seq) : Append(seq, e)[i] = seq[i]
      /\ Append(seq, e)[Len(seq) + 1] = e
  BY LenProperties, AppendProperties
<1>2. \A i \in 1..(Len(seq) + 1) : i \in 1..Len(seq) \/ i = Len(seq) + 1
  BY <1>1
<1>3. Range(Append(seq, e)) \subseteq Range(seq) \union {e}
  BY <1>1, <1>2 DEF Range
<1>4. Range(seq) \subseteq Range(Append(seq, e))
  <2>1. \A i \in 1..Len(seq) : i \in 1..(Len(seq) + 1)
    BY <1>1
  <2> QED
    BY <1>1, <2>1 DEF Range
<1>5. e \in Range(Append(seq, e))
  <2>1. Len(seq) + 1 \in 1..(Len(seq) + 1)
    BY <1>1
  <2> QED
    BY <1>1, <2>1 DEF Range
<1> QED
  BY <1>3, <1>4, <1>5

LEMMA FreshMeansNotInRange ==
  ASSUME NEW q, NEW packet
  PROVE  Fresh(q, packet) <=> /\ packet.id >= q.currentId
                              /\ \A other \in Range(q.deque) : other.id # packet.id
  BY DEF Fresh, Range

LEMMA TypeIsQueueOf ==
  TypeOK <=> /\ queue \in QueueOf(AnyPacket)
             /\ consumer \in {"out", "waiting", "woken"}
             /\ unsent \subseteq Packet
             /\ producer \in {"open", "cleared", "closed"}
             /\ popped \in Seq(AnyPacket)
  BY DEF TypeOK, QueueOf, AnyPacket

LEMMA InitInd == Init => IndInv
<1> SUFFICES ASSUME Init PROVE IndInv
  OBVIOUS
<1> USE DEF Init
<1>1. TypeOK /\ QueueWellFormed
  BY NewQueueWellFormed, TypeIsQueueOf, EmptySeq DEF QueueWellFormed
<1>2. queue.deque = <<>> /\ queue.currentId = 0 /\ ~queue.nextAvailable
  BY DEF NewQueue
<1>3. Range(queue.deque) = {} /\ Range(popped) = {} /\ DOMAIN popped = {} /\ Len(popped) = 0
  BY <1>2 DEF Range
<1>4. UnsentFresh
  BY <1>2, <1>3, FreshMeansNotInRange, PacketAssumption DEF UnsentFresh
<1> QED
  BY <1>1, <1>2, <1>3, <1>4 DEF IndInv, InOrder, NoLostWakeup, NothingLost, ClearedEmpty

(* What inserting a fresh packet does to the queue and to its consumer.    *)
LEMMA InsertPacketEffect ==
  ASSUME TypeOK, QueueWellFormed, NoLostWakeup,
         NEW packet \in AnyPacket, Fresh(queue, packet), InsertPacket(packet)
  PROVE  /\ queue' \in QueueOf(AnyPacket) /\ WellFormed(queue')
         /\ queue'.currentId = queue.currentId
         /\ Range(queue'.deque) = Range(queue.deque) \union {packet}
         /\ consumer' \in {"out", "waiting", "woken"}
         /\ consumer' = "waiting" => ~queue'.nextAvailable
<1>1. /\ queue' \in QueueOf(AnyPacket) /\ WellFormed(queue')
      /\ queue'.currentId = queue.currentId
      /\ Range(queue'.deque) = Range(queue.deque) \union {packet}
  <2>1. /\ \A p \in AnyPacket : p.id \in Nat /\ p.size \in Nat
        /\ queue \in QueueOf(AnyPacket) /\ WellFormed(queue)
    BY TypeIsQueueOf DEF QueueWellFormed, AnyPacket
  <2>2. queue' = Insert(queue, packet)
    BY DEF InsertPacket
  <2> QED
    BY <2>1, <2>2, InsertProperties
<1>2. consumer' \in {"out", "waiting", "woken"}
  BY TypeIsQueueOf DEF InsertPacket, Notified
<1>3. ASSUME consumer' = "waiting"
      PROVE  ~queue'.nextAvailable
  BY <1>1, <1>3 DEF InsertPacket, Notified, WellFormed, FlagExact
<1> QED
  BY <1>1, <1>2, <1>3

(* Every step keeps the invariant.                                         *)
LEMMA NextInd == IndInv /\ [Next]_vars => IndInv'
<1> SUFFICES ASSUME IndInv, [Next]_vars PROVE IndInv'
  OBVIOUS
<1>0. /\ TypeOK /\ QueueWellFormed /\ InOrder /\ NoLostWakeup /\ NothingLost
      /\ UnsentFresh /\ ClearedEmpty
      /\ queue \in QueueOf(AnyPacket) /\ WellFormed(queue)
      /\ unsent \subseteq Packet /\ Packet \subseteq AnyPacket /\ popped \in Seq(AnyPacket)
  BY TypeIsQueueOf, PacketAssumption DEF IndInv, QueueWellFormed, AnyPacket
<1>1. ASSUME NEW packet \in unsent, Produce(packet)
      PROVE  IndInv'
  <2>1. packet \in AnyPacket /\ Fresh(queue, packet)
    BY <1>0 DEF UnsentFresh
  <2>2. /\ queue' \in QueueOf(AnyPacket) /\ WellFormed(queue')
        /\ queue'.currentId = queue.currentId
        /\ Range(queue'.deque) = Range(queue.deque) \union {packet}
        /\ consumer' \in {"out", "waiting", "woken"}
        /\ consumer' = "waiting" => ~queue'.nextAvailable
    BY <1>0, <1>1, <2>1, InsertPacketEffect DEF Produce
  <2>3. /\ producer = "open" /\ producer' = "open" /\ popped' = popped
        /\ unsent' = unsent \ {packet}
    BY <1>1 DEF Produce
  <2>4. TypeOK'
    BY <1>0, <2>2, <2>3, TypeIsQueueOf DEF TypeOK, QueueOf, AnyPacket
  <2>5. NothingLost'
    BY <1>0, <2>2, <2>3 DEF NothingLost
  <2>6. UnsentFresh'
    <3> SUFFICES ASSUME NEW other \in unsent' PROVE Fresh(queue', other)
      BY DEF UnsentFresh
    <3>1. other \in unsent /\ other # packet
      BY <2>3
    <3>2. other.id # packet.id
      BY <1>0, <3>1, PacketAssumption
    <3>3. other.id >= queue.currentId /\ \A p \in Range(queue.deque) : p.id # other.id
      BY <1>0, <3>1, FreshMeansNotInRange DEF UnsentFresh
    <3> QED
      BY <2>2, <3>2, <3>3, FreshMeansNotInRange
  <2> QED
    BY <1>0, <2>2, <2>3, <2>4, <2>5, <2>6
       DEF IndInv, QueueWellFormed, InOrder, NoLostWakeup, ClearedEmpty
<1>2. CASE Clear
  <2>1. /\ queue' \in QueueOf(AnyPacket) /\ WellFormed(queue')
        /\ queue'.deque = <<>> /\ queue'.currentId = queue.currentId
        /\ ~queue'.nextAvailable
    BY <1>0, <1>2, ClearedProperties DEF Clear, Cleared
  <2>2. /\ producer' = "cleared" /\ unsent' = {} /\ popped' = popped /\ consumer' = consumer
    BY <1>2 DEF Clear
  <2>3. TypeOK'
    BY <1>0, <2>1, <2>2 DEF TypeOK, QueueOf, AnyPacket
  <2> QED
    BY <1>0, <2>1, <2>2, <2>3
       DEF IndInv, QueueWellFormed, InOrder, NoLostWakeup, NothingLost, UnsentFresh, ClearedEmpty
<1>3. CASE ProduceClose
  <2> DEFINE close == ClosePacket(queue.currentId)
  <2>1. producer = "cleared" /\ queue.deque = <<>> /\ unsent = {} /\ queue.currentId \in Nat
    BY <1>0, <1>3 DEF ProduceClose, ClearedEmpty, QueueOf
  <2>2. close \in AnyPacket /\ Fresh(queue, close)
    BY <2>1 DEF ClosePacket, AnyPacket, Fresh
  <2>3. InsertPacket(close) /\ producer' = "closed" /\ unsent' = {} /\ popped' = popped
    BY <1>3, <2>1 DEF ProduceClose
  <2> HIDE DEF close
  <2>4. /\ queue' \in QueueOf(AnyPacket) /\ WellFormed(queue')
        /\ queue'.currentId = queue.currentId
        /\ consumer' \in {"out", "waiting", "woken"}
        /\ consumer' = "waiting" => ~queue'.nextAvailable
    BY <1>0, <2>2, <2>3, InsertPacketEffect
  <2>5. TypeOK'
    BY <1>0, <2>3, <2>4 DEF TypeOK, QueueOf, AnyPacket
  <2> QED
    BY <1>0, <2>3, <2>4, <2>5
       DEF IndInv, QueueWellFormed, InOrder, NoLostWakeup, NothingLost, UnsentFresh, ClearedEmpty
<1>4. CASE Pop
  <2> DEFINE front == Head(queue.deque)
  <2>1. /\ queue' = Popped(queue) /\ queue.nextAvailable /\ popped' = Append(popped, front)
        /\ consumer' = "out" /\ producer' = producer /\ unsent' = unsent
    BY <1>4 DEF Pop
  <2>2. /\ queue' \in QueueOf(AnyPacket) /\ WellFormed(queue')
        /\ queue'.currentId = queue.currentId + 1
        /\ front \in AnyPacket /\ front.id = queue.currentId /\ front \in Range(queue.deque)
        /\ Range(queue'.deque) = Range(queue.deque) \ {front}
    BY <1>0, <2>1, PoppedProperties DEF AnyPacket
  <2> HIDE DEF front
  <2>3. TypeOK'
    BY <1>0, <2>1, <2>2, AppendProperties DEF TypeOK, QueueOf, AnyPacket
  <2>4. InOrder'
    <3>1. /\ Len(popped) \in Nat /\ DOMAIN popped = 1..Len(popped)
          /\ Len(popped') = Len(popped) + 1 /\ DOMAIN popped' = 1..(Len(popped) + 1)
          /\ \A i \in 1..Len(popped) : popped'[i] = popped[i]
          /\ popped'[Len(popped) + 1] = front
      BY <1>0, <2>1, <2>2, LenProperties, AppendProperties
    <3>2. ASSUME NEW i \in 1..(Len(popped) + 1)
          PROVE  popped'[i].id = i - 1
      <4>1. CASE i \in 1..Len(popped)
        BY <1>0, <3>1, <4>1 DEF InOrder
      <4>2. CASE i = Len(popped) + 1
        BY <1>0, <2>2, <3>1, <4>2 DEF InOrder
      <4> QED
        BY <3>1, <4>1, <4>2
    <3> QED
      BY <1>0, <2>2, <3>1, <3>2 DEF InOrder
  <2>5. NothingLost'
    <3>1. Range(popped') = Range(popped) \union {front}
      BY <1>0, <2>1, <2>2, RangeOfAppend
    <3> QED
      BY <1>0, <2>1, <2>2, <3>1 DEF NothingLost
  <2>6. UnsentFresh'
    <3> SUFFICES ASSUME NEW other \in unsent PROVE Fresh(queue', other)
      BY <2>1 DEF UnsentFresh
    <3>1. other.id >= queue.currentId /\ \A p \in Range(queue.deque) : p.id # other.id
      BY <1>0, FreshMeansNotInRange DEF UnsentFresh
    <3>2. other.id \in Nat /\ queue.currentId \in Nat /\ other.id # queue.currentId
      BY <1>0, <2>2, <3>1 DEF AnyPacket, QueueOf
    <3>3. other.id >= queue.currentId + 1
      BY <3>1, <3>2
    <3> QED
      BY <2>2, <3>1, <3>3, FreshMeansNotInRange
  <2>7. producer # "cleared"
    BY <1>0, <2>1 DEF ClearedEmpty, WellFormed, FlagExact, IsNext
  <2> QED
    BY <1>0, <2>1, <2>2, <2>3, <2>4, <2>5, <2>6, <2>7
       DEF IndInv, QueueWellFormed, NoLostWakeup, ClearedEmpty
<1>5. CASE Wait \/ WakeUpSpuriously
  <2>1. /\ UNCHANGED <<queue, unsent, producer, popped>>
        /\ consumer' \in {"out", "waiting", "woken"}
        /\ consumer' = "waiting" => ~queue.nextAvailable
    BY <1>5 DEF Wait, WakeUpSpuriously
  <2> QED
    BY <1>0, <2>1
       DEF IndInv, TypeOK, QueueWellFormed, InOrder, NoLostWakeup, NothingLost,
           UnsentFresh, ClearedEmpty
<1>6. CASE UNCHANGED vars
  BY <1>0, <1>6
     DEF IndInv, TypeOK, QueueWellFormed, InOrder, NoLostWakeup, NothingLost,
         UnsentFresh, ClearedEmpty, vars
<1> QED
  BY <1>1, <1>2, <1>3, <1>4, <1>5, <1>6 DEF Next

(* The invariant holds in every reachable state, for every set of packets. *)
LEMMA Inductive == Spec => []IndInv
  BY InitInd, NextInd, PTL DEF Spec

(* Types: in particular currentId_ never leaves the naturals.              *)
THEOREM TypeCorrect == Spec => []TypeOK
<1>1. IndInv => TypeOK
  BY DEF IndInv
<1> QED
  BY <1>1, Inductive, PTL

(* The assertions of Pop hold whatever order the packets arrive in.        *)
THEOREM AlwaysWellFormed == Spec => []QueueWellFormed
<1>1. IndInv => QueueWellFormed
  BY DEF IndInv
<1> QED
  BY <1>1, Inductive, PTL

(* Pop returns the packets 0, 1, 2, ... with no gap and no repetition.     *)
THEOREM DeliversInOrder == Spec => []InOrder
<1>1. IndInv => InOrder
  BY DEF IndInv
<1> QED
  BY <1>1, Inductive, PTL

(* The consumer never sleeps while the next packet is there.               *)
THEOREM NeverMissesAWakeup == Spec => []NoLostWakeup
<1>1. IndInv => NoLostWakeup
  BY DEF IndInv
<1> QED
  BY <1>1, Inductive, PTL

(* Until Clear no packet disappears.                                       *)
THEOREM LosesNothing == Spec => []NothingLost
<1>1. IndInv => NothingLost
  BY DEF IndInv
<1> QED
  BY <1>1, Inductive, PTL

----------------------------------------------------------------------------
(* An inserted packet is counted once, and its bytes are.                  *)
LEMMA InsertCounts ==
  ASSUME TypeOK, QueueWellFormed, NEW packet \in AnyPacket, Fresh(queue, packet),
         InsertPacket(packet)
  PROVE  /\ queue'.size = queue.size + 1 /\ Len(queue'.deque) = Len(queue.deque) + 1
         /\ queue'.byteSize = queue.byteSize + packet.size
         /\ Payload(queue'.deque) = Payload(queue.deque) + packet.size
<1> DEFINE placed == Placed(queue.deque, packet)
<1>1. /\ queue'.size = queue.size + 1 /\ queue'.byteSize = queue.byteSize + packet.size
      /\ queue'.deque = placed
  BY DEF InsertPacket, Insert
<1>2. /\ queue.deque \in Seq(AnyPacket) /\ Sorted(queue.deque)
      /\ \A i \in DOMAIN queue.deque : queue.deque[i].id # packet.id
      /\ \A p \in AnyPacket : p.id \in Nat /\ p.size \in Nat
  BY TypeIsQueueOf DEF QueueOf, QueueWellFormed, WellFormed, Fresh, AnyPacket
<1>3. PICK k \in 0..Len(queue.deque) : InsertedBehind(AnyPacket, queue.deque, packet, placed, k)
  BY <1>2, PlacedElements
<1> HIDE DEF placed
<1>4. Len(placed) = Len(queue.deque) + 1
  BY <1>3 DEF InsertedBehind
<1>5. Payload(placed) = Payload(queue.deque) + packet.size
  BY <1>2, <1>3, PayloadInserted
<1> QED
  BY <1>1, <1>4, <1>5 DEF Payload

LEMMA CountsNextInd == IndInv /\ CountsExact /\ [Next]_vars => CountsExact'
<1> SUFFICES ASSUME IndInv, CountsExact, [Next]_vars PROVE CountsExact'
  OBVIOUS
<1>0. /\ TypeOK /\ QueueWellFormed /\ UnsentFresh /\ ClearedEmpty
      /\ queue \in QueueOf(AnyPacket) /\ queue.deque \in Seq(AnyPacket)
      /\ queue.size \in Int /\ queue.byteSize \in Int /\ queue.currentId \in Nat
      /\ Payload(queue.deque) \in Nat /\ Len(queue.deque) \in Nat
      /\ unsent \subseteq AnyPacket
  <2>1. queue \in QueueOf(AnyPacket)
    BY TypeIsQueueOf DEF IndInv
  <2>2. queue.deque \in Seq(AnyPacket)
    BY <2>1 DEF QueueOf
  <2> QED
    BY <2>1, <2>2, PayloadType, LenProperties, PacketAssumption
       DEF IndInv, TypeOK, QueueOf, AnyPacket
<1>1. ASSUME NEW packet \in AnyPacket, Fresh(queue, packet), InsertPacket(packet),
             producer' = producer \/ producer' # "open"
      PROVE  CountsExact'
  <2>1. /\ queue'.size = queue.size + 1 /\ Len(queue'.deque) = Len(queue.deque) + 1
        /\ queue'.byteSize = queue.byteSize + packet.size
        /\ Payload(queue'.deque) = Payload(queue.deque) + packet.size
        /\ packet.size \in Nat
    BY <1>0, <1>1, InsertCounts DEF AnyPacket
  <2> QED
    BY <1>0, <1>1, <2>1 DEF CountsExact, Payload
<1>2. ASSUME NEW packet \in unsent, Produce(packet)
      PROVE  CountsExact'
  BY <1>0, <1>1, <1>2 DEF Produce, UnsentFresh
<1>3. CASE Clear
  <2>1. /\ queue'.deque = <<>> /\ queue'.size = 0 /\ queue'.byteSize = queue.byteSize
        /\ producer' = "cleared"
    BY <1>3 DEF Clear, Cleared
  <2>2. queue.byteSize >= 0
    BY <1>0 DEF CountsExact
  <2>3. Payload(queue'.deque) = 0 /\ Len(queue'.deque) = 0
    BY <2>1, PayloadOfNone
  <2> QED
    BY <2>1, <2>2, <2>3 DEF CountsExact, Payload
<1>4. CASE ProduceClose
  <2> DEFINE close == ClosePacket(queue.currentId)
  <2>1. close \in AnyPacket /\ Fresh(queue, close)
    BY <1>0, <1>4 DEF ProduceClose, ClearedEmpty, ClosePacket, AnyPacket, Fresh
  <2> QED
    BY <1>1, <1>4, <2>1 DEF ProduceClose
<1>5. CASE Pop
  <2>1. /\ queue'.deque = Tail(queue.deque) /\ queue'.size = queue.size - 1
        /\ queue'.byteSize = queue.byteSize - Head(queue.deque).size /\ producer' = producer
    BY <1>5 DEF Pop, Popped
  <2>2. queue.deque # <<>>
    BY <1>0, <1>5 DEF Pop, QueueWellFormed, WellFormed, FlagExact, IsNext
  <2>3. /\ Len(Tail(queue.deque)) = Len(queue.deque) - 1
        /\ Head(queue.deque).size \in Nat
        /\ Payload(Tail(queue.deque)) = Payload(queue.deque) - Head(queue.deque).size
    <3>1. Head(queue.deque) \in AnyPacket /\ Len(Tail(queue.deque)) = Len(queue.deque) - 1
      BY <1>0, <2>2, HeadTailProperties
    <3>2. Payload(Tail(queue.deque)) = Payload(queue.deque) - Head(queue.deque).size
      <4>1. \A p \in AnyPacket : p.size \in Nat
        BY DEF AnyPacket
      <4> QED
        BY <1>0, <2>2, <4>1, PayloadOfTail
    <3> QED
      BY <3>1, <3>2 DEF AnyPacket
  <2>4. queue'.size = Len(queue'.deque)
    BY <1>0, <2>1, <2>3 DEF CountsExact
  <2>5. /\ queue'.byteSize >= Payload(Tail(queue.deque))
        /\ producer = "open" => queue'.byteSize = Payload(Tail(queue.deque))
    BY <1>0, <2>1, <2>3 DEF CountsExact
  <2>6. Payload(queue'.deque) = Payload(Tail(queue.deque))
    BY <2>1
  <2> QED
    BY <2>1, <2>4, <2>5, <2>6 DEF CountsExact, Payload
<1>6. CASE Wait \/ WakeUpSpuriously \/ UNCHANGED vars
  <2>1. UNCHANGED <<queue, producer>>
    BY <1>6 DEF Wait, WakeUpSpuriously, vars
  <2> QED
    BY <2>1 DEF CountsExact, Payload
<1> QED
  BY <1>2, <1>3, <1>4, <1>5, <1>6 DEF Next

(* size_ is the length of the deque, and byteSize_ the payload in it until *)
(* Clear leaves its bytes in the counter.                                  *)
THEOREM CountsQueue == Spec => []CountsExact
<1>1. Init => CountsExact
  <2> SUFFICES ASSUME Init PROVE CountsExact
    OBVIOUS
  <2>1. queue.deque = <<>> /\ queue.size = 0 /\ queue.byteSize = 0
    BY DEF Init, NewQueue
  <2>2. Payload(queue.deque) = 0 /\ Len(queue.deque) = 0
    BY <2>1, PayloadOfNone
  <2> QED
    BY <2>1, <2>2 DEF CountsExact
<1> QED
  BY <1>1, CountsNextInd, Inductive, PTL DEF Spec

----------------------------------------------------------------------------
LEMMA InitRefines == Init => Buffer!Init
  BY DEF Init, NewQueue, Buffer!Init, Range

LEMMA NextRefines == IndInv /\ [Next]_vars => [Buffer!Next]_Buffer!vars
<1> SUFFICES ASSUME IndInv, [Next]_vars
             PROVE  Buffer!Next \/ (Range(queue.deque)' = Range(queue.deque) /\ popped' = popped)
  BY DEF Buffer!vars
<1>0. /\ TypeOK /\ QueueWellFormed /\ NoLostWakeup /\ InOrder /\ UnsentFresh /\ ClearedEmpty
      /\ queue \in QueueOf(AnyPacket) /\ WellFormed(queue)
      /\ unsent \subseteq AnyPacket /\ queue.currentId = Len(popped) /\ queue.currentId \in Nat
  BY TypeIsQueueOf, PacketAssumption
     DEF IndInv, QueueWellFormed, InOrder, AnyPacket, QueueOf
(* Inserting a fresh packet is putting it into the buffer.                 *)
<1>1. ASSUME NEW packet \in AnyPacket, Fresh(queue, packet), InsertPacket(packet),
             popped' = popped
      PROVE  Buffer!Next
  <2>1. Range(queue'.deque) = Range(queue.deque) \union {packet}
    BY <1>0, <1>1, InsertPacketEffect
  <2>2. packet.id >= Len(popped) /\ \A other \in Range(queue.deque) : other.id # packet.id
    BY <1>0, <1>1, FreshMeansNotInRange
  <2>3. Buffer!Put(packet)
    BY <1>1, <2>1, <2>2 DEF Buffer!Put
  <2> QED
    BY <2>1, <2>3 DEF Buffer!Next
<1>2. ASSUME NEW packet \in unsent, Produce(packet)
      PROVE  Buffer!Next
  BY <1>0, <1>1, <1>2 DEF Produce, UnsentFresh
<1>3. CASE Clear
  <2>1. Range(queue'.deque) = {} /\ popped' = popped
    BY <1>3 DEF Clear, Cleared, Range
  <2> QED
    BY <2>1 DEF Buffer!Next, Buffer!Drop
<1>4. CASE ProduceClose
  <2> DEFINE close == ClosePacket(queue.currentId)
  <2>1. close \in AnyPacket /\ Fresh(queue, close)
    BY <1>0, <1>4 DEF ProduceClose, ClearedEmpty, ClosePacket, AnyPacket, Fresh
  <2> QED
    BY <1>1, <1>4, <2>1 DEF ProduceClose
<1>5. CASE Pop
  <2> DEFINE front == Head(queue.deque)
  <2>1. /\ queue' = Popped(queue) /\ queue.nextAvailable /\ popped' = Append(popped, front)
    BY <1>5 DEF Pop
  <2>2. /\ front.id = queue.currentId /\ front \in Range(queue.deque)
        /\ Range(queue'.deque) = Range(queue.deque) \ {front}
    BY <1>0, <2>1, PoppedProperties DEF AnyPacket
  <2> HIDE DEF front
  <2>3. Buffer!Deliver(front)
    BY <1>0, <2>1, <2>2 DEF Buffer!Deliver
  <2> QED
    BY <2>2, <2>3 DEF Buffer!Next
<1>6. CASE Wait \/ WakeUpSpuriously \/ UNCHANGED vars
  BY <1>6 DEF Wait, WakeUpSpuriously, vars
<1> QED
  BY <1>2, <1>3, <1>4, <1>5, <1>6 DEF Next

(* The queue with its deque, flag and condition variable is a reorder      *)
(* buffer: it delivers what went in, by number, and drops only by Clear.   *)
THEOREM RefinesBuffer == Spec => ImplementsBuffer
  BY InitRefines, NextRefines, Inductive, PTL DEF Spec, ImplementsBuffer, Buffer!Spec

----------------------------------------------------------------------------
(* The list without locks.                                                 *)

(* The calls of Insert may overlap with each other, but not with Pop.      *)
NoOverlap == Shared # Operation

(* The nodes of contents are chained from first on by decreasing ids, with *)
(* none left out.                                                          *)
Linked(contents, first, link) ==
  /\ contents \subseteq Node
  /\ first \in contents \cup {Null}
  /\ first = Null => contents = {}
  /\ \A p \in contents : p.id <= first.id
  /\ \A p, q \in contents : p.id = q.id => p = q
  /\ \A p \in contents : link[p] = Null \/ (link[p] \in contents /\ link[p].id < p.id)
  /\ \A p, q \in contents : q.id < p.id => link[p] # Null /\ q.id <= link[p].id

(* Only the nodes of the list point at others, and none of them is deleted.*)
ListShape ==
  /\ Linked(Contents, head, next)
  /\ \A p \in Node \ Contents : next[p] = Null
  /\ Contents \cap freed = {}

(* Each inserter goes through its outbox, and every node in the list or    *)
(* deleted comes from a call that began.                                   *)
OutboxInv ==
  /\ todo \in [Inserter -> Seq(Nat)]
  /\ \A t \in Inserter :
       /\ Len(todo[t]) <= Len(Outbox[t])
       /\ \A i \in 1..Len(todo[t]) : todo[t][i] = Outbox[t][Begun(t) + i]
  /\ \A p \in Contents \cup freed : p.at <= Begun(p.by)

(* Pop took 0, 1, 2, ... and what is left comes later.                     *)
NumberInv ==
  /\ currentId = Len(taken)
  /\ \A p \in Contents : p.id >= currentId + (IF pc[Consumer] = "popped" THEN 1 ELSE 0)

(* An inserter in the middle of a call: its packet is not published before *)
(* the counters, and its place is in the list.                             *)
Inserting(t) ==
  /\ pc[t] \in {"idle", "head", "store", "casHead", "walk", "casNext", "count"}
  /\ operation[t] = IF pc[t] = "idle" THEN "none" ELSE "insert"
  /\ pc[t] # "idle" =>
       /\ flowPacket[t] \in Node /\ flowPacket[t].by = t /\ flowPacket[t].at = Begun(t)
       /\ flowPacket[t].id >= currentId
       /\ flowPacket[t] \notin freed
       /\ flowPacket[t] \in Contents <=> pc[t] = "count"
  /\ pc[t] = "store" => head = Null
  /\ pc[t] \in {"head", "store"} /\ head = Null => \A u \in Inserter \ {t} : pc[u] = "idle"
  /\ pc[t] \in {"casHead", "walk", "casNext"} => ptr[t] \in Contents
  /\ pc[t] = "casHead" => ptr[t].id < flowPacket[t].id
  /\ pc[t] = "walk" => ptr[t].id >= flowPacket[t].id
  /\ pc[t] = "casNext" => /\ ptr[t].id > flowPacket[t].id
                          /\ node[t] = Null \/ node[t].id < flowPacket[t].id

(* The consumer in the middle of a call: nobody inserts, and its place is  *)
(* in the list until it took a node out.                                   *)
Popping ==
  /\ pc[Consumer] \in {"idle", "popTest", "popHead", "popWalk", "popLook", "popTail", "popped"}
  /\ operation[Consumer] = IF pc[Consumer] = "idle" THEN "none" ELSE "pop"
  /\ pc[Consumer] # "idle" => \A t \in Inserter : pc[t] = "idle"
  /\ pc[Consumer] = "popTest" => ptr[Consumer] = head
  /\ pc[Consumer] = "popHead" => ptr[Consumer] = head /\ head # Null /\ next[head] = Null
  /\ pc[Consumer] \in {"popWalk", "popLook", "popTail"} => ptr[Consumer] \in Contents
  /\ pc[Consumer] \in {"popLook", "popTail"} =>
       node[Consumer] \in Contents /\ next[ptr[Consumer]] = node[Consumer]
  /\ pc[Consumer] = "popTail" =>
       next[node[Consumer]] = Null /\ node[Consumer].id = currentId
  /\ pc[Consumer] = "popped" =>
       /\ node[Consumer] \in Node \ (Contents \cup freed)
       /\ node[Consumer].id = currentId
       /\ node[Consumer].at <= Begun(node[Consumer].by)

ListIndInv ==
  /\ ListTypeOK
  /\ ListShape
  /\ OutboxInv
  /\ NumberInv
  /\ \A t \in Inserter : Inserting(t)
  /\ Popping

LEMMA NodeFields ==
  /\ \A p \in Node : p.id \in Nat /\ p.by \in Inserter /\ p.at \in 1..Len(Outbox[p.by])
  /\ \A t \in Inserter : \A i \in 1..Len(Outbox[t]) :
       [id |-> Outbox[t][i], by |-> t, at |-> i] \in Node
  /\ Null \notin Node /\ Null.id = -1
<1>1. \A t \in Inserter : /\ Outbox[t] \in Seq(Nat) /\ DOMAIN Outbox[t] = 1..Len(Outbox[t])
                          /\ Len(Outbox[t]) \in Nat
                          /\ \A i \in 1..Len(Outbox[t]) : Outbox[t][i] \in Nat
  BY LockFreeAssumption, LenProperties, ElementOfSeq
<1>2. ASSUME NEW p \in Node
      PROVE  p.id \in Nat /\ p.by \in Inserter /\ p.at \in 1..Len(Outbox[p.by])
  <2>1. PICK t \in Inserter : p \in {[id |-> Outbox[t][i], by |-> t, at |-> i] : i \in DOMAIN Outbox[t]}
    BY DEF Node
  <2>2. PICK i \in DOMAIN Outbox[t] : p = [id |-> Outbox[t][i], by |-> t, at |-> i]
    BY <2>1
  <2> QED
    BY <1>1, <2>2
<1>3. ASSUME NEW t \in Inserter, NEW i \in 1..Len(Outbox[t])
      PROVE  [id |-> Outbox[t][i], by |-> t, at |-> i] \in Node
  BY <1>1 DEF Node
<1> QED
  BY <1>2, <1>3, LockFreeAssumption DEF Null

(* A chain by decreasing ids is what its first node reaches.               *)
LEMMA LinkedIsReach ==
  ASSUME NEW C, NEW first, NEW link, Linked(C, first, link)
  PROVE  Reach(first, link) = C
<1> USE DEF Linked
<1>1. C \subseteq Node /\ \A p \in C : p.id \in Nat
  BY NodeFields
<1>2. ASSUME NEW p \in Reach(first, link)
      PROVE  p \in C
  <2>1. C \in SUBSET Node /\ first \in C \cup {Null} /\ \A q \in C : link[q] \in C \cup {Null}
    BY <1>1
  <2> QED
    BY <1>2, <2>1 DEF Reach
<1>3. ASSUME NEW S \in SUBSET Node, first \in S \cup {Null},
             \A q \in S : link[q] \in S \cup {Null}
      PROVE  C \subseteq S
  <2> SUFFICES ASSUME C \ S # {} PROVE FALSE
    OBVIOUS
  <2>1. first # Null /\ first \in C /\ first.id \in Nat
    BY <1>1
  <2> DEFINE Missed == {first.id - p.id : p \in C \ S}
  <2>2. Missed \subseteq Nat /\ Missed # {}
    BY <1>1, <2>1
  <2>3. PICK m \in Missed : \A n \in Missed : m <= n
    <3> HIDE DEF Missed
    <3> QED
      BY <2>2, SmallestExists
  <2>4. PICK p \in C \ S : m = first.id - p.id
    BY <2>3
  <2>5. ASSUME NEW q \in C \ S
        PROVE  q.id <= p.id
    <3>1. first.id - p.id <= first.id - q.id
      BY <2>3, <2>4
    <3> QED
      BY <1>1, <2>1, <3>1
  <2> HIDE DEF Missed
  <2> DEFINE Above == {q.id : q \in {r \in C : r.id > p.id}}
  <2>6. first \in S /\ first # p /\ first.id > p.id
    BY <1>1, <1>3, <2>1, <2>4, NodeFields
  <2>7. Above \subseteq Nat /\ Above # {}
    BY <1>1, <2>1, <2>6
  <2>8. PICK a \in Above : \A n \in Above : a <= n
    <3> HIDE DEF Above
    <3> QED
      BY <2>7, SmallestExists
  <2>9. PICK q \in C : q.id > p.id /\ \A r \in C : r.id > p.id => q.id <= r.id
    BY <2>8
  <2> HIDE DEF Above
  <2>10. q \in S
    BY <1>1, <2>5, <2>9
  <2>11. link[q] # Null /\ p.id <= link[q].id /\ link[q] \in C /\ link[q].id < q.id
    BY <2>9
  <2>12. link[q] = p
    BY <1>1, <2>9, <2>11
  <2> QED
    BY <1>3, <2>10, <2>11, <2>12
<1>4. ASSUME NEW p \in C
      PROVE  p \in Reach(first, link)
  BY <1>1, <1>3, <1>4 DEF Reach
<1> QED
  BY <1>2, <1>4

LEMMA LinkedEmpty ==
  ASSUME NEW link
  PROVE  Linked({}, Null, link)
  BY DEF Linked

(* The three ways the list changes.                                        *)
LEMMA LinkedInFront ==
  ASSUME NEW C, NEW first, NEW link \in [Node -> Node \cup {Null}], Linked(C, first, link),
         NEW p \in Node, p \notin C, first = Null \/ first.id < p.id
  PROVE  Linked(C \cup {p}, p, [link EXCEPT ![p] = first])
<1> DEFINE new == [link EXCEPT ![p] = first]
<1>1. C \subseteq Node /\ new[p] = first /\ \A q \in C : new[q] = link[q]
  BY DEF Linked
<1> HIDE DEF new
<1>2. \A q \in C : q.id \in Nat /\ q.id < p.id /\ first # Null /\ q.id <= first.id /\ first \in C
  BY <1>1, NodeFields DEF Linked
<1>3. p.id \in Nat /\ Null \notin C
  BY <1>1, NodeFields
<1>4. \A q \in C \cup {p} : q.id <= p.id
  BY <1>2, <1>3
<1>5. \A q, r \in C \cup {p} : q.id = r.id => q = r
  BY <1>2, <1>3 DEF Linked
<1>6. \A q \in C \cup {p} : new[q] = Null \/ (new[q] \in C \cup {p} /\ new[q].id < q.id)
  BY <1>1, <1>2, <1>3 DEF Linked
<1>7. ASSUME NEW q \in C \cup {p}, NEW r \in C \cup {p}, r.id < q.id
      PROVE  new[q] # Null /\ r.id <= new[q].id
  <2>1. CASE q = p
    BY <1>1, <1>2, <1>3, <1>7, <2>1
  <2>2. CASE q \in C
    <3>1. r \in C
      BY <1>2, <1>3, <1>7, <2>2
    <3> QED
      BY <1>1, <1>7, <2>2, <3>1 DEF Linked
  <2> QED
    BY <2>1, <2>2
<1>8. Linked(C \cup {p}, p, new)
  BY <1>1, <1>4, <1>5, <1>6, <1>7, NodeFields DEF Linked
<1> QED
  BY <1>8 DEF new

LEMMA LinkedBehind ==
  ASSUME NEW C, NEW first, NEW link \in [Node -> Node \cup {Null}], Linked(C, first, link),
         NEW p \in Node, p \notin C, NEW q \in C, p.id < q.id,
         link[q] = Null \/ link[q].id < p.id
  PROVE  Linked(C \cup {p}, first, [link EXCEPT ![q] = p, ![p] = link[q]])
<1> DEFINE new == [link EXCEPT ![q] = p, ![p] = link[q]]
<1>1. /\ C \subseteq Node /\ new[q] = p /\ new[p] = link[q]
      /\ \A r \in C : r # q => new[r] = link[r]
  BY DEF Linked
<1> HIDE DEF new
<1>2. /\ p.id \in Nat /\ Null \notin C /\ p # Null
      /\ \A r \in C : r.id \in Nat
      /\ first \in C /\ first # Null /\ q.id <= first.id
  BY <1>1, NodeFields DEF Linked
(* No node lies between q and the one behind it.                           *)
<1>3. \A r \in C : r.id < q.id => link[q] # Null /\ r.id <= link[q].id /\ r.id < p.id
  <2> SUFFICES ASSUME NEW r \in C, r.id < q.id
               PROVE  link[q] # Null /\ r.id <= link[q].id /\ r.id < p.id
    OBVIOUS
  <2>1. link[q] # Null /\ r.id <= link[q].id /\ link[q] \in C /\ link[q].id < p.id
    BY DEF Linked
  <2> QED
    BY <1>2, <2>1
<1>4. \A r \in C : r.id # p.id /\ (r.id < q.id \/ r.id >= q.id)
  BY <1>2, <1>3
<1>5. \A r \in C \cup {p} : r.id <= first.id
  BY <1>2 DEF Linked
<1>6. \A r, s \in C \cup {p} : r.id = s.id => r = s
  BY <1>4 DEF Linked
<1>7. ASSUME NEW r \in C \cup {p}
      PROVE  new[r] = Null \/ (new[r] \in C \cup {p} /\ new[r].id < r.id)
  <2>1. CASE r = p
    BY <1>1, <2>1 DEF Linked
  <2>2. CASE r = q
    BY <1>1, <2>2
  <2>3. CASE r \in C /\ r # q
    BY <1>1, <2>3 DEF Linked
  <2> QED
    BY <2>1, <2>2, <2>3
<1>8. ASSUME NEW r \in C \cup {p}, NEW s \in C \cup {p}, s.id < r.id
      PROVE  new[r] # Null /\ s.id <= new[r].id
  <2>1. CASE r = p
    <3>1. s \in C /\ s.id < q.id
      BY <1>2, <1>8, <2>1
    <3> QED
      BY <1>1, <1>3, <2>1, <3>1
  <2>2. CASE r = q
    <3>1. s.id <= p.id
      BY <1>2, <1>3, <1>8, <2>2
    <3> QED
      BY <1>1, <1>2, <2>2, <3>1
  <2>3. CASE r \in C /\ r # q /\ s \in C
    BY <1>1, <1>8, <2>3 DEF Linked
  <2>4. CASE r \in C /\ r # q /\ s = p
    <3>1. q.id < r.id
      <4>1. r.id # q.id
        BY <2>4 DEF Linked
      <4>2. ~(r.id < q.id)
        BY <1>2, <1>3, <1>8, <2>4
      <4> QED
        BY <1>2, <2>4, <4>1, <4>2
    <3>2. link[r] # Null /\ q.id <= link[r].id /\ link[r] \in C
      BY <2>4, <3>1 DEF Linked
    <3> QED
      BY <1>1, <1>2, <2>4, <3>2
  <2> QED
    BY <2>1, <2>2, <2>3, <2>4
<1>9. Linked(C \cup {p}, first, new)
  BY <1>1, <1>2, <1>5, <1>6, <1>7, <1>8, NodeFields DEF Linked
<1> QED
  BY <1>9 DEF new

LEMMA LinkedWithoutTail ==
  ASSUME NEW C, NEW first, NEW link \in [Node -> Node \cup {Null}], Linked(C, first, link),
         NEW q \in C, NEW p \in C, link[q] = p, link[p] = Null
  PROVE  Linked(C \ {p}, first, [link EXCEPT ![q] = Null])
<1> DEFINE new == [link EXCEPT ![q] = Null]
<1>1. C \subseteq Node /\ new[q] = Null /\ \A r \in C : r # q => new[r] = link[r]
  BY DEF Linked
<1> HIDE DEF new
<1>2. /\ Null \notin C /\ \A r \in C : r.id \in Nat
      /\ p.id < q.id /\ q.id <= first.id /\ first \in C /\ first # p
  BY <1>1, NodeFields DEF Linked
(* The tail has the smallest id, and q the one above it.                   *)
<1>3. \A r \in C : r.id >= p.id
  BY <1>2 DEF Linked
<1>4. \A r \in C : r # p => r.id >= q.id
  <2> SUFFICES ASSUME NEW r \in C, r # p, r.id < q.id PROVE FALSE
    BY <1>2
  <2>1. r.id <= p.id
    BY DEF Linked
  <2>2. r.id = p.id
    BY <1>2, <1>3, <2>1
  <2> QED
    BY <2>2 DEF Linked
<1>5. ASSUME NEW r \in C \ {p}
      PROVE  new[r] = Null \/ (new[r] \in C \ {p} /\ new[r].id < r.id)
  <2>1. CASE r = q
    BY <1>1, <2>1
  <2>2. CASE r # q
    <3>1. r.id > q.id
      <4>1. r.id # q.id
        BY <2>2 DEF Linked
      <4> QED
        BY <1>2, <1>4, <4>1
    <3>2. link[r] \in C /\ q.id <= link[r].id /\ link[r].id < r.id
      BY <3>1 DEF Linked
    <3>3. link[r] # p
      BY <1>2, <3>2
    <3> QED
      BY <1>1, <2>2, <3>2, <3>3
  <2> QED
    BY <2>1, <2>2
<1>6. ASSUME NEW r \in C \ {p}, NEW s \in C \ {p}, s.id < r.id
      PROVE  new[r] # Null /\ s.id <= new[r].id
  <2>1. r # q
    BY <1>2, <1>4, <1>6
  <2> QED
    BY <1>1, <1>6, <2>1 DEF Linked
<1>7. Linked(C \ {p}, first, new)
  BY <1>1, <1>2, <1>5, <1>6 DEF Linked
<1> QED
  BY <1>7 DEF new

----------------------------------------------------------------------------
(* Which threads are alone.                                                *)
LEMMA ThreadsApart ==
  /\ Consumer \in Thread /\ Consumer \notin Inserter
  /\ \A t \in Inserter : t \in Thread /\ t # Consumer
  BY LockFreeAssumption DEF Thread

LEMMA StartsAlone ==
  ASSUME NoOverlap, Popping, \A t \in Inserter : Inserting(t), NEW op, MayStart(op)
  PROVE  /\ op \in {"pop", "clear"} => \A t \in Inserter : pc[t] = "idle"
         /\ op = "insert" => pc[Consumer] = "idle"
         /\ op = "insert" /\ head = Null => \A t \in Inserter : pc[t] = "idle"
<1>1. \A t \in Thread : operation[t] # "none" => op \in Shared /\ operation[t] \in Shared
  BY DEF MayStart
<1>2. "clear" \notin Shared /\ ~("insert" \in Shared /\ "pop" \in Shared)
  BY LockFreeAssumption DEF NoOverlap, Operation
<1>3. \A t \in Inserter : pc[t] # "idle" => operation[t] = "insert"
  BY DEF Inserting
<1>4. pc[Consumer] # "idle" => operation[Consumer] = "pop"
  BY DEF Popping
<1>5. op = "insert" /\ head = Null => \A t \in Inserter : operation[t] = "none"
  BY ThreadsApart DEF MayStart
<1> QED
  BY <1>1, <1>2, <1>3, <1>4, <1>5, ThreadsApart

LEMMA SameList ==
  ASSUME UNCHANGED <<head, next>>
  PROVE  Contents' = Contents
  BY DEF Contents

LEMMA SameShape ==
  ASSUME ListShape, UNCHANGED list
  PROVE  ListShape' /\ Contents' = Contents
<1>1. Contents' = Contents
  BY SameList DEF list
<1> QED
  BY <1>1 DEF ListShape, list, Linked

(* A step of one inserter that publishes its packet or nothing leaves the  *)
(* rest of the invariant as it is.                                         *)
LEMMA InsertFrame ==
  ASSUME ListIndInv, NEW t \in Inserter, pc[t] # "idle",
         UNCHANGED <<freed, currentId, todo, taken>>,
         \A u \in Thread \ {t} : /\ pc'[u] = pc[u] /\ operation'[u] = operation[u]
                                 /\ ptr'[u] = ptr[u] /\ node'[u] = node[u],
         \A u \in Inserter \ {t} : flowPacket'[u] = flowPacket[u],
         Contents' = Contents \/ Contents' = Contents \cup {flowPacket[t]},
         head' = Null => head = Null,
         ListTypeOK', ListShape', Inserting(t)'
  PROVE  ListIndInv'
<1>1. pc[Consumer] = "idle" /\ Popping /\ Inserting(t)
  BY DEF ListIndInv, Popping
<1>2. /\ flowPacket[t] \in Node /\ flowPacket[t].by = t /\ flowPacket[t].at = Begun(t)
      /\ flowPacket[t].id >= currentId
  BY <1>1 DEF Inserting
<1>3. \A p \in Contents' : p \in Contents \/ p = flowPacket[t]
  OBVIOUS
<1>4. OutboxInv'
  <2>1. todo' = todo /\ freed' = freed /\ \A u : Begun(u)' = Begun(u)
    BY DEF Begun
  <2>2. flowPacket[t].at <= Begun(flowPacket[t].by)
    BY <1>2, NodeFields
  <2>3. \A p \in Contents' \cup freed' : p.at <= Begun(p.by)
    BY <1>3, <2>1, <2>2 DEF ListIndInv, OutboxInv
  <2> QED
    BY <2>1, <2>3 DEF ListIndInv, OutboxInv
<1>5. pc'[Consumer] = "idle" /\ operation'[Consumer] = operation[Consumer]
  BY <1>1, ThreadsApart
<1>6. NumberInv'
  BY <1>1, <1>2, <1>3, <1>5 DEF ListIndInv, NumberInv
<1>7. Popping'
  BY <1>1, <1>5 DEF Popping
<1>8. ASSUME NEW u \in Inserter, u # t
      PROVE  Inserting(u)'
  <2>1. /\ pc'[u] = pc[u] /\ operation'[u] = operation[u] /\ ptr'[u] = ptr[u]
        /\ node'[u] = node[u] /\ flowPacket'[u] = flowPacket[u] /\ Begun(u)' = Begun(u)
    BY <1>8, ThreadsApart DEF Begun
  <2>2. Inserting(u)
    BY DEF ListIndInv
  <2>3. ~(pc[u] \in {"head", "store"} /\ head = Null)
    BY <1>8, <2>2 DEF Inserting
  <2>4. pc[u] # "idle" => flowPacket[u] # flowPacket[t]
    BY <1>2, <1>8, <2>2 DEF Inserting
  <2>5. flowPacket[u] \in Contents' <=> flowPacket[u] \in Contents \/ (flowPacket[u] = flowPacket[t] /\ Contents' # Contents)
    OBVIOUS
  <2>6. ptr[u] \in Contents => ptr[u] \in Contents'
    OBVIOUS
  <2> QED
    BY <2>1, <2>2, <2>3, <2>4, <2>5, <2>6 DEF Inserting
<1> QED
  BY <1>4, <1>6, <1>7, <1>8 DEF ListIndInv

LEMMA StartInsertInd ==
  ASSUME NoOverlap, ListIndInv, NEW t \in Inserter, StartInsert(t)
  PROVE  ListIndInv'
<1> DEFINE p == NextNode(t)
<1>1. /\ todo[t] # <<>> /\ Head(todo[t]) >= currentId
      /\ pc[t] = "idle" /\ MayStart("insert")
      /\ operation' = [operation EXCEPT ![t] = "insert"] /\ pc' = [pc EXCEPT ![t] = "head"]
      /\ flowPacket' = [flowPacket EXCEPT ![t] = p] /\ todo' = [todo EXCEPT ![t] = Tail(todo[t])]
      /\ UNCHANGED <<list, head, next, freed, size, currentId, ptr, node, taken>>
  BY DEF StartInsert, Start, Goto, Set, list
<1>2. /\ ListTypeOK /\ ListShape /\ OutboxInv /\ NumberInv /\ Popping
      /\ \A u \in Inserter : Inserting(u)
  BY DEF ListIndInv
<1>3. /\ pc[Consumer] = "idle"
      /\ head = Null => \A u \in Inserter : pc[u] = "idle"
  BY <1>1, <1>2, StartsAlone
<1>4. /\ Len(todo[t]) \in Nat /\ Len(Tail(todo[t])) = Len(todo[t]) - 1
      /\ Tail(todo[t]) \in Seq(Nat) /\ Head(todo[t]) = todo[t][1] /\ 1 \in 1..Len(todo[t])
      /\ \A i \in 1..Len(Tail(todo[t])) : i + 1 \in 1..Len(todo[t]) /\ Tail(todo[t])[i] = todo[t][i + 1]
      /\ Len(Outbox[t]) \in Nat
  <2>1. todo[t] \in Seq(Nat) /\ Outbox[t] \in Seq(Nat)
    BY <1>2, LockFreeAssumption DEF OutboxInv
  <2> QED
    BY <1>1, <2>1, HeadTailProperties, LenProperties, EmptySeq
<1>5. /\ \A u \in Inserter : todo'[u] = IF u = t THEN Tail(todo[t]) ELSE todo[u]
      /\ Begun(t) \in Nat /\ Begun(t) + 1 \in 1..Len(Outbox[t])
      /\ Len(Outbox[t]) - Len(Tail(todo[t])) = Begun(t) + 1
  <2>1. Len(todo[t]) <= Len(Outbox[t]) /\ Len(todo[t]) >= 1
    BY <1>2, <1>4 DEF OutboxInv
  <2> QED
    BY <1>1, <1>2, <1>4, <2>1 DEF OutboxInv, Begun
<1>6. p \in Node /\ p.by = t /\ p.at = Begun(t) + 1 /\ p.id = Head(todo[t]) /\ p.id >= currentId
  <2>1. Head(todo[t]) = Outbox[t][Begun(t) + 1]
    BY <1>2, <1>4 DEF OutboxInv
  <2> QED
    BY <1>1, <1>5, <2>1, NodeFields DEF NextNode
<1>7. p \notin Contents \cup freed
  BY <1>2, <1>5, <1>6 DEF OutboxInv
<1>8. ASSUME NEW q \in Node, q.at <= Begun(q.by)
      PROVE  q.at <= Begun(q.by)'
  <2>1. q.by \in Inserter /\ q.at \in Int
    BY NodeFields
  <2>2. CASE q.by = t
    <3>1. todo'[t] = Tail(todo[t]) /\ Begun(t) \in Nat /\ q.at <= Begun(t)
      BY <1>5, <1>8, <2>2
    <3>2. q.at <= Begun(t) + 1
      BY <2>1, <3>1
    <3> QED
      BY <1>5, <2>2, <3>1, <3>2 DEF Begun
  <2>3. CASE q.by # t
    BY <1>5, <1>8, <2>1, <2>3 DEF Begun
  <2> QED
    BY <2>2, <2>3
<1> HIDE DEF p
<1>9. ListTypeOK'
  BY <1>1, <1>2, <1>6 DEF ListTypeOK, Operation
<1>10. ListShape' /\ Contents' = Contents
  BY <1>1, <1>2, SameShape
<1>11. OutboxInv'
  <2>1. todo' \in [Inserter -> Seq(Nat)]
    BY <1>1, <1>2, <1>4 DEF OutboxInv
  <2>2. ASSUME NEW u \in Inserter
        PROVE  /\ Len(todo'[u]) <= Len(Outbox[u])
               /\ \A i \in 1..Len(todo'[u]) :
                    todo'[u][i] = Outbox[u][Len(Outbox[u]) - Len(todo'[u]) + i]
    <3>1. CASE u # t
      <4>1. todo'[u] = todo[u]
        BY <1>5, <3>1
      <4> QED
        BY <1>2, <4>1 DEF OutboxInv, Begun
    <3>2. CASE u = t
      <4>1. Len(todo[t]) <= Len(Outbox[t]) /\ Begun(t) \in Int
        <5>1. Len(todo[t]) <= Len(Outbox[t])
          BY <1>2 DEF OutboxInv
        <5>2. Begun(t) \in Nat
          BY <1>5
        <5> QED
          BY <5>1, <5>2
      <4>2. ASSUME NEW i \in 1..Len(Tail(todo[t]))
            PROVE  Tail(todo[t])[i] = Outbox[t][Begun(t) + 1 + i]
        <5>1. todo[t][i + 1] = Outbox[t][Begun(t) + (i + 1)]
          BY <1>2, <1>4 DEF OutboxInv
        <5>2. Begun(t) + (i + 1) = Begun(t) + 1 + i
          BY <4>1
        <5> QED
          BY <1>4, <5>1, <5>2
      <4>3. todo'[u] = Tail(todo[t])
        BY <1>5, <3>2
      <4>4. Len(Tail(todo[t])) <= Len(Outbox[t])
        BY <1>4, <4>1
      <4>5. Len(Outbox[t]) - Len(Tail(todo[t])) = Begun(t) + 1
        BY <1>5
      <4> QED
        BY <3>2, <4>2, <4>3, <4>4, <4>5
    <3> QED
      BY <3>1, <3>2
  <2>3. Contents \cup freed \subseteq Node
    BY <1>2 DEF ListTypeOK, ListShape, Linked
  <2>4. ASSUME NEW q \in Contents \cup freed
        PROVE  q.at <= Begun(q.by)'
    BY <1>2, <1>8, <2>3 DEF OutboxInv
  <2>5. \A q \in Contents' \cup freed' : q.at <= Begun(q.by)'
    BY <1>1, <1>10, <2>4 DEF Begun
  <2> QED
    BY <2>1, <2>2, <2>5 DEF OutboxInv, Begun
<1>12. pc'[Consumer] = "idle" /\ operation'[Consumer] = operation[Consumer]
  BY <1>1, <1>2, <1>3, ThreadsApart DEF ListTypeOK
<1>13. NumberInv'
  BY <1>1, <1>2, <1>3, <1>10, <1>12 DEF NumberInv
<1>14. Popping'
  BY <1>2, <1>3, <1>12 DEF Popping
<1>15. \A u \in Thread \ {t} : pc'[u] = pc[u] /\ operation'[u] = operation[u]
  BY <1>1, <1>2 DEF ListTypeOK
<1>16. ASSUME NEW u \in Inserter, u # t
       PROVE  Inserting(u)'
  <2>1. Inserting(u)
    BY <1>2
  <2>2. /\ pc'[u] = pc[u] /\ operation'[u] = operation[u] /\ flowPacket'[u] = flowPacket[u]
        /\ ptr'[u] = ptr[u] /\ node'[u] = node[u]
    BY <1>1, <1>2, <1>15, <1>16, ThreadsApart DEF ListTypeOK
  <2>3. Begun(u)' = Begun(u)
    BY <1>5, <1>16 DEF Begun
  <2>4. head = Null => pc[u] = "idle"
    BY <1>3
  <2> QED
    BY <1>1, <1>10, <2>1, <2>2, <2>3, <2>4 DEF Inserting
<1>17. Inserting(t)'
  <2>1. pc'[t] = "head" /\ operation'[t] = "insert" /\ flowPacket'[t] = p
    BY <1>1, <1>2, ThreadsApart DEF ListTypeOK
  <2>2. head = Null => \A v \in Inserter \ {t} : pc'[v] = "idle"
    BY <1>3, <1>15, ThreadsApart
  <2>3. Begun(t)' = Begun(t) + 1
    BY <1>5 DEF Begun
  <2> QED
    BY <1>1, <1>6, <1>7, <1>10, <2>1, <2>2, <2>3 DEF Inserting
<1> QED
  BY <1>9, <1>10, <1>11, <1>13, <1>14, <1>16, <1>17 DEF ListIndInv

(* The loads of Insert: the list stays.                                    *)
LEMMA LoadHeadInd ==
  ASSUME ListIndInv, NEW t \in Inserter, LoadHead(t)
  PROVE  ListIndInv'
<1>1. ListTypeOK /\ ListShape /\ Inserting(t) /\ pc[t] = "head"
  BY DEF ListIndInv, LoadHead
<1>2. ListTypeOK'
  BY <1>1, ThreadsApart DEF ListTypeOK, LoadHead, Goto, Set, list
<1>3. ListShape' /\ Contents' = Contents
  BY <1>1, SameShape DEF LoadHead
<1>4. \A u \in Thread \ {t} : /\ pc'[u] = pc[u] /\ operation'[u] = operation[u]
                              /\ ptr'[u] = ptr[u] /\ node'[u] = node[u]
  BY <1>1 DEF ListTypeOK, LoadHead, Goto, Set
<1>5. ptr'[t] = head /\ pc'[t] = IF head = Null THEN "store"
             ELSE IF head.id < flowPacket[t].id THEN "casHead" ELSE "walk"
  BY <1>1, ThreadsApart DEF ListTypeOK, LoadHead, Goto, Set
<1>6. UNCHANGED <<head, freed, currentId, todo, taken, flowPacket, operation>> /\ Begun(t)' = Begun(t)
  BY DEF LoadHead, list, Begun
<1>7. head # Null => head \in Contents /\ head.id \in Nat /\ flowPacket[t].id \in Nat
  BY <1>1, NodeFields DEF ListShape, Linked, Inserting
<1>8. Inserting(t)'
  BY <1>1, <1>3, <1>4, <1>5, <1>6, <1>7, ThreadsApart DEF Inserting
<1> QED
  BY <1>1, <1>2, <1>3, <1>4, <1>6, <1>8, InsertFrame

LEMMA WalkInd ==
  ASSUME ListIndInv, NEW t \in Inserter, Walk(t)
  PROVE  ListIndInv'
<1>1. ListTypeOK /\ ListShape /\ Inserting(t) /\ pc[t] = "walk"
  BY DEF ListIndInv, Walk
<1>2. ListShape' /\ Contents' = Contents
  BY <1>1, SameShape DEF Walk
<1>3. UNCHANGED <<head, next, freed, size, currentId, todo, taken, flowPacket>> /\ Begun(t)' = Begun(t)
  BY DEF Walk, list, Begun
<1>4. /\ flowPacket[t] \in Node /\ flowPacket[t].id \in Nat
      /\ ptr[t] \in Contents /\ ptr[t] \in Node /\ ptr[t].id \in Nat
      /\ ptr[t].id >= flowPacket[t].id
      /\ next[ptr[t]] = Null \/ (next[ptr[t]] \in Contents /\ next[ptr[t]].id \in Nat)
  <2>1. Contents \subseteq Node /\ \A p \in Contents : next[p] = Null \/ next[p] \in Contents
    BY <1>1 DEF ListShape, Linked
  <2> QED
    BY <1>1, <2>1, NodeFields DEF Inserting
<1>5. CASE ptr[t].id = flowPacket[t].id
  <2>1. pc' = [pc EXCEPT ![t] = "idle"] /\ operation' = [operation EXCEPT ![t] = "none"]
        /\ UNCHANGED <<ptr, node>>
    BY <1>5 DEF Walk, Return, Goto
  <2>2. ListTypeOK'
    BY <1>1, <1>3, <2>1 DEF ListTypeOK
  <2>3. Inserting(t)'
    BY <1>1, <2>1, ThreadsApart DEF ListTypeOK, Inserting
  <2>4. \A u \in Thread \ {t} : pc'[u] = pc[u] /\ operation'[u] = operation[u]
    BY <1>1, <2>1 DEF ListTypeOK
  <2> QED
    BY <1>1, <1>2, <1>3, <2>1, <2>2, <2>3, <2>4, InsertFrame
<1>6. CASE ptr[t].id # flowPacket[t].id
  <2>1. node' = [node EXCEPT ![t] = next[ptr[t]]] /\ node'[t] = next[ptr[t]] /\ operation' = operation
    BY <1>1, <1>6, ThreadsApart DEF ListTypeOK, Walk, Set
  <2>2. \/ /\ next[ptr[t]] = Null \/ next[ptr[t]].id < flowPacket[t].id
           /\ pc' = [pc EXCEPT ![t] = "casNext"] /\ ptr' = ptr
        \/ /\ next[ptr[t]] # Null /\ next[ptr[t]].id >= flowPacket[t].id
           /\ pc' = pc /\ ptr' = [ptr EXCEPT ![t] = next[ptr[t]]]
    BY <1>4, <1>6, <2>1 DEF Walk, Goto, Set
  <2>3. ListTypeOK'
    BY <1>1, <1>3, <1>4, <2>1, <2>2 DEF ListTypeOK
  <2>4. \A u \in Thread \ {t} : /\ pc'[u] = pc[u] /\ ptr'[u] = ptr[u] /\ node'[u] = node[u]
    BY <1>1, <2>1, <2>2 DEF ListTypeOK
  <2>5. CASE pc' = [pc EXCEPT ![t] = "casNext"] /\ ptr' = ptr
    <3>1. pc'[t] = "casNext" /\ (node'[t] = Null \/ node'[t].id < flowPacket[t].id)
      BY <1>1, <2>1, <2>2, <2>5, ThreadsApart DEF ListTypeOK
    <3>2. Inserting(t)'
      BY <1>1, <1>2, <1>3, <1>4, <1>6, <2>1, <2>5, <3>1 DEF Inserting
    <3> QED
      BY <1>1, <1>2, <1>3, <2>1, <2>3, <2>4, <3>2, InsertFrame
  <2>6. CASE pc' = pc /\ ptr' = [ptr EXCEPT ![t] = next[ptr[t]]]
    <3>1. ptr'[t] = next[ptr[t]] /\ next[ptr[t]] \in Contents /\ next[ptr[t]].id >= flowPacket[t].id
      BY <1>1, <1>4, <2>2, <2>6, ThreadsApart DEF ListTypeOK
    <3>2. Inserting(t)'
      BY <1>1, <1>2, <1>3, <2>1, <2>6, <3>1 DEF Inserting
    <3> QED
      BY <1>1, <1>2, <1>3, <2>1, <2>3, <2>4, <3>2, InsertFrame
  <2> QED
    BY <2>2, <2>5, <2>6
<1> QED
  BY <1>5, <1>6

(* The list after a step that leaves the nodes of C chained.               *)
LEMMA ShapeBecomes ==
  ASSUME NEW C, Linked(C, head', next'), \A q \in Node \ C : next'[q] = Null,
         C \cap freed' = {}
  PROVE  Contents' = C /\ ListShape'
<1>1. Contents' = C
  <2>1. Reach(head', next') = C
    BY LinkedIsReach
  <2> QED
    BY <2>1 DEF Contents, Reach
<1> QED
  BY <1>1 DEF ListShape, Linked

(* The two effects an inserter can have on the list: its packet is         *)
(* published and only the counters are left to do, or nothing changes.     *)
Publishes(t) ==
  /\ flowPacket[t] \notin Contents /\ Contents' = Contents \cup {flowPacket[t]}
  /\ pc[t] # "count" /\ pc'[t] = "count" /\ \A u \in Thread \ {t} : pc'[u] = pc[u]
OnlyLooks(t) ==
  /\ Contents' = Contents
  /\ pc[t] # "count" /\ pc'[t] # "count" /\ \A u \in Thread \ {t} : pc'[u] = pc[u]

(* What an inserter that is about to publish knows of its packet.          *)
LEMMA Unpublished ==
  ASSUME ListIndInv, NEW t \in Inserter, pc[t] \in {"store", "casHead", "casNext"}
  PROVE  /\ ListTypeOK /\ ListShape /\ Inserting(t)
         /\ Linked(Contents, head, next) /\ Contents \subseteq Node
         /\ flowPacket[t] \in Node /\ flowPacket[t] # Null
         /\ flowPacket[t] \notin Contents \cup freed
         /\ next[flowPacket[t]] = Null
         /\ \A q \in Node \ Contents : next[q] = Null
         /\ Contents \cap freed = {}
         /\ next \in [Node -> Node \cup {Null}]
  BY NodeFields DEF ListIndInv, ListTypeOK, ListShape, Linked, Inserting

LEMMA StoreHeadInd ==
  ASSUME ListIndInv, NEW t \in Inserter, StoreHead(t)
  PROVE  ListIndInv' /\ Publishes(t)
<1>1. /\ pc[t] = "store" /\ head' = flowPacket[t] /\ pc' = [pc EXCEPT ![t] = "count"]
      /\ UNCHANGED <<next, freed, size, currentId, operation, flowPacket, ptr, node, todo, taken>>
  BY DEF StoreHead, Goto, locals
<1>2. /\ ListTypeOK /\ ListShape /\ Inserting(t)
      /\ Linked(Contents, head, next) /\ Contents \subseteq Node
      /\ flowPacket[t] \in Node /\ flowPacket[t] # Null
      /\ flowPacket[t] \notin Contents \cup freed
      /\ next[flowPacket[t]] = Null
      /\ \A q \in Node \ Contents : next[q] = Null
      /\ Contents \cap freed = {}
      /\ next \in [Node -> Node \cup {Null}]
  BY <1>1, Unpublished
<1>3. head = Null
  BY <1>1, <1>2 DEF Inserting
<1>4. Linked(Contents \cup {flowPacket[t]}, head', next')
  <2>1. Linked(Contents \cup {flowPacket[t]}, flowPacket[t], [next EXCEPT ![flowPacket[t]] = head])
    BY <1>2, <1>3, LinkedInFront
  <2>2. [next EXCEPT ![flowPacket[t]] = head] = next
    BY <1>2, <1>3
  <2> QED
    BY <1>1, <2>1, <2>2
<1>5. Contents' = Contents \cup {flowPacket[t]} /\ ListShape'
  BY <1>1, <1>2, <1>4, ShapeBecomes
<1>6. ListTypeOK'
  BY <1>1, <1>2 DEF ListTypeOK
<1>7. /\ pc'[t] = "count"
      /\ \A u \in Thread \ {t} : pc'[u] = pc[u]
      /\ Begun(t)' = Begun(t)
  BY <1>1, <1>2, ThreadsApart DEF ListTypeOK, Begun
<1>8. Inserting(t)'
  BY <1>1, <1>2, <1>5, <1>7 DEF Inserting
<1> QED
  BY <1>1, <1>2, <1>5, <1>6, <1>7, <1>8, InsertFrame DEF Publishes

LEMMA CasHeadInd ==
  ASSUME ListIndInv, NEW t \in Inserter, CasHead(t)
  PROVE  ListIndInv' /\ (Publishes(t) \/ OnlyLooks(t))
<1>1. /\ pc[t] = "casHead"
      /\ UNCHANGED <<freed, size, currentId, operation, flowPacket, ptr, node, todo, taken>>
      /\ Begun(t)' = Begun(t)
  BY DEF CasHead, locals, Begun
<1>2. /\ ListTypeOK /\ ListShape /\ Inserting(t)
      /\ Linked(Contents, head, next) /\ Contents \subseteq Node
      /\ flowPacket[t] \in Node /\ flowPacket[t] # Null
      /\ flowPacket[t] \notin Contents \cup freed
      /\ next[flowPacket[t]] = Null
      /\ \A q \in Node \ Contents : next[q] = Null
      /\ Contents \cap freed = {}
      /\ next \in [Node -> Node \cup {Null}]
  BY <1>1, Unpublished
<1>3. CASE head = ptr[t]
  <2>1. /\ head' = flowPacket[t] /\ next' = [next EXCEPT ![flowPacket[t]] = head]
        /\ pc' = [pc EXCEPT ![t] = "count"]
    BY <1>3 DEF CasHead, Goto, Set
  <2>2. head \in Contents /\ head.id < flowPacket[t].id
    BY <1>1, <1>2, <1>3 DEF Inserting
  <2>3. Linked(Contents \cup {flowPacket[t]}, head', next')
    BY <1>2, <2>1, <2>2, LinkedInFront
  <2>4. \A q \in Node \ (Contents \cup {flowPacket[t]}) : next'[q] = Null
    BY <1>2, <2>1
  <2>5. Contents' = Contents \cup {flowPacket[t]} /\ ListShape'
    BY <1>1, <1>2, <2>3, <2>4, ShapeBecomes
  <2>6. ListTypeOK'
    BY <1>1, <1>2, <2>1, <2>2 DEF ListTypeOK
  <2>7. pc'[t] = "count" /\ \A u \in Thread \ {t} : pc'[u] = pc[u]
    BY <1>2, <2>1, ThreadsApart DEF ListTypeOK
  <2>8. Inserting(t)'
    BY <1>1, <1>2, <2>5, <2>7 DEF Inserting
  <2> QED
    BY <1>1, <1>2, <2>1, <2>5, <2>6, <2>7, <2>8, InsertFrame DEF Publishes
<1>4. CASE head # ptr[t]
  <2>1. UNCHANGED <<head, next>> /\ pc' = [pc EXCEPT ![t] = "head"]
    BY <1>4 DEF CasHead, Goto
  <2>2. ListShape' /\ Contents' = Contents
    BY <1>1, <1>2, <2>1, SameShape DEF list
  <2>3. ListTypeOK'
    BY <1>1, <1>2, <2>1 DEF ListTypeOK
  <2>4. pc'[t] = "head" /\ \A u \in Thread \ {t} : pc'[u] = pc[u]
    BY <1>2, <2>1, ThreadsApart DEF ListTypeOK
  <2>5. head # Null
    BY <1>1, <1>2, NodeFields DEF Inserting, Linked
  <2>6. Inserting(t)'
    BY <1>1, <1>2, <2>1, <2>2, <2>4, <2>5 DEF Inserting
  <2> QED
    BY <1>1, <1>2, <2>1, <2>2, <2>3, <2>4, <2>6, InsertFrame DEF OnlyLooks
<1> QED
  BY <1>3, <1>4

LEMMA CasNextInd ==
  ASSUME ListIndInv, NEW t \in Inserter, CasNext(t)
  PROVE  ListIndInv' /\ (Publishes(t) \/ OnlyLooks(t))
<1>1. /\ pc[t] = "casNext"
      /\ UNCHANGED <<head, freed, size, currentId, operation, flowPacket, node, todo, taken>>
      /\ Begun(t)' = Begun(t)
  BY DEF CasNext, Begun
<1>2. /\ ListTypeOK /\ ListShape /\ Inserting(t)
      /\ Linked(Contents, head, next) /\ Contents \subseteq Node
      /\ flowPacket[t] \in Node /\ flowPacket[t] # Null
      /\ flowPacket[t] \notin Contents \cup freed
      /\ next[flowPacket[t]] = Null
      /\ \A q \in Node \ Contents : next[q] = Null
      /\ Contents \cap freed = {}
      /\ next \in [Node -> Node \cup {Null}]
  BY <1>1, Unpublished
<1>3. /\ ptr[t] \in Contents /\ ptr[t].id > flowPacket[t].id
      /\ node[t] = Null \/ node[t].id < flowPacket[t].id
  BY <1>1, <1>2 DEF Inserting
<1>4. CASE next[ptr[t]] = node[t]
  <2>1. /\ next' = [next EXCEPT ![ptr[t]] = flowPacket[t], ![flowPacket[t]] = next[ptr[t]]]
        /\ pc' = [pc EXCEPT ![t] = "count"] /\ ptr' = ptr
    BY <1>4 DEF CasNext, Goto
  <2>2. flowPacket[t].id < ptr[t].id
    BY <1>2, <1>3, NodeFields
  <2>3. Linked(Contents \cup {flowPacket[t]}, head', next')
    BY <1>1, <1>2, <1>3, <1>4, <2>1, <2>2, LinkedBehind
  <2>4. \A q \in Node \ (Contents \cup {flowPacket[t]}) : next'[q] = Null
    BY <1>2, <1>3, <2>1
  <2>5. Contents' = Contents \cup {flowPacket[t]} /\ ListShape'
    BY <1>1, <1>2, <2>3, <2>4, ShapeBecomes
  <2>6. ListTypeOK'
    <3>1. next' \in [Node -> Node \cup {Null}]
      BY <1>2, <1>3, <2>1
    <3> QED
      BY <1>1, <1>2, <2>1, <3>1 DEF ListTypeOK
  <2>7. pc'[t] = "count" /\ \A u \in Thread \ {t} : pc'[u] = pc[u]
    BY <1>2, <2>1, ThreadsApart DEF ListTypeOK
  <2>8. Inserting(t)'
    BY <1>1, <1>2, <2>5, <2>7 DEF Inserting
  <2> QED
    BY <1>1, <1>2, <2>1, <2>5, <2>6, <2>7, <2>8, InsertFrame DEF Publishes
<1>5. CASE next[ptr[t]] # node[t]
  <2>1. head \in Contents /\ head # Null /\ head.id >= ptr[t].id
    BY <1>2, <1>3, NodeFields DEF Linked
  <2>2. /\ ptr' = [ptr EXCEPT ![t] = head] /\ next' = next
        /\ pc' = [pc EXCEPT ![t] = "walk"]
    BY <1>5, <2>1 DEF CasNext, Goto, Set
  <2>3. ListShape' /\ Contents' = Contents
    BY <1>1, <1>2, <2>2, SameShape DEF list
  <2>4. ListTypeOK'
    BY <1>1, <1>2, <2>1, <2>2 DEF ListTypeOK
  <2>5. /\ pc'[t] = "walk" /\ ptr'[t] = head
        /\ \A u \in Thread \ {t} : pc'[u] = pc[u] /\ ptr'[u] = ptr[u]
    BY <1>2, <2>2, ThreadsApart DEF ListTypeOK
  <2>6. head.id >= flowPacket[t].id
    BY <1>2, <1>3, <2>1, NodeFields
  <2>7. Inserting(t)'
    BY <1>1, <1>2, <2>1, <2>3, <2>5, <2>6 DEF Inserting
  <2> QED
    BY <1>1, <1>2, <2>1, <2>3, <2>4, <2>5, <2>7, InsertFrame DEF OnlyLooks
<1> QED
  BY <1>4, <1>5

LEMMA CountInsertedInd ==
  ASSUME ListIndInv, NEW t \in Inserter, CountInserted(t)
  PROVE  ListIndInv'
<1>1. /\ pc[t] = "count" /\ size' = (size + 1) % Word
      /\ pc' = [pc EXCEPT ![t] = "idle"] /\ operation' = [operation EXCEPT ![t] = "none"]
      /\ UNCHANGED <<list, head, freed, next, currentId, flowPacket, ptr, node, todo, taken>>
  BY DEF CountInserted, Return, Goto, list, locals
<1>2. ListTypeOK /\ ListShape /\ Inserting(t)
  BY DEF ListIndInv
<1>3. ListShape' /\ Contents' = Contents
  BY <1>1, <1>2, SameShape
<1>4. size' \in 0..(Word - 1)
  BY <1>1, <1>2, LockFreeAssumption DEF ListTypeOK
<1>5. ListTypeOK'
  BY <1>1, <1>2, <1>4 DEF ListTypeOK
<1>6. /\ pc'[t] = "idle" /\ operation'[t] = "none"
      /\ \A u \in Thread \ {t} : pc'[u] = pc[u] /\ operation'[u] = operation[u]
  BY <1>1, <1>2, ThreadsApart DEF ListTypeOK
<1>7. Inserting(t)'
  BY <1>6 DEF Inserting
<1> QED
  BY <1>1, <1>3, <1>5, <1>6, <1>7, InsertFrame

----------------------------------------------------------------------------
(* Pop and Clear run while nobody inserts.                                 *)
LEMMA PopFrame ==
  ASSUME ListIndInv, todo' = todo,
         \A u \in Inserter : pc'[u] = "idle" /\ operation'[u] = "none",
         \A p \in Contents' \cup freed' : p.at <= Begun(p.by),
         ListTypeOK', ListShape', NumberInv', Popping'
  PROVE  ListIndInv'
<1>1. \A u \in Inserter : Inserting(u)'
  BY DEF Inserting
<1>2. OutboxInv'
  BY DEF ListIndInv, OutboxInv, Begun
<1> QED
  BY <1>1, <1>2 DEF ListIndInv

(* The steps of the consumer that only look.                               *)
LEMMA PopLooks ==
  ASSUME ListIndInv, \A u \in Inserter : pc[u] = "idle",
         UNCHANGED <<list, currentId, todo, taken>>,
         \A u \in Inserter : pc'[u] = pc[u] /\ operation'[u] = operation[u],
         pc[Consumer] # "popped", pc'[Consumer] # "popped",
         ListTypeOK', Popping'
  PROVE  ListIndInv'
<1>1. ListShape' /\ Contents' = Contents /\ freed' = freed
  BY SameShape DEF ListIndInv, list
<1>2. NumberInv'
  BY <1>1 DEF ListIndInv, NumberInv
<1>3. \A u \in Inserter : pc'[u] = "idle" /\ operation'[u] = "none"
  BY DEF ListIndInv, Inserting
<1>4. \A p \in Contents' \cup freed' : p.at <= Begun(p.by)
  BY <1>1 DEF ListIndInv, OutboxInv
<1> QED
  BY <1>1, <1>2, <1>3, <1>4, PopFrame

LEMMA StartPopInd ==
  ASSUME NoOverlap, ListIndInv, StartPop
  PROVE  ListIndInv'
<1>1. /\ pc[Consumer] = "idle" /\ MayStart("pop")
      /\ operation' = [operation EXCEPT ![Consumer] = "pop"]
      /\ pc' = [pc EXCEPT ![Consumer] = "popTest"]
      /\ ptr' = [ptr EXCEPT ![Consumer] = head]
      /\ UNCHANGED <<list, head, next, freed, size, currentId, flowPacket, node, todo, taken>>
  BY DEF StartPop, Start, Goto, Set, list
<1>2. ListTypeOK /\ Popping /\ \A u \in Inserter : Inserting(u)
  BY DEF ListIndInv
<1>3. \A u \in Inserter : pc[u] = "idle"
  BY <1>1, <1>2, StartsAlone
<1>4. ListTypeOK'
  BY <1>1, <1>2 DEF ListTypeOK, Operation
<1>5. /\ \A u \in Inserter : pc'[u] = pc[u] /\ operation'[u] = operation[u]
      /\ pc'[Consumer] = "popTest" /\ operation'[Consumer] = "pop" /\ ptr'[Consumer] = head
  BY <1>1, <1>2, ThreadsApart DEF ListTypeOK
<1>6. Popping'
  BY <1>1, <1>3, <1>5 DEF Popping
<1> QED
  BY <1>1, <1>3, <1>4, <1>5, <1>6, PopLooks

(* What the consumer knows in the middle of a call.                        *)
LEMMA Alone ==
  ASSUME ListIndInv, pc[Consumer] # "idle"
  PROVE  /\ ListTypeOK /\ ListShape /\ OutboxInv /\ NumberInv /\ Popping
         /\ operation[Consumer] = "pop"
         /\ \A u \in Inserter : pc[u] = "idle" /\ operation[u] = "none"
         /\ Linked(Contents, head, next) /\ Contents \subseteq Node
         /\ \A q \in Node \ Contents : next[q] = Null
         /\ Contents \cap freed = {}
         /\ next \in [Node -> Node \cup {Null}]
  BY DEF ListIndInv, ListTypeOK, ListShape, Linked, Inserting, Popping

(* Pop returns without a packet.                                           *)
LEMMA PopsNothing ==
  ASSUME ListIndInv, pc[Consumer] \notin {"idle", "popped"}, Return(Consumer),
         UNCHANGED <<list, size, currentId, flowPacket, ptr, todo, taken>>,
         node' \in [Thread -> Node \cup {Null}]
  PROVE  ListIndInv'
<1>1. /\ pc' = [pc EXCEPT ![Consumer] = "idle"]
      /\ operation' = [operation EXCEPT ![Consumer] = "none"]
      /\ UNCHANGED <<head, next, freed>>
  BY DEF Return, Goto, list
<1>2. /\ ListTypeOK /\ ListShape /\ OutboxInv /\ NumberInv /\ Popping
      /\ \A u \in Inserter : pc[u] = "idle" /\ operation[u] = "none"
  BY Alone
<1>3. ListTypeOK'
  BY <1>1, <1>2 DEF ListTypeOK
<1>4. /\ \A u \in Inserter : pc'[u] = pc[u] /\ operation'[u] = operation[u]
      /\ pc'[Consumer] = "idle" /\ operation'[Consumer] = "none"
  BY <1>1, <1>2, ThreadsApart DEF ListTypeOK
<1>5. Popping'
  BY <1>4 DEF Popping
<1> QED
  BY <1>2, <1>3, <1>4, <1>5, PopLooks

LEMMA PopTestInd ==
  ASSUME ListIndInv, PopTest
  PROVE  ListIndInv'
<1>1. /\ pc[Consumer] = "popTest"
      /\ UNCHANGED <<list, size, currentId, flowPacket, ptr, node, todo, taken>>
      /\ UNCHANGED <<head, next, freed>>
  BY DEF PopTest, locals, list
<1>2. /\ ListTypeOK /\ ListShape /\ OutboxInv /\ NumberInv /\ Popping
      /\ operation[Consumer] = "pop"
      /\ \A u \in Inserter : pc[u] = "idle" /\ operation[u] = "none"
      /\ Linked(Contents, head, next)
  BY <1>1, Alone
<1>3. ptr[Consumer] = head
  BY <1>1, <1>2 DEF Popping
<1>4. CASE head = Null
  BY <1>1, <1>2, <1>4, PopsNothing DEF PopTest, ListTypeOK
<1>5. CASE head # Null
  <2>1. head \in Contents
    BY <1>2, <1>5 DEF Linked
  <2>2. /\ operation' = operation
        /\ pc' = [pc EXCEPT ![Consumer] = IF next[head] = Null THEN "popHead" ELSE "popWalk"]
    BY <1>3, <1>5 DEF PopTest, Goto
  <2>3. ListTypeOK'
    BY <1>1, <1>2, <2>2 DEF ListTypeOK
  <2>4. /\ \A u \in Inserter : pc'[u] = pc[u]
        /\ pc'[Consumer] = IF next[head] = Null THEN "popHead" ELSE "popWalk"
    BY <1>2, <2>2, ThreadsApart DEF ListTypeOK
  <2>5. Contents' = Contents
    BY <1>1, SameList
  <2>6. Popping'
    BY <1>1, <1>2, <1>3, <1>5, <2>1, <2>2, <2>4, <2>5 DEF Popping
  <2> QED
    BY <1>1, <1>2, <2>2, <2>3, <2>4, <2>6, PopLooks
<1> QED
  BY <1>4, <1>5

LEMMA PopWalkInd ==
  ASSUME ListIndInv, PopWalk
  PROVE  ListIndInv'
<1>1. /\ pc[Consumer] = "popWalk"
      /\ node' = [node EXCEPT ![Consumer] = next[ptr[Consumer]]]
      /\ UNCHANGED <<list, size, currentId, flowPacket, ptr, todo, taken>>
      /\ UNCHANGED <<head, next, freed>>
  BY DEF PopWalk, Set, list
<1>2. /\ ListTypeOK /\ ListShape /\ OutboxInv /\ NumberInv /\ Popping
      /\ operation[Consumer] = "pop"
      /\ \A u \in Inserter : pc[u] = "idle" /\ operation[u] = "none"
      /\ Linked(Contents, head, next) /\ Contents \subseteq Node
  BY <1>1, Alone
<1>3. ptr[Consumer] \in Contents
  BY <1>1, <1>2 DEF Popping
<1>4. next[ptr[Consumer]] \in Contents \cup {Null} /\ next[ptr[Consumer]] \in Node \cup {Null}
  BY <1>2, <1>3 DEF Linked
<1>5. node'[Consumer] = next[ptr[Consumer]] /\ node' \in [Thread -> Node \cup {Null}]
  BY <1>1, <1>2, <1>4, ThreadsApart DEF ListTypeOK
<1>6. CASE next[ptr[Consumer]] = Null
  BY <1>1, <1>2, <1>5, <1>6, PopsNothing DEF PopWalk
<1>7. CASE next[ptr[Consumer]] # Null
  <2>1. operation' = operation /\ pc' = [pc EXCEPT ![Consumer] = "popLook"]
    BY <1>5, <1>7 DEF PopWalk, Goto
  <2>2. ListTypeOK'
    BY <1>1, <1>2, <1>5, <2>1 DEF ListTypeOK
  <2>3. (\A u \in Inserter : pc'[u] = pc[u]) /\ pc'[Consumer] = "popLook"
    BY <1>2, <2>1, ThreadsApart DEF ListTypeOK
  <2>4. Contents' = Contents
    BY <1>1, SameList
  <2>5. Popping'
    BY <1>1, <1>2, <1>3, <1>4, <1>5, <1>7, <2>1, <2>3, <2>4 DEF Popping
  <2> QED
    BY <1>1, <1>2, <2>1, <2>2, <2>3, <2>5, PopLooks
<1> QED
  BY <1>6, <1>7

LEMMA PopLookInd ==
  ASSUME ListIndInv, PopLook
  PROVE  ListIndInv'
<1>1. /\ pc[Consumer] = "popLook"
      /\ UNCHANGED <<list, size, currentId, operation, flowPacket, node, todo, taken>>
      /\ UNCHANGED <<head, next, freed>>
  BY DEF PopLook, list
<1>2. /\ ListTypeOK /\ ListShape /\ OutboxInv /\ NumberInv /\ Popping
      /\ operation[Consumer] = "pop"
      /\ \A u \in Inserter : pc[u] = "idle" /\ operation[u] = "none"
      /\ Linked(Contents, head, next) /\ Contents \subseteq Node
  BY <1>1, Alone
<1>3. /\ ptr[Consumer] \in Contents /\ node[Consumer] \in Contents
      /\ next[ptr[Consumer]] = node[Consumer]
  BY <1>1, <1>2 DEF Popping
<1>4. Contents' = Contents
  BY <1>1, SameList
<1>5. CASE next[node[Consumer]] = Null /\ node[Consumer].id = currentId
  <2>1. pc' = [pc EXCEPT ![Consumer] = "popTail"] /\ ptr' = ptr
    BY <1>5 DEF PopLook, Goto
  <2>2. ListTypeOK'
    BY <1>1, <1>2, <2>1 DEF ListTypeOK
  <2>3. (\A u \in Inserter : pc'[u] = pc[u]) /\ pc'[Consumer] = "popTail"
    BY <1>2, <2>1, ThreadsApart DEF ListTypeOK
  <2>4. Popping'
    BY <1>1, <1>2, <1>3, <1>4, <1>5, <2>1, <2>3 DEF Popping
  <2> QED
    BY <1>1, <1>2, <2>2, <2>3, <2>4, PopLooks
<1>6. CASE ~(next[node[Consumer]] = Null /\ node[Consumer].id = currentId)
  <2>1. /\ pc' = [pc EXCEPT ![Consumer] = "popWalk"]
        /\ ptr' = [ptr EXCEPT ![Consumer] = node[Consumer]]
    BY <1>6 DEF PopLook, Goto, Set
  <2>2. ListTypeOK'
    BY <1>1, <1>2, <1>3, <2>1 DEF ListTypeOK
  <2>3. /\ \A u \in Inserter : pc'[u] = pc[u]
        /\ pc'[Consumer] = "popWalk" /\ ptr'[Consumer] = node[Consumer]
    BY <1>2, <2>1, ThreadsApart DEF ListTypeOK
  <2>4. Popping'
    BY <1>1, <1>2, <1>3, <1>4, <2>3 DEF Popping
  <2> QED
    BY <1>1, <1>2, <2>2, <2>3, <2>4, PopLooks
<1> QED
  BY <1>5, <1>6

(* A node with the next number is taken out of the list.                   *)
LEMMA TakesOut ==
  ASSUME ListIndInv, pc[Consumer] \notin {"idle", "popped"},
         NEW p \in Contents, p.id = currentId,
         Linked(Contents \ {p}, head', next'), next[p] = Null,
         \A q \in Node \ Contents : next'[q] = next[q], next'[p] = next[p],
         ListTypeOK', pc'[Consumer] = "popped", operation'[Consumer] = operation[Consumer],
         node'[Consumer] = p,
         \A u \in Inserter : pc'[u] = pc[u] /\ operation'[u] = operation[u],
         UNCHANGED <<freed, currentId, todo, taken>>
  PROVE  ListIndInv' /\ Contents' = Contents \ {p}
<1>1. /\ ListTypeOK /\ ListShape /\ OutboxInv /\ NumberInv /\ Popping
      /\ operation[Consumer] = "pop"
      /\ \A u \in Inserter : pc[u] = "idle" /\ operation[u] = "none"
      /\ Linked(Contents, head, next) /\ Contents \subseteq Node
      /\ \A q \in Node \ Contents : next[q] = Null
      /\ Contents \cap freed = {}
  BY Alone
<1>2. PICK rest : rest = Contents \ {p}
  OBVIOUS
<1>3. Contents' = rest /\ ListShape'
  <2>1. \A q \in Node \ rest : next'[q] = Null
    BY <1>1, <1>2
  <2>2. rest \cap freed' = {}
    BY <1>1, <1>2
  <2> QED
    BY <1>2, <2>1, <2>2, ShapeBecomes
<1>4. ASSUME NEW q \in rest
      PROVE  q.id >= currentId + 1
  <2>1. q.id >= currentId /\ q.id \in Nat /\ currentId \in Nat /\ q.id # p.id
    BY <1>1, <1>2, NodeFields DEF NumberInv, Linked, ListTypeOK
  <2> QED
    BY <2>1
<1>5. NumberInv'
  BY <1>1, <1>3, <1>4 DEF NumberInv
<1>6. p.at <= Begun(p.by) /\ p \in Node \ (rest \cup freed)
  BY <1>1, <1>2 DEF OutboxInv
<1>7. Begun(p.by)' = Begun(p.by)
  BY DEF Begun
<1>8. Popping'
  BY <1>1, <1>3, <1>6, <1>7 DEF Popping, Begun
<1>9. \A q \in Contents' \cup freed' : q.at <= Begun(q.by)
  BY <1>1, <1>2, <1>3 DEF OutboxInv
<1> QED
  BY <1>1, <1>2, <1>3, <1>5, <1>8, <1>9, PopFrame

LEMMA PopHeadInd ==
  ASSUME ListIndInv, PopHead
  PROVE  /\ ListIndInv'
         /\ \/ UNCHANGED list /\ pc'[Consumer] = "idle"
            \/ /\ pc'[Consumer] = "popped" /\ node'[Consumer] \in Contents
               /\ node'[Consumer].id = currentId /\ Contents' = Contents \ {node'[Consumer]}
<1>1. /\ pc[Consumer] = "popHead"
      /\ UNCHANGED <<next, freed, size, currentId, flowPacket, ptr, todo, taken>>
  BY DEF PopHead
<1>2. /\ ListTypeOK /\ ListShape /\ OutboxInv /\ NumberInv /\ Popping
      /\ \A u \in Inserter : pc[u] = "idle" /\ operation[u] = "none"
      /\ Linked(Contents, head, next) /\ Contents \subseteq Node
  BY <1>1, Alone
<1>3. /\ ptr[Consumer] = head /\ head # Null /\ next[head] = Null /\ head \in Contents
  BY <1>1, <1>2 DEF Popping, Linked
<1>4. CASE head.id = currentId
  <2>1. /\ head' = Null /\ node' = [node EXCEPT ![Consumer] = head]
        /\ pc' = [pc EXCEPT ![Consumer] = "popped"] /\ operation' = operation
    BY <1>3, <1>4 DEF PopHead, Goto, Set
  <2>2. ListTypeOK'
    BY <1>1, <1>2, <2>1 DEF ListTypeOK
  <2>3. Contents \ {head} = {}
    <3> SUFFICES ASSUME NEW q \in Contents, q # head PROVE FALSE
      OBVIOUS
    <3>1. q.id \in Nat /\ head.id \in Nat /\ q.id <= head.id /\ q.id # head.id
      BY <1>2, <1>3, NodeFields DEF Linked
    <3>2. q.id < head.id
      BY <3>1
    <3> QED
      BY <1>2, <1>3, <3>2 DEF Linked
  <2>4. Linked(Contents \ {head}, head', next')
    BY <2>1, <2>3, LinkedEmpty
  <2>5. /\ pc'[Consumer] = "popped" /\ node'[Consumer] = head
        /\ \A u \in Inserter : pc'[u] = pc[u]
    BY <1>2, <2>1, ThreadsApart DEF ListTypeOK
  <2> QED
    BY <1>1, <1>3, <1>4, <2>1, <2>2, <2>4, <2>5, TakesOut
<1>5. CASE head.id # currentId
  <2>1. Return(Consumer) /\ UNCHANGED <<head, node>>
    BY <1>3, <1>5 DEF PopHead
  <2>2. UNCHANGED list /\ node' \in [Thread -> Node \cup {Null}] /\ pc'[Consumer] = "idle"
    BY <1>1, <1>2, <2>1, ThreadsApart DEF list, ListTypeOK, Return, Goto
  <2> QED
    BY <1>1, <2>1, <2>2, PopsNothing
<1> QED
  BY <1>4, <1>5

LEMMA PopTailInd ==
  ASSUME ListIndInv, PopTail
  PROVE  /\ ListIndInv'
         /\ pc'[Consumer] = "popped" /\ node'[Consumer] \in Contents
         /\ node'[Consumer].id = currentId /\ Contents' = Contents \ {node'[Consumer]}
<1>1. /\ pc[Consumer] = "popTail"
      /\ UNCHANGED <<head, freed, size, currentId, flowPacket, ptr, node, todo, taken>>
  BY DEF PopTail, locals
<1>2. /\ ListTypeOK /\ Popping
      /\ Linked(Contents, head, next) /\ Contents \subseteq Node
      /\ \A q \in Node \ Contents : next[q] = Null
      /\ next \in [Node -> Node \cup {Null}]
  BY <1>1, Alone
<1>3. /\ ptr[Consumer] \in Contents /\ node[Consumer] \in Contents
      /\ next[ptr[Consumer]] = node[Consumer]
      /\ next[node[Consumer]] = Null /\ node[Consumer].id = currentId
  BY <1>1, <1>2 DEF Popping
<1>4. /\ next' = [next EXCEPT ![ptr[Consumer]] = Null]
      /\ pc' = [pc EXCEPT ![Consumer] = "popped"] /\ operation' = operation
  BY <1>3 DEF PopTail, Goto, Set
<1>5. ListTypeOK'
  BY <1>1, <1>2, <1>4 DEF ListTypeOK
<1>6. Linked(Contents \ {node[Consumer]}, head', next')
  BY <1>1, <1>2, <1>3, <1>4, LinkedWithoutTail
<1>7. pc'[Consumer] = "popped" /\ \A u \in Inserter : pc'[u] = pc[u]
  BY <1>2, <1>4, ThreadsApart DEF ListTypeOK
<1>8. next'[node[Consumer]] = Null /\ \A q \in Node \ Contents : next'[q] = next[q]
  BY <1>2, <1>3, <1>4
<1> QED
  BY <1>1, <1>3, <1>4, <1>5, <1>6, <1>7, <1>8, TakesOut

LEMMA PopFinishInd ==
  ASSUME ListIndInv, PopFinish
  PROVE  ListIndInv' /\ Contents' = Contents
<1>1. /\ pc[Consumer] = "popped" /\ size' = (size - 1) % Word
      /\ currentId' = currentId + 1 /\ freed' = freed \cup {node[Consumer]}
      /\ taken' = Append(taken, node[Consumer])
      /\ pc' = [pc EXCEPT ![Consumer] = "idle"]
      /\ operation' = [operation EXCEPT ![Consumer] = "none"]
      /\ UNCHANGED <<head, next, flowPacket, ptr, node, todo>>
  BY DEF PopFinish, Return, Goto, locals
<1>2. /\ ListTypeOK /\ ListShape /\ OutboxInv /\ NumberInv /\ Popping
      /\ \A u \in Inserter : pc[u] = "idle" /\ operation[u] = "none"
      /\ Linked(Contents, head, next) /\ Contents \subseteq Node
      /\ \A q \in Node \ Contents : next[q] = Null
      /\ Contents \cap freed = {}
  BY <1>1, Alone
<1>3. /\ node[Consumer] \in Node \ (Contents \cup freed)
      /\ node[Consumer].id = currentId
      /\ node[Consumer].at <= Begun(node[Consumer].by)
  BY <1>1, <1>2 DEF Popping
<1>4. Contents' = Contents
  BY <1>1, SameList
<1>5. ListShape'
  BY <1>1, <1>2, <1>3, <1>4 DEF ListShape, Linked
<1>6. /\ taken \in Seq(Node) /\ currentId \in Nat /\ Len(taken) = currentId
      /\ taken' \in Seq(Node) /\ Len(taken') = currentId + 1
  BY <1>1, <1>2, <1>3, AppendProperties, LenProperties DEF ListTypeOK, NumberInv
<1>7. size' \in 0..(Word - 1)
  BY <1>1, <1>2, LockFreeAssumption DEF ListTypeOK
<1>8. ListTypeOK'
  <2>1. freed' \subseteq Node /\ currentId' \in Nat
    BY <1>1, <1>2, <1>3, <1>6 DEF ListTypeOK
  <2>2. /\ pc' \in [Thread -> {"idle", "head", "store", "casHead", "walk", "casNext", "count",
                               "popTest", "popHead", "popWalk", "popLook", "popTail", "popped"}]
        /\ operation' \in [Thread -> Operation \cup {"none"}]
    BY <1>1, <1>2 DEF ListTypeOK
  <2> QED
    BY <1>1, <1>2, <1>6, <1>7, <2>1, <2>2 DEF ListTypeOK
<1>9. /\ pc'[Consumer] = "idle" /\ operation'[Consumer] = "none"
      /\ \A u \in Inserter : pc'[u] = pc[u] /\ operation'[u] = operation[u]
  BY <1>1, <1>2, ThreadsApart DEF ListTypeOK
<1>10. NumberInv'
  BY <1>1, <1>2, <1>4, <1>6, <1>9 DEF NumberInv
<1>11. Popping'
  BY <1>9 DEF Popping
<1>12. \A p \in Contents' \cup freed' : p.at <= Begun(p.by)
  BY <1>1, <1>2, <1>3, <1>4 DEF OutboxInv
<1> QED
  BY <1>1, <1>2, <1>4, <1>5, <1>8, <1>9, <1>10, <1>11, <1>12, PopFrame

LEMMA ClearListInd ==
  ASSUME NoOverlap, ListIndInv, ClearList
  PROVE  ListIndInv' /\ Contents' = {}
<1>1. /\ pc[Consumer] = "idle" /\ MayStart("clear") /\ head' = Null
      /\ next' = [p \in Node |-> IF p \in Contents THEN Null ELSE next[p]]
      /\ freed' = freed \cup Contents /\ size' = 0
      /\ UNCHANGED <<currentId, operation, pc, flowPacket, ptr, node, todo, taken>>
  BY DEF ClearList, locals
<1>2. /\ ListTypeOK /\ ListShape /\ OutboxInv /\ NumberInv /\ Popping
      /\ \A u \in Inserter : Inserting(u)
  BY DEF ListIndInv
<1>3. \A u \in Inserter : pc[u] = "idle" /\ operation[u] = "none"
  BY <1>1, <1>2, StartsAlone DEF Inserting
<1>4. Contents \subseteq Node /\ \A p \in Node : next'[p] = Null
  BY <1>1, <1>2 DEF ListShape, Linked
<1>5. Contents' = {} /\ ListShape'
  <2>1. Linked({}, head', next')
    BY <1>1, LinkedEmpty
  <2> QED
    BY <1>4, <2>1, ShapeBecomes
<1>6. ListTypeOK'
  BY <1>1, <1>2, <1>4, LockFreeAssumption DEF ListTypeOK
<1>7. NumberInv'
  BY <1>1, <1>2, <1>5 DEF NumberInv
<1>8. Popping'
  BY <1>1, <1>2 DEF Popping
<1>9. \A p \in Contents' \cup freed' : p.at <= Begun(p.by)
  BY <1>1, <1>2, <1>5 DEF OutboxInv
<1> QED
  BY <1>1, <1>3, <1>5, <1>6, <1>7, <1>8, <1>9, PopFrame

----------------------------------------------------------------------------
LEMMA StartsEmpty == ListInit => Contents = {}
<1> SUFFICES ASSUME ListInit PROVE Contents = {}
  OBVIOUS
<1>1. Linked({}, head, next)
  BY LinkedEmpty DEF ListInit
<1> QED
  BY <1>1, LinkedIsReach DEF Contents

LEMMA ListInitInd == ListInit => ListIndInv
<1> SUFFICES ASSUME ListInit PROVE ListIndInv
  OBVIOUS
<1> USE DEF ListInit
<1>1. Contents = {}
  BY StartsEmpty
<1>2. ListShape
  BY <1>1, LinkedEmpty DEF ListShape
<1>3. ListTypeOK
  BY LockFreeAssumption, EmptySeq DEF ListTypeOK
<1>4. OutboxInv
  <2>1. ASSUME NEW t \in Inserter
        PROVE  Len(Outbox[t]) <= Len(Outbox[t]) /\ Begun(t) = 0
               /\ \A i \in 1..Len(Outbox[t]) : 0 + i = i
    BY LockFreeAssumption, LenProperties DEF Begun
  <2> QED
    BY <1>1, <2>1, LockFreeAssumption DEF OutboxInv
<1>5. NumberInv
  BY <1>1 DEF NumberInv
<1>6. (\A t \in Inserter : Inserting(t)) /\ Popping
  BY ThreadsApart DEF Inserting, Popping
<1> QED
  BY <1>2, <1>3, <1>4, <1>5, <1>6 DEF ListIndInv

LEMMA ListNextInd == NoOverlap /\ ListIndInv /\ [ListNext]_listVars => ListIndInv'
<1> SUFFICES ASSUME NoOverlap, ListIndInv, [ListNext]_listVars PROVE ListIndInv'
  OBVIOUS
<1>1. ASSUME NEW t \in Inserter, StartInsert(t) \/ InsertStep(t)
      PROVE  ListIndInv'
  BY <1>1, StartInsertInd, LoadHeadInd, StoreHeadInd, CasHeadInd, WalkInd, CasNextInd,
     CountInsertedInd DEF InsertStep
<1>2. CASE StartPop \/ PopStep
  BY <1>2, StartPopInd, PopTestInd, PopHeadInd, PopWalkInd, PopLookInd, PopTailInd,
     PopFinishInd DEF PopStep
<1>3. CASE ClearList
  BY <1>3, ClearListInd
<1>4. CASE UNCHANGED listVars
  <2>1. /\ UNCHANGED <<head, next, freed, size, currentId, operation, pc, flowPacket, ptr, node,
                       todo, taken>>
        /\ Contents' = Contents
    BY <1>4, SameList DEF listVars, list, locals
  <2>2. ListTypeOK' /\ ListShape'
    BY <2>1 DEF ListIndInv, ListTypeOK, ListShape, Linked
  <2>3. OutboxInv' /\ NumberInv'
    BY <2>1 DEF ListIndInv, OutboxInv, NumberInv, Begun
  <2>4. Popping'
    BY <2>1 DEF ListIndInv, Popping, Begun
  <2>5. ASSUME NEW t \in Inserter
        PROVE  Inserting(t)'
    BY <2>1 DEF ListIndInv, Inserting, Begun
  <2> QED
    BY <2>2, <2>3, <2>4, <2>5 DEF ListIndInv
<1> QED
  BY <1>1, <1>2, <1>3, <1>4 DEF ListNext

LEMMA ListInductive == NoOverlap => (ListSpec => []ListIndInv)
<1> SUFFICES ASSUME NoOverlap PROVE ListSpec => []ListIndInv
  OBVIOUS
<1>1. ListIndInv /\ [ListNext]_listVars => ListIndInv'
  BY ListNextInd
<1> QED
  BY <1>1, ListInitInd, PTL DEF ListSpec

(* The types of the list and of the threads, for all inserters and all     *)
(* they bring, while insertions do not overlap with Pop.                   *)
THEOREM ListTypeCorrect == NoOverlap => (ListSpec => []ListTypeOK)
<1>1. ListIndInv => ListTypeOK
  BY DEF ListIndInv
<1> QED
  BY <1>1, ListInductive, PTL

----------------------------------------------------------------------------
LEMMA ListInitRefines == ListInit => ListBuffer!Init
<1> SUFFICES ASSUME ListInit PROVE ListBuffer!Init
  OBVIOUS
<1> QED
  BY StartsEmpty, ThreadsApart DEF ListInit, ListBuffer!Init

(* Every step of an inserter but the counters publishes or only looks.     *)
LEMMA InsertEffect ==
  ASSUME NoOverlap, ListIndInv, NEW t \in Inserter, StartInsert(t) \/ InsertStep(t),
         ~CountInserted(t)
  PROVE  /\ Publishes(t) \/ OnlyLooks(t)
         /\ UNCHANGED <<size, currentId, taken>>
         /\ pc[Consumer] = "idle" /\ pc'[Consumer] = "idle"
<1>0. pc[Consumer] = "idle"
  <2>1. CASE StartInsert(t)
    BY <2>1, StartsAlone DEF StartInsert, Start, ListIndInv
  <2>2. CASE InsertStep(t)
    <3>1. pc[t] # "idle"
      BY <2>2 DEF InsertStep, LoadHead, StoreHead, CasHead, Walk, CasNext, CountInserted
    <3> QED
      BY <3>1 DEF ListIndInv, Popping
  <2> QED
    BY <2>1, <2>2
<1>1. CASE StoreHead(t) \/ CasHead(t) \/ CasNext(t)
  <2>1. UNCHANGED <<size, currentId, taken>>
    BY <1>1 DEF StoreHead, CasHead, CasNext
  <2> QED
    BY <1>0, <1>1, <2>1, StoreHeadInd, CasHeadInd, CasNextInd, ThreadsApart
       DEF Publishes, OnlyLooks
<1>2. CASE StartInsert(t) \/ LoadHead(t) \/ Walk(t)
  <2>1. UNCHANGED <<head, next, size, currentId, taken>>
    BY <1>2 DEF StartInsert, LoadHead, Walk, list
  <2>2. pc \in [Thread -> {"idle", "head", "store", "casHead", "walk", "casNext", "count",
                          "popTest", "popHead", "popWalk", "popLook", "popTail", "popped"}]
    BY DEF ListIndInv, ListTypeOK
  <2>3. /\ pc[t] # "count" /\ pc'[t] # "count" /\ \A u \in Thread \ {t} : pc'[u] = pc[u]
    BY <1>2, <2>2, ThreadsApart
       DEF StartInsert, Start, LoadHead, Walk, Return, Goto
  <2> QED
    BY <1>0, <2>1, <2>3, SameList, ThreadsApart DEF OnlyLooks
<1> QED
  BY <1>1, <1>2 DEF InsertStep

(* Every step of the list is a step of the reorder buffer.                 *)
LEMMA ListNextRefines ==
  NoOverlap /\ ListIndInv /\ [ListNext]_listVars => [ListBuffer!Next]_ListBuffer!vars
<1> DEFINE delivered == IF pc[Consumer] = "popped" THEN Append(taken, node[Consumer]) ELSE taken
<1> SUFFICES ASSUME NoOverlap, ListIndInv, [ListNext]_listVars
             PROVE  ListBuffer!Next \/ (Contents' = Contents /\ delivered' = delivered)
  BY DEF ListBuffer!vars
<1>0. /\ ListTypeOK /\ NumberInv /\ Len(taken) = currentId
      /\ ListIndInv'
  BY ListNextInd DEF ListIndInv, NumberInv
<1>1. ASSUME NEW t \in Inserter, StartInsert(t) \/ InsertStep(t), ~CountInserted(t)
      PROVE  ListBuffer!Next \/ (Contents' = Contents /\ delivered' = delivered)
  <2>1. /\ Publishes(t) \/ OnlyLooks(t)
        /\ delivered = taken /\ delivered' = taken /\ pc[Consumer] = "idle"
    BY <1>1, InsertEffect
  <2>2. CASE OnlyLooks(t)
    BY <2>1, <2>2 DEF OnlyLooks
  <2>3. CASE Publishes(t)
    <3>1. flowPacket[t] \in Node /\ flowPacket[t].id >= Len(taken)
      <4>1. pc[t] # "idle" /\ Inserting(t)
        <5>1. ~StartInsert(t)
          BY <1>0, <2>3, ThreadsApart DEF ListTypeOK, Publishes, StartInsert, Start, Goto
        <5> QED
          BY <1>1, <5>1 DEF ListIndInv, InsertStep, LoadHead, StoreHead, CasHead, Walk, CasNext
      <4> QED
        BY <1>0, <4>1 DEF Inserting
    <3>2. flowPacket[t] \in Contents' /\ flowPacket[t] \notin Contents /\ Contents \subseteq Contents'
      BY <2>3 DEF Publishes
    <3>3. \A other \in Contents : other.id # flowPacket[t].id
      BY <1>0, <3>2 DEF ListIndInv, ListShape, Linked
    <3>4. ListBuffer!Put(flowPacket[t])
      BY <2>1, <2>3, <3>1, <3>3 DEF ListBuffer!Put, Publishes
    <3> QED
      BY <3>2, <3>4 DEF ListBuffer!Next
  <2> QED
    BY <2>1, <2>2, <2>3
<1>2. ASSUME NEW t \in Inserter, CountInserted(t)
      PROVE  Contents' = Contents /\ delivered' = delivered
  <2>1. /\ UNCHANGED <<head, next, taken, node>> /\ pc' = [pc EXCEPT ![t] = "idle"]
    BY <1>2 DEF CountInserted, Return, Goto, list, locals
  <2>2. pc'[Consumer] = pc[Consumer]
    BY <1>0, <2>1, ThreadsApart DEF ListTypeOK
  <2> QED
    BY <2>1, <2>2, SameList
<1>3. CASE StartPop \/ PopTest \/ PopWalk \/ PopLook
  <2>1. UNCHANGED <<head, next, taken>> /\ pc[Consumer] # "popped" /\ pc'[Consumer] # "popped"
    BY <1>0, <1>3, ThreadsApart
       DEF ListTypeOK, StartPop, Start, PopTest, PopWalk, PopLook, Return, Goto, list
  <2> QED
    BY <2>1, SameList
<1>4. CASE PopHead \/ PopTail
  <2>1. taken' = taken /\ pc[Consumer] # "popped"
    BY <1>4 DEF PopHead, PopTail
  <2>2. CASE UNCHANGED list /\ pc'[Consumer] = "idle"
    BY <2>1, <2>2, SameList DEF list
  <2>3. CASE /\ pc'[Consumer] = "popped" /\ node'[Consumer] \in Contents
             /\ node'[Consumer].id = currentId /\ Contents' = Contents \ {node'[Consumer]}
    <3>1. ListBuffer!Deliver(node'[Consumer])
      BY <1>0, <2>1, <2>3 DEF ListBuffer!Deliver
    <3> QED
      BY <2>3, <3>1 DEF ListBuffer!Next
  <2> QED
    BY <1>4, <2>2, <2>3, PopHeadInd, PopTailInd
<1>5. CASE PopFinish
  <2>1. /\ taken' = Append(taken, node[Consumer]) /\ pc[Consumer] = "popped"
        /\ pc'[Consumer] = "idle"
    BY <1>0, <1>5, ThreadsApart DEF ListTypeOK, PopFinish, Return, Goto
  <2> QED
    BY <1>5, <2>1, PopFinishInd
<1>6. CASE ClearList
  <2>1. Contents' = {} /\ delivered' = delivered
    BY <1>6, ClearListInd DEF ClearList, locals
  <2> QED
    BY <2>1 DEF ListBuffer!Next, ListBuffer!Drop
<1>7. CASE UNCHANGED listVars
  BY <1>7, SameList DEF listVars, list, locals
<1> QED
  BY <1>1, <1>2, <1>3, <1>4, <1>5, <1>6, <1>7 DEF ListNext, PopStep

(* The list without locks is a reorder buffer while insertions do not      *)
(* overlap with Pop: it delivers what went in, by number, and drops only by*)
(* Clear.                                                                  *)
THEOREM ListRefinesBuffer == NoOverlap => (ListSpec => ListImplementsBuffer)
<1> SUFFICES ASSUME NoOverlap PROVE ListSpec => ListImplementsBuffer
  OBVIOUS
<1>1. ListIndInv /\ [ListNext]_listVars => [ListBuffer!Next]_ListBuffer!vars
  BY ListNextRefines
<1>2. ListSpec => []ListIndInv
  BY ListInductive
<1> QED
  BY <1>1, <1>2, ListInitRefines, PTL DEF ListSpec, ListImplementsBuffer, ListBuffer!Spec

----------------------------------------------------------------------------
(* Finitely many inserters bring fewer packets than size_ can count.       *)
CountsFit ==
  /\ IsFiniteSet(Inserter)
  /\ IsFiniteSet(Node) /\ Cardinality(Node) < Word

Counting == {t \in Inserter : pc[t] = "count"}

LEMMA CountsAreFinite ==
  ASSUME CountsFit, ListShape
  PROVE  /\ IsFiniteSet(Contents) /\ Cardinality(Contents) \in 0..(Word - 1)
         /\ IsFiniteSet(Counting) /\ Cardinality(Counting) \in Nat
<1>1. Contents \in SUBSET Node /\ Counting \in SUBSET Inserter
  BY DEF ListShape, Linked, Counting
<1>2. /\ IsFiniteSet(Contents) /\ Cardinality(Contents) <= Cardinality(Node)
      /\ IsFiniteSet(Counting)
  BY <1>1, FS_Subset DEF CountsFit
<1>3. /\ Cardinality(Contents) \in Nat /\ Cardinality(Counting) \in Nat
      /\ Cardinality(Node) \in Nat /\ Cardinality(Node) < Word /\ Word \in Nat
  BY <1>2, FS_CardinalityType, LockFreeAssumption DEF CountsFit
<1> QED
  BY <1>2, <1>3

(* A counter that stays in its range does not wrap around.                 *)
LEMMA NoWrap ==
  ASSUME NEW n \in 0..(Word - 1)
  PROVE  n % Word = n
  BY LockFreeAssumption

LEMMA SizeNextInd ==
  NoOverlap /\ CountsFit /\ ListIndInv /\ SizeCounts /\ [ListNext]_listVars => SizeCounts'
<1> SUFFICES ASSUME NoOverlap, CountsFit, ListIndInv, SizeCounts, [ListNext]_listVars
             PROVE  SizeCounts'
  OBVIOUS
<1> DEFINE Held == IF pc[Consumer] = "popped" THEN 1 ELSE 0
           Balanced == size = Cardinality(Contents) - Cardinality(Counting) + Held
<1>0. /\ ListTypeOK /\ ListShape /\ Popping /\ \A t \in Inserter : Inserting(t)
      /\ Balanced /\ size \in 0..(Word - 1) /\ Word \in Nat
      /\ IsFiniteSet(Contents) /\ Cardinality(Contents) \in 0..(Word - 1)
      /\ IsFiniteSet(Counting) /\ Cardinality(Counting) \in Nat
      /\ Contents \subseteq Node
  BY CountsAreFinite, LockFreeAssumption
     DEF ListIndInv, ListTypeOK, ListShape, Linked, SizeCounts, Counting
<1> SUFFICES Balanced'
  BY DEF SizeCounts, Counting
<1>1. ASSUME NEW t \in Inserter, StartInsert(t) \/ InsertStep(t), ~CountInserted(t)
      PROVE  Balanced'
  <2>1. /\ Publishes(t) \/ OnlyLooks(t)
        /\ size' = size /\ Held = 0 /\ Held' = 0
    BY <1>1, InsertEffect
  <2>2. CASE OnlyLooks(t)
    <3>1. Counting' = Counting /\ Contents' = Contents
      BY <2>2, ThreadsApart DEF OnlyLooks, Counting
    <3> QED
      BY <1>0, <2>1, <3>1
  <2>3. CASE Publishes(t)
    <3>1. /\ Counting' = Counting \cup {t} /\ t \notin Counting
          /\ Contents' = Contents \cup {flowPacket[t]} /\ flowPacket[t] \notin Contents
      BY <2>3, ThreadsApart DEF Publishes, Counting
    <3>2. /\ Cardinality(Counting') = Cardinality(Counting) + 1
          /\ Cardinality(Contents') = Cardinality(Contents) + 1
      BY <1>0, <3>1, FS_AddElement
    <3> QED
      BY <1>0, <2>1, <3>2
  <2> QED
    BY <2>1, <2>2, <2>3
<1>2. ASSUME NEW t \in Inserter, CountInserted(t)
      PROVE  Balanced'
  <2>1. /\ UNCHANGED <<head, next>> /\ pc' = [pc EXCEPT ![t] = "idle"] /\ pc[t] = "count"
        /\ size' = (size + 1) % Word
    BY <1>2 DEF CountInserted, Return, Goto, list
  <2>2. /\ pc'[Consumer] = pc[Consumer] /\ pc[Consumer] = "idle"
        /\ Counting' = Counting \ {t} /\ t \in Counting
    BY <1>0, <2>1, ThreadsApart DEF ListTypeOK, Popping, Counting
  <2>3. Contents' = Contents
    BY <2>1, SameList
  <2>4. Cardinality(Counting') = Cardinality(Counting) - 1 /\ Cardinality(Counting') \in Nat
    BY <1>0, <2>2, FS_RemoveElement, FS_CardinalityType
  <2>5. Held = 0 /\ Held' = 0
    BY <2>2
  <2> HIDE DEF Held
  <2>6. size + 1 \in 0..(Word - 1)
    BY <1>0, <2>4, <2>5
  <2>7. size' = size + 1
    BY <2>1, <2>6, NoWrap
  <2> QED
    BY <1>0, <2>3, <2>4, <2>5, <2>7
<1>3. CASE StartPop \/ PopTest \/ PopWalk \/ PopLook
  <2>1. /\ UNCHANGED <<head, next, size>> /\ pc[Consumer] # "popped" /\ pc'[Consumer] # "popped"
        /\ \A t \in Inserter : pc'[t] = pc[t]
    BY <1>0, <1>3, ThreadsApart
       DEF ListTypeOK, StartPop, Start, PopTest, PopWalk, PopLook, Return, Goto, list
  <2>2. Counting' = Counting /\ Contents' = Contents
    BY <2>1, SameList DEF Counting
  <2> QED
    BY <1>0, <2>1, <2>2
<1>4. CASE PopHead \/ PopTail
  <2>1. /\ size' = size /\ pc[Consumer] # "popped"
        /\ \A t \in Inserter : pc'[t] = pc[t]
    BY <1>0, <1>4, ThreadsApart DEF ListTypeOK, PopHead, PopTail, Return, Goto
  <2>2. Counting' = Counting
    BY <2>1 DEF Counting
  <2>3. CASE UNCHANGED list /\ pc'[Consumer] = "idle"
    BY <1>0, <2>1, <2>2, <2>3, SameList DEF list
  <2>4. CASE /\ pc'[Consumer] = "popped" /\ node'[Consumer] \in Contents
             /\ Contents' = Contents \ {node'[Consumer]}
    <3>1. Cardinality(Contents') = Cardinality(Contents) - 1
      BY <1>0, <2>4, FS_RemoveElement
    <3> QED
      BY <1>0, <2>1, <2>2, <2>4, <3>1
  <2> QED
    BY <1>4, <2>3, <2>4, PopHeadInd, PopTailInd
<1>5. CASE PopFinish
  <2>1. /\ size' = (size - 1) % Word /\ pc[Consumer] = "popped" /\ pc'[Consumer] = "idle"
        /\ \A t \in Inserter : pc[t] = "idle" /\ pc'[t] = "idle"
    BY <1>0, <1>5, ThreadsApart DEF ListTypeOK, Popping, PopFinish, Return, Goto
  <2>2. Counting = {} /\ Counting' = {}
    BY <2>1 DEF Counting
  <2>3. size = Cardinality(Contents) + 1
    BY <1>0, <2>1, <2>2, FS_EmptySet
  <2>4. size' = Cardinality(Contents)
    BY <1>0, <2>1, <2>3, NoWrap
  <2> QED
    BY <1>0, <1>5, <2>1, <2>2, <2>4, PopFinishInd, FS_EmptySet
<1>6. CASE ClearList
  <2>1. /\ size' = 0 /\ pc' = pc /\ pc[Consumer] = "idle" /\ MayStart("clear")
    BY <1>6 DEF ClearList
  <2>2. Counting' = {}
    BY <1>0, <2>1, StartsAlone DEF Counting
  <2> QED
    BY <1>6, <2>1, <2>2, ClearListInd, FS_EmptySet
<1>7. CASE UNCHANGED listVars
  <2>1. UNCHANGED <<head, next, size, pc>>
    BY <1>7 DEF listVars, list
  <2> QED
    BY <1>0, <2>1, SameList DEF Counting
<1> QED
  BY <1>1, <1>2, <1>3, <1>4, <1>5, <1>6, <1>7 DEF ListNext, PopStep

(* size_ is the number of nodes, up to the calls that are between the list *)
(* and the counter.                                                        *)
THEOREM CountsNodes == NoOverlap /\ CountsFit => (ListSpec => []SizeCounts)
<1> SUFFICES ASSUME NoOverlap, CountsFit PROVE ListSpec => []SizeCounts
  OBVIOUS
<1>1. ListInit => SizeCounts
  <2> SUFFICES ASSUME ListInit PROVE SizeCounts
    OBVIOUS
  <2>1. Contents = {}
    BY StartsEmpty
  <2>2. Counting = {} /\ pc[Consumer] = "idle" /\ size = 0
    BY ThreadsApart DEF ListInit, Counting
  <2> QED
    BY <2>1, <2>2, FS_EmptySet DEF SizeCounts, Counting
<1>2. ListIndInv /\ SizeCounts /\ [ListNext]_listVars => SizeCounts'
  BY SizeNextInd
<1>3. ListSpec => []ListIndInv
  BY ListInductive
<1> QED
  BY <1>1, <1>2, <1>3, PTL DEF ListSpec
============================================================================
