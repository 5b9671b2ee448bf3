--------------------------- MODULE BondLinkProofs ---------------------------
(***************************************************************************)
(* The safety of one direction of a link: the bytes on it are whole        *)
(* packets, one after the other, and the reader takes the packets of each  *)
(* sender in the order they were sent.                                     *)
(***************************************************************************)
EXTENDS BondLink, SequenceTheorems, TLAPS

(* The headers say what the buffers hold, as those of the packets of flows *)
(* do: FlowPacket::Resize sets both (FlowPacket.cpp:42), Flow.cpp:85.      *)
Sound == {p \in Packet : p.size = p.length}
SizesAgree == \A sender \in Sender : \A i \in 1..Len(Outbox[sender]) : Outbox[sender][i] \in Sound

----------------------------------------------------------------------------
(* The invariant.                                                          *)

Parts == {"header", "flowHeader", "payload", "shutdown", "garbled", "exited"}

(* TypeOK, for the packets that are really sent.                           *)
Typed(packets) ==
  /\ pc \in [Thread -> {"idle", "lock", "send"}]
  /\ todo \in [Sender -> Seq(packets)]
  /\ packet \in [Thread -> packets]
  /\ sentBytes \in [Thread -> Nat]
  /\ \A thread \in Thread : sentBytes[thread] <= Size(packet[thread])
  /\ mutex \in Thread \cup {"free"}
  /\ beats \in 0..Heartbeats
  /\ outQueue \in Seq(BytesOf(packets))
  /\ inQueue \in Seq(BytesOf(packets))
  /\ buffer \in Seq(BytesOf(packets))
  /\ link \in {"up", "fin", "reset"}
  /\ part \in Parts
  /\ bytesRead \in Nat
  /\ received \in Seq(Seq(BytesOf(packets)))

(* The number of the packet a thread will send next.                       *)
NextId(thread) ==
  IF thread = Heartbeat THEN beats + 1 ELSE Len(Outbox[thread]) - Len(todo[thread]) + 1

(* What is left of the packets of a sender.                                *)
RestOf(sender, left) ==
  /\ Len(left) <= Len(Outbox[sender])
  /\ \A i \in 1..Len(left) : left[i] = Outbox[sender][Len(Outbox[sender]) - Len(left) + i]
TodoOK ==
  \A sender \in Sender :
    RestOf(sender, todo[sender]) /\ (pc[sender] = "lock" => todo[sender] # <<>>)

(* Only who holds the mutex sends, and that the packet it has the number   *)
(* for.                                                                    *)
MutexOK == \A thread \in Thread : pc[thread] = "send" <=> mutex = thread
NumberOK ==
  \A thread \in Thread : pc[thread] = "send" =>
    packet[thread].sender = thread /\ packet[thread].id = NextId(thread) - 1

SendersOK ==
  TodoOK /\ MutexOK /\ NumberOK /\ (pc[Heartbeat] = "lock" => beats < Heartbeats)

(* The bytes a reader has of its packet are those of the parts it read.    *)
PartsOK ==
  /\ part = "header" => Len(buffer) = bytesRead
  /\ part = "flowHeader" => Len(buffer) = HeaderSize + bytesRead
  /\ part = "payload" => Len(buffer) = HeaderSize + FlowHeaderSize + bytesRead

(* A link that was reset carries nothing, nor does one whose reader found  *)
(* it closed.                                                              *)
ClosedOK ==
  /\ link = "reset" \/ part = "shutdown" => outQueue = <<>> /\ inQueue = <<>>
  /\ part = "shutdown" => link # "up"

(* One packet after the other: from any byte on come the others of its     *)
(* packet and then the first one of another.                               *)
Run(bytes) ==
  /\ bytes # <<>> => bytes[1].at = 1
  /\ \A i, j \in 1..Len(bytes) :
       i <= j /\ j - i <= Size(bytes[i].packet) - bytes[i].at =>
         bytes[j].packet = bytes[i].packet /\ bytes[j].at = bytes[i].at + (j - i)
  /\ \A i \in 1..(Len(bytes) - 1) :
       bytes[i].at = Size(bytes[i].packet) => bytes[i+1].at = 1

Whole(bytes) == bytes = <<>> \/ bytes[Len(bytes)].at = Size(bytes[Len(bytes)].packet)

(* A thread that is in the middle of its packet sent the last byte there   *)
(* is; without one the stream ends with a packet.                          *)
Amid(thread) ==
  pc[thread] = "send" /\ sentBytes[thread] \in 1..(Size(packet[thread]) - 1)
EndOK ==
  /\ \A thread \in Thread : Amid(thread) =>
       Stream # <<>> /\ Stream[Len(Stream)] = [packet |-> packet[thread], at |-> sentBytes[thread]]
  /\ (\A thread \in Thread : ~Amid(thread)) => Whole(Stream)

ReaderOK ==
  /\ part # "garbled"
  /\ part = "header" => bytesRead <= HeaderSize
  /\ part \in {"flowHeader", "payload"} => Reading.type = "FLOW"
  /\ part = "flowHeader" => bytesRead <= FlowHeaderSize
  /\ part = "payload" => bytesRead <= Reading.size

AlignedInv == Run(Stream) /\ (link = "up" => EndOK) /\ ReaderOK

(* The packets that were taken, and those with one of the first n bytes of *)
(* the stream.                                                             *)
Before(n) == {Taken(j) : j \in 1..Len(received)} \cup {Stream[k].packet : k \in 1..n}

(* Every packet on the link is the next of its sender after those before   *)
(* it, and what a sender sends next will be.                               *)
Sends(thread) == NextId(thread) - (IF pc[thread] = "send" /\ sentBytes[thread] = 0 THEN 1 ELSE 0)
Reaches(thread, n, id) ==
  /\ \A q \in Before(n) : q.sender = thread => q.id < id
  /\ id = 1 \/ \E q \in Before(n) : q.sender = thread /\ q.id = id - 1
OrderInv ==
  /\ \A i \in 1..Len(Stream) : Stream[i].at = 1 => Follows(Stream[i].packet, Before(i - 1))
  /\ link = "up" => \A thread \in Thread : Reaches(thread, Len(Stream), Sends(thread))
  /\ PacketsInOrder /\ \A j \in 1..Len(received) : Taken(j) \in Packet

SoundInv == Typed(Sound) /\ SendersOK /\ PartsOK /\ ClosedOK
IndInv == SoundInv /\ AlignedInv /\ OrderInv

----------------------------------------------------------------------------
(* Sizes and bytes.                                                        *)

(* Packets of the senders and heartbeats are among these.                  *)
Complete(packets) ==
  /\ packets \subseteq Packet
  /\ \A number \in Nat : Beat(number) \in packets
  /\ \A sender \in Sender : Outbox[sender] \in Seq(packets)

LEMMA HeaderSizes == HeaderSize \in Nat \ {0} /\ FlowHeaderSize \in Nat \ {0}
  BY BondLinkAssumption

LEMMA ThreadIs ==
  /\ Heartbeat \in Thread /\ Sender \subseteq Thread /\ Thread = Sender \cup {Heartbeat}
  /\ "free" \notin Thread /\ Heartbeat \notin Sender
  BY BondLinkAssumption DEF Thread

LEMMA OutboxIs ==
  ASSUME NEW sender \in Sender
  PROVE  /\ Outbox[sender] \in Seq(Packet) /\ Len(Outbox[sender]) \in Nat
         /\ \A i \in 1..Len(Outbox[sender]) :
              Outbox[sender][i].sender = sender /\ Outbox[sender][i].id = i
<1>1. Outbox[sender] \in Seq(Packet)
  BY BondLinkAssumption
<1>2. \A i \in 1..Len(Outbox[sender]) :
        Outbox[sender][i].sender = sender /\ Outbox[sender][i].id = i
  BY BondLinkAssumption
<1> QED
  BY <1>1, <1>2

LEMMA SizePositive == \A p \in Packet : Size(p) \in Nat /\ Size(p) >= HeaderSize /\ Size(p) >= 1
  BY BondLinkAssumption DEF Size, Packet

LEMMA CompletePacket == Complete(Packet)
<1>1. \A number \in Nat : Beat(number) \in Packet
  BY DEF Beat, Packet, Thread
<1> QED
  BY <1>1, BondLinkAssumption DEF Complete

LEMMA CompleteSound == SizesAgree => Complete(Sound)
<1> SUFFICES ASSUME SizesAgree PROVE Complete(Sound)
  OBVIOUS
<1>1. \A number \in Nat : Beat(number) \in Sound
  BY DEF Beat, Packet, Thread, Sound
<1>2. ASSUME NEW sender \in Sender PROVE Outbox[sender] \in Seq(Sound)
  <2>1. Outbox[sender] \in Seq(Packet)
    BY BondLinkAssumption
  <2>2. \A i \in 1..Len(Outbox[sender]) : Outbox[sender][i] \in Sound
    BY DEF SizesAgree
  <2> QED
    BY <2>1, <2>2
<1> QED
  BY <1>1, <1>2 DEF Complete, Sound

LEMMA BytesOfPacket ==
  ASSUME NEW P, P \subseteq Packet, NEW p \in P
  PROVE  /\ Bytes(p) \in Seq(BytesOf(P))
         /\ Len(Bytes(p)) = Size(p)
         /\ \A i \in 1..Size(p) : Bytes(p)[i] = [packet |-> p, at |-> i]
<1>1. Size(p) \in Nat
  BY SizePositive
<1>2. \A i \in 1..Size(p) : [packet |-> p, at |-> i] \in BytesOf(P)
  BY <1>1 DEF BytesOf
<1>3. Bytes(p) \in [1..Size(p) -> BytesOf(P)]
  BY <1>2 DEF Bytes
<1>4. Bytes(p) \in Seq(BytesOf(P)) /\ Len(Bytes(p)) = Size(p)
  BY <1>1, <1>3
<1> QED
  BY <1>4 DEF Bytes

(* Some of the bytes of a packet, as one Send hands them over.             *)
LEMMA PieceOfPacket ==
  ASSUME NEW P, P \subseteq Packet, NEW p \in P, NEW a \in Nat, NEW b \in (a + 1)..Size(p)
  PROVE  /\ SubSeq(Bytes(p), a + 1, b) \in Seq(BytesOf(P))
         /\ Len(SubSeq(Bytes(p), a + 1, b)) = b - a
         /\ \A i \in 1..(b - a) :
              SubSeq(Bytes(p), a + 1, b)[i] = [packet |-> p, at |-> a + i]
<1>1. /\ Bytes(p) \in Seq(BytesOf(P)) /\ Len(Bytes(p)) = Size(p)
      /\ \A i \in 1..Size(p) : Bytes(p)[i] = [packet |-> p, at |-> i]
  BY BytesOfPacket
<1>2. Size(p) \in Nat /\ b \in Nat
  BY SizePositive
<1>3. \A i \in (a + 1)..b : Bytes(p)[i] \in BytesOf(P)
  BY <1>1, <1>2
<1>4. /\ SubSeq(Bytes(p), a + 1, b) \in Seq(BytesOf(P))
      /\ Len(SubSeq(Bytes(p), a + 1, b)) = b - (a + 1) + 1
      /\ \A i \in 1..(b - (a + 1) + 1) : SubSeq(Bytes(p), a + 1, b)[i] = Bytes(p)[(a + 1) + i - 1]
  BY <1>2, <1>3, SubSeqProperties
<1> QED
  BY <1>1, <1>2, <1>4

----------------------------------------------------------------------------
(* The types, the mutex and the numbers of the senders.                    *)

LEMMA TypedInit ==
  ASSUME NEW P, Complete(P), Init
  PROVE  Typed(P) /\ SendersOK /\ PartsOK
<1> USE DEF Init
<1>1. Heartbeat \in Thread /\ Sender \subseteq Thread /\ "free" \notin Thread
  BY BondLinkAssumption DEF Thread
<1>2. packet \in [Thread -> P] /\ \A thread \in Thread : 0 <= Size(packet[thread])
  BY SizePositive DEF Complete
<1>3. todo \in [Sender -> Seq(P)]
  BY BondLinkAssumption DEF Complete
<1>4. Typed(P)
  BY <1>2, <1>3, BondLinkAssumption DEF Typed, Parts
<1>5. SendersOK
  <2>1. ASSUME NEW sender \in Sender PROVE RestOf(sender, Outbox[sender])
    <3>1. Len(Outbox[sender]) \in Nat
      BY OutboxIs
    <3> QED
      BY <3>1 DEF RestOf
  <2> QED
    BY <1>1, <2>1 DEF SendersOK, TodoOK, MutexOK, NumberOK
<1> QED
  BY <1>4, <1>5, BondLinkAssumption DEF PartsOK

LEMMA RecvTakes ==
  ASSUME NEW S, NEW b \in Seq(S), NEW q \in Seq(S), NEW n \in 1..Len(q)
  PROVE  /\ b \o SubSeq(q, 1, n) \in Seq(S) /\ Len(b \o SubSeq(q, 1, n)) = Len(b) + n
         /\ SubSeq(q, n + 1, Len(q)) \in Seq(S)
         /\ \A i \in 1..Len(b) : (b \o SubSeq(q, 1, n))[i] = b[i]
<1>1. /\ SubSeq(q, 1, n) \in Seq(S) /\ Len(SubSeq(q, 1, n)) = n
  BY SubSeqProperties
<1>2. SubSeq(q, n + 1, Len(q)) \in Seq(S)
  BY SubSeqProperties
<1>3. /\ b \o SubSeq(q, 1, n) \in Seq(S) /\ Len(b \o SubSeq(q, 1, n)) = Len(b) + n
      /\ \A i \in 1..Len(b) : (b \o SubSeq(q, 1, n))[i] = b[i]
  BY <1>1, ConcatProperties
<1> QED
  BY <1>2, <1>3

LEMMA WantedNat ==
  ASSUME NEW P, P \subseteq Packet, Typed(P), PartsOK
  PROVE  Wanted \in Nat
<1>1. CASE part = "payload"
  <2>1. Len(buffer) >= 1 /\ buffer \in Seq(BytesOf(P))
    BY <1>1, BondLinkAssumption DEF PartsOK, Typed
  <2>2. buffer[1] \in BytesOf(P)
    BY <2>1, ElementOfSeq
  <2> QED
    BY <1>1, <2>2 DEF Wanted, Reading, BytesOf, Packet
<1> QED
  BY <1>1, BondLinkAssumption DEF Wanted, Typed

LEMMA TypedReader ==
  ASSUME NEW P, Complete(P), Typed(P), SendersOK, PartsOK, ReaderStep
  PROVE  Typed(P)' /\ SendersOK' /\ PartsOK'
<1> USE DEF Complete
<1>1. SendersOK'
  <2>1. UNCHANGED senders
    BY DEF ReaderStep, RecvSome, RecvNothing, GiveUp, ReadHeader, ReadFlowHeader, ReadPayload
  <2>2. UNCHANGED <<pc, todo, packet, mutex, beats>>
    BY <2>1 DEF senders
  <2>3. \A thread : NextId(thread)' = NextId(thread)
    BY <2>2 DEF NextId
  <2> QED
    BY <2>2, <2>3 DEF SendersOK, TodoOK, MutexOK, NumberOK
<1>2. CASE RecvSome
  <2>1. PICK count \in 1..(Wanted - bytesRead) :
          /\ count <= Len(inQueue)
          /\ buffer' = buffer \o SubSeq(inQueue, 1, count)
          /\ inQueue' = SubSeq(inQueue, count + 1, Len(inQueue))
          /\ bytesRead' = bytesRead + count
    BY <1>2 DEF RecvSome
  <2>2. bytesRead \in Nat /\ count \in Nat /\ count \in 1..Len(inQueue)
    BY <2>1, WantedNat DEF Typed
  <2>3. /\ buffer' \in Seq(BytesOf(P)) /\ inQueue' \in Seq(BytesOf(P))
        /\ Len(buffer') = Len(buffer) + count
    BY <2>1, <2>2, RecvTakes DEF Typed
  <2>4. bytesRead' \in Nat
    BY <2>1, <2>2
  <2>5. Typed(P)'
    BY <1>2, <2>3, <2>4 DEF RecvSome, senders, Typed
  <2>6. PartsOK'
    <3>1. Len(buffer) \in Nat /\ part' = part /\ bytesRead' = bytesRead + count
      BY <1>2, <2>1 DEF Typed, RecvSome
    <3>2. Len(buffer)' = Len(buffer) + count
      BY <2>3
    <3>3. HeaderSize \in Nat /\ FlowHeaderSize \in Nat
      BY HeaderSizes
    <3>4. /\ part = "header" => Len(buffer)' = bytesRead'
      BY <2>2, <3>1, <3>2 DEF PartsOK
    <3>5. part = "flowHeader" => Len(buffer)' = HeaderSize + bytesRead'
      BY <2>2, <3>1, <3>2, <3>3 DEF PartsOK
    <3>6. part = "payload" => Len(buffer)' = HeaderSize + FlowHeaderSize + bytesRead'
      BY <2>2, <3>1, <3>2, <3>3 DEF PartsOK
    <3> QED
      BY <3>1, <3>4, <3>5, <3>6 DEF PartsOK
  <2> QED
    BY <1>1, <2>5, <2>6
<1>3. CASE RecvNothing
  BY <1>1, <1>3 DEF RecvNothing, senders, Typed, PartsOK, Parts
<1>4. ASSUME TakePacket, UNCHANGED <<senders, outQueue, inQueue, link>>
      PROVE  Typed(P)' /\ PartsOK'
  <2>1. received' \in Seq(Seq(BytesOf(P)))
    BY <1>4, AppendProperties DEF TakePacket, Typed
  <2>2. /\ buffer' = <<>> /\ bytesRead' = 0 /\ part' = "header"
        /\ <<>> \in Seq(BytesOf(P)) /\ Len(<<>>) = 0
    BY <1>4, EmptySeq DEF TakePacket, EnterPart
  <2> QED
    BY <1>4, <2>1, <2>2 DEF Typed, PartsOK, senders, Parts
<1>5. CASE ReadHeader
  <2>1. CASE TakePacket
    BY <1>1, <1>4, <1>5, <2>1 DEF ReadHeader
  <2>2. CASE ~TakePacket
    <3>1. /\ part' \in {"garbled", "flowHeader"} /\ bytesRead' = 0 /\ buffer' = buffer
          /\ received' = received /\ UNCHANGED <<senders, outQueue, inQueue, link>>
      BY <1>5, <2>2 DEF ReadHeader, EnterPart
    <3>2. Len(buffer) = HeaderSize
      BY <1>5 DEF ReadHeader, PartsOK, Wanted
    <3>3. Typed(P)'
      BY <3>1 DEF Typed, senders, Parts
    <3> QED
      BY <1>1, <3>1, <3>2, <3>3, BondLinkAssumption DEF PartsOK
  <2> QED
    BY <2>1, <2>2
<1>6. CASE ReadFlowHeader
  <2>1. /\ part' = "payload" /\ bytesRead' = 0 /\ buffer' = buffer
        /\ received' = received /\ UNCHANGED <<senders, outQueue, inQueue, link>>
    BY <1>6 DEF ReadFlowHeader, EnterPart
  <2>2. Len(buffer) = HeaderSize + FlowHeaderSize
    BY <1>6 DEF ReadFlowHeader, PartsOK, Wanted
  <2>3. Typed(P)'
    BY <2>1 DEF Typed, senders, Parts
  <2> QED
    BY <1>1, <2>1, <2>2, <2>3, BondLinkAssumption DEF PartsOK
<1>7. CASE ReadPayload
  BY <1>1, <1>4, <1>7 DEF ReadPayload
<1>8. CASE GiveUp
  <2>1. /\ part' \in {"header", "exited"} /\ bytesRead' = 0 /\ buffer' = <<>>
        /\ UNCHANGED <<senders, outQueue, inQueue, link, received>>
        /\ <<>> \in Seq(BytesOf(P)) /\ Len(<<>>) = 0
    BY <1>8, EmptySeq DEF GiveUp, EnterPart
  <2> QED
    BY <1>1, <2>1 DEF Typed, PartsOK, senders, Parts
<1> QED
  BY <1>2, <1>3, <1>5, <1>6, <1>7, <1>8 DEF ReaderStep

LEMMA RestTail ==
  ASSUME NEW P, NEW sender \in Sender, NEW left \in Seq(P), left # <<>>, RestOf(sender, left)
  PROVE  /\ Head(left) \in P /\ Tail(left) \in Seq(P) /\ Len(left) \in Nat \ {0}
         /\ Len(Tail(left)) = Len(left) - 1 /\ RestOf(sender, Tail(left))
         /\ Head(left).sender = sender
         /\ Head(left).id = Len(Outbox[sender]) - Len(left) + 1
<1> DEFINE all == Outbox[sender]
<1>1. Len(all) \in Nat /\ \A i \in 1..Len(all) : all[i].sender = sender /\ all[i].id = i
  BY OutboxIs
<1>2. /\ Len(left) \in Nat \ {0} /\ Len(left) <= Len(all)
      /\ \A i \in 1..Len(left) : left[i] = all[Len(all) - Len(left) + i]
  BY DEF RestOf
<1>3. /\ Head(left) \in P /\ Head(left) = left[1]
      /\ Tail(left) \in Seq(P) /\ Len(Tail(left)) = Len(left) - 1
      /\ \A i \in 1..Len(Tail(left)) : Tail(left)[i] = left[i + 1]
  BY HeadTailProperties
<1> DEFINE rest == Tail(left)
           first == Head(left)
<1> HIDE DEF all, rest, first
<1>4. Len(all) - Len(left) + 1 \in 1..Len(all) /\ first = all[Len(all) - Len(left) + 1]
  BY <1>1, <1>2, <1>3 DEF first
<1>5. first.sender = sender /\ first.id = Len(all) - Len(left) + 1
  BY <1>1, <1>4
<1>6. ASSUME NEW i \in 1..Len(rest) PROVE rest[i] = all[Len(all) - Len(rest) + i]
  <2>1. rest[i] = left[i + 1] /\ i + 1 \in 1..Len(left)
    BY <1>2, <1>3 DEF rest
  <2>2. left[i + 1] = all[Len(all) - Len(left) + (i + 1)]
    BY <1>2, <2>1
  <2>3. Len(all) - Len(left) + (i + 1) = Len(all) - Len(rest) + i
    BY <1>1, <1>2, <1>3, i \in Int DEF rest
  <2> QED
    BY <2>1, <2>2, <2>3
<1>7. Len(rest) <= Len(all)
  BY <1>1, <1>2, <1>3 DEF rest
<1>8. RestOf(sender, rest)
  BY <1>6, <1>7 DEF RestOf, all
<1> QED
  BY <1>2, <1>3, <1>5, <1>8 DEF rest, first, all

LEMMA TypedSenders ==
  ASSUME NEW P, Complete(P), Typed(P), SendersOK, PartsOK,
         (\E sender \in Sender : SenderStep(sender)) \/ HeartbeatStep
  PROVE  Typed(P)' /\ SendersOK' /\ PartsOK'
<1> USE DEF Complete
<1>1. /\ Heartbeat \in Thread /\ Sender \subseteq Thread /\ Thread = Sender \cup {Heartbeat}
      /\ "free" \notin Thread /\ Heartbeat \notin Sender
  BY ThreadIs
<1>2. /\ UNCHANGED <<inQueue, link, reader>>
  BY DEF SenderStep, HeartbeatStep, AwaitRoom, Lock, SendSome, Unlock, TestQuiet, TryLock
<1>3. PartsOK'
  BY <1>2 DEF reader, PartsOK
<1>4. ASSUME NEW sender \in Sender, AwaitRoom(sender) PROVE Typed(P)' /\ SendersOK'
  <2>1. /\ pc[sender] = "idle" /\ pc' = [pc EXCEPT ![sender] = "lock"] /\ todo[sender] # <<>>
        /\ UNCHANGED <<todo, packet, sentBytes, mutex, beats, outQueue, inQueue, link, reader>>
    BY <1>4 DEF AwaitRoom, Goto
  <2>2. Typed(P)'
    BY <1>1, <2>1 DEF Typed, reader
  <2>3. \A thread : NextId(thread)' = NextId(thread)
    BY <2>1 DEF NextId
  <2> QED
    BY <1>1, <2>1, <2>2, <2>3 DEF SendersOK, TodoOK, MutexOK, NumberOK, Typed
<1>5. ASSUME NEW sender \in Sender, Lock(sender) PROVE Typed(P)' /\ SendersOK'
  <2> DEFINE left == todo[sender]
             first == Head(left)
  <2>1. /\ pc[sender] = "lock" /\ mutex = "free" /\ mutex' = sender
        /\ packet' = [packet EXCEPT ![sender] = first]
        /\ sentBytes' = [sentBytes EXCEPT ![sender] = 0]
        /\ pc' = [pc EXCEPT ![sender] = "send"]
        /\ todo' = [todo EXCEPT ![sender] = Tail(left)]
        /\ UNCHANGED <<beats, outQueue, inQueue, link, reader>>
    BY <1>5 DEF Lock, Begin, Goto
  <2>2. /\ left \in Seq(P) /\ left # <<>> /\ RestOf(sender, left)
    BY <2>1 DEF SendersOK, TodoOK, Typed
  <2> HIDE DEF left
  <2>3. /\ first \in P /\ Tail(left) \in Seq(P) /\ Len(left) \in Nat \ {0}
        /\ Len(Tail(left)) = Len(left) - 1 /\ RestOf(sender, Tail(left))
        /\ first.sender = sender /\ first.id = Len(Outbox[sender]) - Len(left) + 1
    BY <2>2, RestTail DEF first
  <2> HIDE DEF first
  <2>5. Typed(P)'
    <3>1. todo' \in [Sender -> Seq(P)] /\ packet' \in [Thread -> P] /\ sentBytes' \in [Thread -> Nat]
          /\ pc' \in [Thread -> {"idle", "lock", "send"}] /\ mutex' \in Thread
      BY <1>1, <2>1, <2>3 DEF Typed
    <3>2. ASSUME NEW thread \in Thread PROVE sentBytes'[thread] <= Size(packet'[thread])
      <4>1. CASE thread = sender
        <5>1. sentBytes'[sender] = 0 /\ packet'[sender] = first /\ first \in Packet
          BY <1>1, <2>1, <2>3 DEF Typed
        <5> QED
          BY <4>1, <5>1, SizePositive
      <4>2. CASE thread # sender
        BY <2>1, <4>2 DEF Typed
      <4> QED
        BY <4>1, <4>2
    <3> QED
      BY <2>1, <3>1, <3>2 DEF Typed, reader
  <2>6. /\ NextId(sender)' = Len(Outbox[sender]) - (Len(left) - 1) + 1
        /\ \A thread \in Thread : thread # sender => NextId(thread)' = NextId(thread)
    <3>1. todo'[sender] = Tail(left) /\ \A other \in Sender : other # sender => todo'[other] = todo[other]
      BY <2>1 DEF Typed
    <3>2. NextId(sender)' = Len(Outbox[sender]) - Len(Tail(left)) + 1
      BY <1>1, <3>1 DEF NextId
    <3>3. ASSUME NEW thread \in Thread, thread # sender PROVE NextId(thread)' = NextId(thread)
      BY <1>1, <2>1, <3>1, <3>3 DEF NextId
    <3> QED
      BY <2>3, <3>2, <3>3
  <2>7. \A thread \in Thread : pc[thread] # "send"
    BY <1>1, <2>1 DEF SendersOK, TodoOK, MutexOK, NumberOK
  <2>8. ASSUME NEW thread \in Thread
        PROVE  /\ pc'[thread] = "send" <=> mutex' = thread
               /\ pc'[thread] = "send" =>
                    packet'[thread].sender = thread /\ packet'[thread].id = NextId(thread)' - 1
    <3>1. CASE thread = sender
      BY <1>1, <2>1, <2>3, <2>6, <3>1, OutboxIs DEF Typed
    <3>2. CASE thread # sender
      BY <1>1, <2>1, <2>7, <3>2 DEF Typed
    <3> QED
      BY <3>1, <3>2
  <2>9. ASSUME NEW other \in Sender
        PROVE  RestOf(other, todo'[other]) /\ (pc'[other] = "lock" => todo'[other] # <<>>)
    <3>1. CASE other = sender
      BY <1>1, <2>1, <2>3, <3>1 DEF Typed
    <3>2. CASE other # sender
      BY <1>1, <2>1, <3>2 DEF Typed, SendersOK, TodoOK
    <3> QED
      BY <3>1, <3>2
  <2>10. pc'[Heartbeat] = pc[Heartbeat] /\ beats' = beats
    BY <1>1, <2>1 DEF Typed
  <2> QED
    BY <2>5, <2>8, <2>9, <2>10 DEF SendersOK, TodoOK, MutexOK, NumberOK
<1>6. ASSUME NEW thread \in Thread, SendSome(thread) PROVE Typed(P)' /\ SendersOK'
  <2>1. PICK upTo \in (sentBytes[thread] + 1)..Size(packet[thread]) :
          /\ outQueue' = outQueue \o SubSeq(Bytes(packet[thread]), sentBytes[thread] + 1, upTo)
          /\ sentBytes' = [sentBytes EXCEPT ![thread] = upTo]
    BY <1>6 DEF SendSome
  <2>2. UNCHANGED <<pc, todo, packet, mutex, beats, inQueue, link, reader>>
    BY <1>6 DEF SendSome
  <2>3. sentBytes[thread] \in Nat /\ packet[thread] \in P /\ Size(packet[thread]) \in Nat
    BY SizePositive DEF Typed
  <2>4. outQueue' \in Seq(BytesOf(P))
    BY <2>1, <2>3, PieceOfPacket, ConcatProperties DEF Typed
  <2>5. /\ sentBytes' \in [Thread -> Nat]
        /\ \A other \in Thread : sentBytes'[other] <= Size(packet'[other])
    BY <2>1, <2>2, <2>3 DEF Typed
  <2>6. Typed(P)'
    BY <2>2, <2>4, <2>5 DEF Typed, reader
  <2>7. \A other : NextId(other)' = NextId(other)
    BY <2>2 DEF NextId
  <2> QED
    BY <2>2, <2>6, <2>7 DEF SendersOK, TodoOK, MutexOK, NumberOK
<1>7. ASSUME NEW thread \in Thread, Unlock(thread) PROVE Typed(P)' /\ SendersOK'
  <2>1. /\ pc[thread] = "send" /\ mutex' = "free" /\ pc' = [pc EXCEPT ![thread] = "idle"]
        /\ UNCHANGED <<todo, packet, sentBytes, beats, outQueue, inQueue, link, reader>>
    BY <1>7 DEF Unlock, Goto
  <2>2. Typed(P)'
    BY <1>1, <2>1 DEF Typed, reader
  <2>3. \A other : NextId(other)' = NextId(other)
    BY <2>1 DEF NextId
  <2>4. mutex = thread /\ \A other \in Thread : other # thread => pc[other] # "send"
    BY <2>1 DEF SendersOK, TodoOK, MutexOK, NumberOK
  <2> QED
    BY <1>1, <2>1, <2>2, <2>3, <2>4 DEF SendersOK, TodoOK, MutexOK, NumberOK, Typed
<1>8. ASSUME TestQuiet PROVE Typed(P)' /\ SendersOK'
  <2>1. /\ pc[Heartbeat] = "idle" /\ beats < Heartbeats /\ pc' = [pc EXCEPT ![Heartbeat] = "lock"]
        /\ UNCHANGED <<todo, packet, sentBytes, mutex, beats, outQueue, inQueue, link, reader>>
    BY <1>8 DEF TestQuiet, Goto
  <2>2. Typed(P)'
    BY <1>1, <2>1 DEF Typed, reader
  <2>3. \A thread : NextId(thread)' = NextId(thread)
    BY <2>1 DEF NextId
  <2> QED
    BY <1>1, <2>1, <2>2, <2>3 DEF SendersOK, TodoOK, MutexOK, NumberOK, Typed
<1>9. ASSUME TryLock PROVE Typed(P)' /\ SendersOK'
  <2>1. CASE mutex # "free"
    <3>1. /\ pc[Heartbeat] = "lock" /\ pc' = [pc EXCEPT ![Heartbeat] = "idle"]
          /\ UNCHANGED <<todo, packet, sentBytes, mutex, beats, outQueue, inQueue, link, reader>>
      BY <1>9, <2>1 DEF TryLock, Goto
    <3>2. Typed(P)'
      BY <1>1, <3>1 DEF Typed, reader
    <3>3. \A thread : NextId(thread)' = NextId(thread)
      BY <3>1 DEF NextId
    <3> QED
      BY <1>1, <3>1, <3>2, <3>3 DEF SendersOK, TodoOK, MutexOK, NumberOK, Typed
  <2>2. CASE mutex = "free"
    <3>1. /\ pc[Heartbeat] = "lock" /\ mutex' = Heartbeat /\ beats' = beats + 1
          /\ packet' = [packet EXCEPT ![Heartbeat] = Beat(beats + 1)]
          /\ sentBytes' = [sentBytes EXCEPT ![Heartbeat] = 0]
          /\ pc' = [pc EXCEPT ![Heartbeat] = "send"]
          /\ UNCHANGED <<todo, outQueue, inQueue, link, reader>>
      BY <1>9, <2>2 DEF TryLock, Begin, Goto
    <3>2. /\ beats \in Nat /\ Beat(beats + 1) \in P
          /\ Beat(beats + 1).sender = Heartbeat /\ Beat(beats + 1).id = beats + 1
      <4>1. beats \in 0..Heartbeats
        BY DEF Typed
      <4>2. beats \in Nat /\ beats + 1 \in Nat
        BY <4>1, BondLinkAssumption
      <4> QED
        BY <4>2 DEF Beat
    <3>3. beats < Heartbeats /\ Heartbeats \in Nat
      BY <3>1, BondLinkAssumption DEF SendersOK, TodoOK, MutexOK, NumberOK
    <3>4. Typed(P)'
      <4>1. /\ packet' \in [Thread -> P] /\ sentBytes' \in [Thread -> Nat]
            /\ pc' \in [Thread -> {"idle", "lock", "send"}] /\ mutex' \in Thread
            /\ beats' \in 0..Heartbeats
        BY <1>1, <3>1, <3>2, <3>3 DEF Typed
      <4>2. ASSUME NEW thread \in Thread PROVE sentBytes'[thread] <= Size(packet'[thread])
        <5>1. CASE thread = Heartbeat
          <6>1. /\ sentBytes'[Heartbeat] = 0 /\ packet'[Heartbeat] = Beat(beats + 1)
                /\ Beat(beats + 1) \in Packet
            BY <1>1, <3>1, <3>2 DEF Typed
          <6> QED
            BY <5>1, <6>1, SizePositive
        <5>2. CASE thread # Heartbeat
          BY <3>1, <5>2 DEF Typed
        <5> QED
          BY <5>1, <5>2
      <4> QED
        BY <3>1, <4>1, <4>2 DEF Typed, reader
    <3>5. NextId(Heartbeat)' = beats + 2
      BY <3>1, <3>2 DEF NextId
    <3>6. \A thread \in Thread : pc[thread] # "send"
      BY <1>1, <2>2 DEF SendersOK, TodoOK, MutexOK, NumberOK
    <3>7. ASSUME NEW thread \in Thread
          PROVE  /\ pc'[thread] = "send" <=> mutex' = thread
                 /\ pc'[thread] = "send" =>
                      packet'[thread].sender = thread /\ packet'[thread].id = NextId(thread)' - 1
      <4>1. CASE thread = Heartbeat
        BY <1>1, <3>1, <3>2, <3>5, <4>1 DEF Typed
      <4>2. CASE thread # Heartbeat
        BY <1>1, <3>1, <3>6, <4>2 DEF Typed
      <4> QED
        BY <4>1, <4>2
    <3>8. pc'[Heartbeat] # "lock" /\ \A sender \in Sender : pc'[sender] = pc[sender]
      BY <1>1, <3>1 DEF Typed
    <3> QED
      BY <3>1, <3>4, <3>7, <3>8 DEF SendersOK, TodoOK, MutexOK, NumberOK
  <2> QED
    BY <2>1, <2>2 DEF Typed
<1> QED
  BY <1>1, <1>3, <1>4, <1>5, <1>6, <1>7, <1>8, <1>9 DEF SenderStep, HeartbeatStep

LEMMA TypedStep ==
  ASSUME NEW P, Complete(P), Typed(P), SendersOK, PartsOK, [Next]_vars
  PROVE  Typed(P)' /\ SendersOK' /\ PartsOK'
<1>1. CASE (\E sender \in Sender : SenderStep(sender)) \/ HeartbeatStep
  BY <1>1, TypedSenders
<1>2. CASE ReaderStep
  BY <1>2, TypedReader
<1>3. ASSUME UNCHANGED <<senders, reader>>, outQueue' \in Seq(BytesOf(P)),
             inQueue' \in Seq(BytesOf(P)), link' \in {"up", "fin", "reset"}
      PROVE  Typed(P)' /\ SendersOK' /\ PartsOK'
  <2>1. Typed(P)'
    BY <1>3 DEF Typed, senders, reader
  <2>2. UNCHANGED <<pc, todo, packet, mutex, beats, part, buffer, bytesRead>>
    BY <1>3 DEF senders, reader
  <2>3. \A thread : NextId(thread)' = NextId(thread)
    BY <2>2 DEF NextId
  <2> QED
    BY <2>1, <2>2, <2>3 DEF SendersOK, TodoOK, MutexOK, NumberOK, PartsOK
<1>4. CASE Transfer
  <2>1. Head(outQueue) \in BytesOf(P) /\ Tail(outQueue) \in Seq(BytesOf(P))
    BY <1>4, HeadTailProperties DEF Transfer, Typed
  <2>2. Append(inQueue, Head(outQueue)) \in Seq(BytesOf(P))
    BY <2>1, AppendProperties DEF Typed
  <2> QED
    BY <1>3, <1>4, <2>1, <2>2 DEF Transfer, Typed
<1>5. CASE LinkEnds
  <2>1. UNCHANGED <<senders, reader>> /\ link' \in {"up", "fin", "reset"}
    BY <1>5 DEF LinkEnds
  <2>2. outQueue' \in Seq(BytesOf(P)) /\ inQueue' \in Seq(BytesOf(P))
    BY <1>5, EmptySeq DEF LinkEnds, Typed
  <2> QED
    BY <1>3, <2>1, <2>2
<1>6. CASE UNCHANGED vars
  BY <1>3, <1>6 DEF vars, Typed
<1> QED
  BY <1>1, <1>2, <1>4, <1>5, <1>6 DEF Next

LEMMA TypedIsTypeOK == Typed(Packet) => TypeOK
  BY DEF Typed, TypeOK, Parts

(* Type correctness of BondLink, for all packets, those of a refused       *)
(* connection (Bond.cpp:206) included.                                     *)
THEOREM TypeCorrect == Spec => []TypeOK
<1>1. Init => Typed(Packet) /\ SendersOK /\ PartsOK
  BY TypedInit, CompletePacket
<1>2. Typed(Packet) /\ SendersOK /\ PartsOK /\ [Next]_vars
      => Typed(Packet)' /\ SendersOK' /\ PartsOK'
  BY TypedStep, CompletePacket
<1> QED
  BY <1>1, <1>2, TypedIsTypeOK, PTL DEF Spec

----------------------------------------------------------------------------
(* Runs of packets.                                                        *)

LEMMA ByteIs ==
  ASSUME NEW P, P \subseteq Packet, NEW s \in Seq(BytesOf(P)), NEW i \in 1..Len(s)
  PROVE  /\ s[i].packet \in P /\ s[i].at \in Nat \ {0}
         /\ Size(s[i].packet) \in Nat /\ s[i].at <= Size(s[i].packet)
<1>1. s[i] \in BytesOf(P)
  BY ElementOfSeq
<1> QED
  BY <1>1, SizePositive DEF BytesOf

(* What a sender adds goes on with its packet, or begins it after the end  *)
(* of another.                                                             *)
LEMMA RunGoesOn ==
  ASSUME NEW P, P \subseteq Packet, NEW s \in Seq(BytesOf(P)), Run(s),
         NEW p \in P, NEW a \in Nat,
         NEW t \in Seq(BytesOf(P)), t # <<>>, a + Len(t) <= Size(p),
         \A i \in 1..Len(t) : t[i] = [packet |-> p, at |-> a + i],
         \/ a = 0 /\ Whole(s)
         \/ s # <<>> /\ s[Len(s)] = [packet |-> p, at |-> a]
  PROVE  Run(s \o t)
<1> DEFINE r == s \o t
           n == Len(s)
<1>1. /\ n \in Nat /\ Len(r) = n + Len(t) /\ r \in Seq(BytesOf(P))
      /\ \A i \in 1..n : r[i] = s[i]
      /\ \A i \in (n + 1)..Len(r) : r[i] = t[i - n]
  BY ConcatProperties
<1>2. Size(p) \in Nat /\ a \in Nat /\ Len(t) \in Nat \ {0} /\ a + Len(t) <= Size(p)
  BY SizePositive
<1>3. \A i \in (n + 1)..Len(r) : r[i].packet = p /\ r[i].at = a + (i - n)
  <2> SUFFICES ASSUME NEW i \in (n + 1)..Len(r)
               PROVE  r[i].packet = p /\ r[i].at = a + (i - n)
    OBVIOUS
  <2>1. i - n \in 1..Len(t) /\ r[i] = t[i - n]
    BY <1>1
  <2>2. t[i - n] = [packet |-> p, at |-> a + (i - n)]
    BY <2>1
  <2> QED
    BY <2>1, <2>2
<1>4. \A i \in 1..n : /\ s[i].at \in Nat \ {0} /\ Size(s[i].packet) \in Nat
                      /\ s[i].at <= Size(s[i].packet)
  BY ByteIs
<1>5. n > 0 => s # <<>>
  OBVIOUS
<1> HIDE DEF r, n
<1>6. r # <<>> => r[1].at = 1
  <2>1. CASE n = 0
    <3>1. a = 0
      BY <2>1 DEF n
    <3> QED
      BY <1>1, <1>2, <1>3, <2>1, <3>1
  <2>2. CASE n > 0
    BY <1>1, <1>5, <2>2 DEF Run
  <2> QED
    BY <1>1, <2>1, <2>2
<1>7. ASSUME NEW i \in 1..Len(r), NEW j \in 1..Len(r), i <= j, j - i <= Size(r[i].packet) - r[i].at
      PROVE  r[j].packet = r[i].packet /\ r[j].at = r[i].at + (j - i)
  <2>1. i \in Nat /\ j \in Nat
    BY <1>1, <1>2
  <2>2. CASE j <= n
    <3>1. i \in 1..Len(s) /\ j \in 1..Len(s) /\ r[i] = s[i] /\ r[j] = s[j]
      BY <1>1, <1>7, <2>1, <2>2 DEF n
    <3> QED
      BY <1>7, <3>1 DEF Run
  <2>3. CASE i <= n /\ n < j
    <3>1. /\ r[i] = s[i] /\ i \in 1..n /\ n \in 1..n /\ i <= n /\ n - i < j - i
          /\ n - i <= Size(s[i].packet) - s[i].at /\ n - i < Size(s[i].packet) - s[i].at
      <4>1. r[i] = s[i] /\ i \in 1..n /\ n \in 1..n /\ i <= n
        BY <1>1, <2>1, <2>3
      <4>2. s[i].at \in Nat /\ Size(s[i].packet) \in Nat /\ j - i <= Size(s[i].packet) - s[i].at
        BY <1>4, <1>7, <4>1
      <4>3. n \in Int /\ i \in Int /\ j \in Int /\ n < j
        BY <1>1, <2>1, <2>3
      <4>4. n - i < j - i
        BY <4>3
      <4>5. PICK all, at : all = Size(s[i].packet) /\ at = s[i].at
        OBVIOUS
      <4>6. all \in Nat /\ at \in Nat /\ j - i <= all - at
        BY <4>2, <4>5, Zenon
      <4>7. n - i <= all - at /\ n - i < all - at
        BY <4>3, <4>6
      <4> QED
        BY <4>1, <4>4, <4>5, <4>7, Zenon
    <3>2. s[n].packet = s[i].packet /\ s[n].at = s[i].at + (n - i)
      BY <3>1 DEF Run, n
    <3>3. s[n].at # Size(s[n].packet)
      <4>1. n \in Int /\ i \in Int /\ s[i].at \in Int /\ Size(s[i].packet) \in Int
        BY <1>1, <1>4, <2>1, <3>1
      <4>2. s[i].at + (n - i) < Size(s[i].packet)
        <5>1. n - i < Size(s[i].packet) - s[i].at
          BY <3>1
        <5> QED
          BY <4>1, <5>1
      <4> QED
        BY <3>2, <4>1, <4>2
    <3>4. s[n].packet = p /\ s[n].at = a
      BY <1>5, <3>1, <3>3 DEF Whole, n
    <3>5. r[j].packet = p /\ r[j].at = a + (j - n)
      BY <1>1, <1>2, <1>3, <2>1, <2>3
    <3> QED
      <4>1. s[i].at \in Nat /\ s[i].packet = p /\ a = s[i].at + (n - i)
        BY <1>4, <3>1, <3>2, <3>4
      <4>2. n \in Int /\ i \in Int /\ j \in Int
        BY <1>1, <2>1
      <4>3. ASSUME NEW at \in Nat, a = at + (n - i) PROVE a + (j - n) = at + (j - i)
        BY <4>2, <4>3
      <4> QED
        BY <3>1, <3>5, <4>1, <4>3
  <2>4. CASE n < i
    <3>1. r[i].packet = p /\ r[i].at = a + (i - n)
      BY <1>1, <1>2, <1>3, <2>1, <2>4
    <3>2. r[j].packet = p /\ r[j].at = a + (j - n)
      BY <1>1, <1>2, <1>3, <1>7, <2>1, <2>4
    <3> QED
      BY <1>1, <1>2, <2>1, <3>1, <3>2
  <2> QED
    BY <1>1, <2>1, <2>2, <2>3, <2>4
<1>8. ASSUME NEW i \in 1..(Len(r) - 1), r[i].at = Size(r[i].packet)
      PROVE  r[i+1].at = 1
  <2>1. i \in Nat
    BY <1>1, <1>2
  <2>2. CASE i < n
    <3>1. i \in 1..(n - 1) /\ r[i] = s[i] /\ r[i+1] = s[i+1]
      BY <1>1, <2>1, <2>2
    <3> QED
      BY <1>8, <3>1 DEF Run, n
  <2>3. CASE i = n
    <3>1. r[n] = s[n] /\ n # 0 /\ n + 1 \in (n + 1)..Len(r)
      BY <1>1, <1>2, <2>1, <2>3
    <3>2. a = 0
      <4>1. CASE s[n] = [packet |-> p, at |-> a]
        BY <1>2, <1>8, <2>3, <3>1, <4>1
      <4> QED
        BY <4>1 DEF n
    <3>3. r[n+1].at = a + ((n + 1) - n)
      BY <1>3, <3>1
    <3> QED
      BY <1>1, <2>3, <3>2, <3>3
  <2>4. CASE n < i
    <3>1. r[i].packet = p /\ r[i].at = a + (i - n)
      BY <1>1, <1>2, <1>3, <2>1, <2>4
    <3> QED
      BY <1>1, <1>2, <1>8, <2>1, <2>4, <3>1
  <2> QED
    BY <1>1, <2>1, <2>2, <2>3, <2>4
<1>9. Run(r)
  BY <1>6, <1>7, <1>8 DEF Run
<1> QED
  BY <1>9 DEF r

(* The first bytes of a run are one.                                       *)
LEMMA RunBegins ==
  ASSUME NEW P, P \subseteq Packet, NEW s \in Seq(BytesOf(P)), NEW t \in Seq(BytesOf(P)), Run(s \o t)
  PROVE  Run(s)
<1>1. /\ Len(s) \in Nat /\ Len(t) \in Nat /\ Len(s \o t) = Len(s) + Len(t)
      /\ \A i \in 1..Len(s) : (s \o t)[i] = s[i]
  BY ConcatProperties
<1> DEFINE r == s \o t
<1>2. /\ r # <<>> => r[1].at = 1
      /\ \A i, j \in 1..Len(r) :
           i <= j /\ j - i <= Size(r[i].packet) - r[i].at =>
             r[j].packet = r[i].packet /\ r[j].at = r[i].at + (j - i)
      /\ \A i \in 1..(Len(r) - 1) : r[i].at = Size(r[i].packet) => r[i+1].at = 1
  BY DEF Run
<1>3. s # <<>> => r # <<>> /\ 1 \in 1..Len(s)
  BY <1>1
<1> HIDE DEF r
<1>4. /\ Len(r) = Len(s) + Len(t) /\ \A i \in 1..Len(s) : r[i] = s[i]
  BY <1>1 DEF r
<1>5. s # <<>> => s[1].at = 1
  BY <1>2, <1>3, <1>4
<1>6. ASSUME NEW i \in 1..Len(s), NEW j \in 1..Len(s),
             i <= j, j - i <= Size(s[i].packet) - s[i].at
      PROVE  s[j].packet = s[i].packet /\ s[j].at = s[i].at + (j - i)
  <2>1. i \in 1..Len(r) /\ j \in 1..Len(r) /\ r[i] = s[i] /\ r[j] = s[j]
    BY <1>1, <1>4
  <2>2. j - i <= Size(r[i].packet) - r[i].at
    BY <1>6, <2>1
  <2>3. r[j].packet = r[i].packet /\ r[j].at = r[i].at + (j - i)
    BY <1>2, <1>6, <2>1, <2>2
  <2> QED
    BY <2>1, <2>3
<1>7. ASSUME NEW i \in 1..(Len(s) - 1) PROVE s[i].at = Size(s[i].packet) => s[i+1].at = 1
  <2>1. i \in 1..(Len(r) - 1) /\ i \in 1..Len(s) /\ i + 1 \in 1..Len(s)
    BY <1>1, <1>4
  <2>2. r[i] = s[i] /\ r[i+1] = s[i+1]
    BY <1>4, <2>1
  <2> QED
    BY <1>2, <2>1, <2>2
<1> QED
  BY <1>5, <1>6, <1>7 DEF Run

(* After a whole packet a run goes on as a run.                            *)
LEMMA RunAfterPacket ==
  ASSUME NEW P, P \subseteq Packet, NEW s \in Seq(BytesOf(P)), NEW t \in Seq(BytesOf(P)),
         s # <<>>, Whole(s), Run(s \o t)
  PROVE  Run(t)
<1> DEFINE r == s \o t
           n == Len(s)
<1>1. /\ n \in Nat \ {0} /\ Len(t) \in Nat /\ Len(r) = n + Len(t)
      /\ r[n] = s[n] /\ \A i \in 1..Len(t) : r[n + i] = t[i]
  <2>1. n \in Nat \ {0}
    BY EmptySeq
  <2> QED
    BY <2>1, ConcatProperties
<1>2. /\ r # <<>> => r[1].at = 1
      /\ \A i, j \in 1..Len(r) :
           i <= j /\ j - i <= Size(r[i].packet) - r[i].at =>
             r[j].packet = r[i].packet /\ r[j].at = r[i].at + (j - i)
      /\ \A i \in 1..(Len(r) - 1) : r[i].at = Size(r[i].packet) => r[i+1].at = 1
  BY DEF Run
<1>3. s[n].at = Size(s[n].packet)
  BY DEF Whole
<1>4. t # <<>> => Len(t) >= 1
  BY EmptySeq
<1> HIDE DEF r, n
<1>5. t # <<>> => t[1].at = 1
  <2> SUFFICES ASSUME t # <<>> PROVE t[1].at = 1
    OBVIOUS
  <2>1. n \in 1..(Len(r) - 1) /\ 1 \in 1..Len(t)
    BY <1>1, <1>4
  <2>2. r[n+1].at = 1
    BY <1>1, <1>2, <1>3, <2>1
  <2> QED
    BY <1>1, <2>1, <2>2
<1>6. ASSUME NEW i \in 1..Len(t), NEW j \in 1..Len(t),
             i <= j, j - i <= Size(t[i].packet) - t[i].at
      PROVE  t[j].packet = t[i].packet /\ t[j].at = t[i].at + (j - i)
  <2>1. /\ n + i \in 1..Len(r) /\ n + j \in 1..Len(r) /\ r[n + i] = t[i] /\ r[n + j] = t[j]
        /\ n + i <= n + j /\ (n + j) - (n + i) = j - i
    BY <1>1, <1>6
  <2> QED
    BY <1>2, <1>6, <2>1
<1>7. ASSUME NEW i \in 1..(Len(t) - 1), t[i].at = Size(t[i].packet) PROVE t[i+1].at = 1
  <2>1. /\ n + i \in 1..(Len(r) - 1) /\ r[n + i] = t[i] /\ r[n + (i + 1)] = t[i + 1]
        /\ (n + i) + 1 = n + (i + 1)
    BY <1>1
  <2> QED
    BY <1>2, <1>7, <2>1
<1> QED
  BY <1>5, <1>6, <1>7 DEF Run

(* A run begins with the bytes of one packet.                              *)
LEMMA FirstOfRun ==
  ASSUME NEW P, P \subseteq Packet, NEW s \in Seq(BytesOf(P)), Run(s), s # <<>>
  PROVE  \A i \in 1..Len(s) : i <= Size(s[1].packet) => s[i] = [packet |-> s[1].packet, at |-> i]
<1> SUFFICES ASSUME NEW i \in 1..Len(s), i <= Size(s[1].packet)
             PROVE  s[i] = [packet |-> s[1].packet, at |-> i]
  OBVIOUS
<1>1. 1 \in 1..Len(s) /\ s[1].at = 1
  BY DEF Run
<1>2. Size(s[1].packet) \in Nat
  BY <1>1, ByteIs
<1>3. s[i].packet = s[1].packet /\ s[i].at = s[1].at + (i - 1)
  BY <1>1, <1>2 DEF Run
<1>4. s[i] \in BytesOf(P)
  BY ElementOfSeq
<1> QED
  BY <1>1, <1>3, <1>4 DEF BytesOf

(* In a run every byte is followed by the next one of its packet, or the   *)
(* last one by the first one of another.                                   *)
LEMMA RunIsAligned ==
  ASSUME NEW P, P \subseteq Packet, NEW s \in Seq(BytesOf(P)), Run(s), NEW i \in 1..(Len(s) - 1)
  PROVE  \/ s[i+1].packet = s[i].packet /\ s[i+1].at = s[i].at + 1
         \/ s[i].at = Size(s[i].packet) /\ s[i+1].at = 1
<1>1. i \in 1..Len(s) /\ i + 1 \in 1..Len(s) /\ i <= i + 1 /\ (i + 1) - i = 1
  OBVIOUS
<1>2. s[i].at \in Nat /\ Size(s[i].packet) \in Nat /\ s[i].at <= Size(s[i].packet)
  BY <1>1, ByteIs
<1>3. CASE s[i].at = Size(s[i].packet)
  BY <1>3 DEF Run
<1>4. CASE s[i].at < Size(s[i].packet)
  <2>1. (i + 1) - i <= Size(s[i].packet) - s[i].at
    BY <1>1, <1>2, <1>4
  <2>2. s[i+1].packet = s[i].packet /\ s[i+1].at = s[i].at + ((i + 1) - i)
    BY <1>1, <2>1 DEF Run
  <2> QED
    BY <1>1, <2>2
<1> QED
  BY <1>2, <1>3, <1>4

----------------------------------------------------------------------------
(* What a step does to the stream.                                         *)

LEMMA Reassociated ==
  ASSUME NEW S
  PROVE  \A s, t, u \in Seq(S) : (s \o t) \o u = s \o (t \o u)
  BY ConcatAssociative

LEMMA StreamIs ==
  ASSUME NEW P, Typed(P)
  PROVE  /\ Stream \in Seq(BytesOf(P)) /\ inQueue \o outQueue \in Seq(BytesOf(P))
         /\ Stream = buffer \o (inQueue \o outQueue)
         /\ Len(buffer) \in Nat /\ Len(buffer) <= Len(Stream)
         /\ \A i \in 1..Len(buffer) : Stream[i] = buffer[i]
<1> DEFINE B == BytesOf(P)
<1>1. buffer \in Seq(B) /\ inQueue \in Seq(B) /\ outQueue \in Seq(B)
  BY DEF Typed
<1> HIDE DEF B
<1>2. inQueue \o outQueue \in Seq(B) /\ buffer \o inQueue \in Seq(B)
  BY <1>1, ConcatProperties
<1>3. \A s, t, u \in Seq(B) : (s \o t) \o u = s \o (t \o u)
  BY Reassociated
<1>4. Stream = buffer \o (inQueue \o outQueue)
  BY <1>1, <1>3, Zenon DEF Stream
<1>5. Stream \in Seq(B)
  BY <1>1, <1>2, ConcatProperties DEF Stream
<1>6. /\ Len(buffer) \in Nat /\ Len(buffer) <= Len(buffer \o (inQueue \o outQueue))
      /\ \A i \in 1..Len(buffer) : (buffer \o (inQueue \o outQueue))[i] = buffer[i]
  BY <1>1, <1>2, ConcatProperties
<1>7. /\ Len(buffer) \in Nat /\ Len(buffer) <= Len(Stream)
      /\ \A i \in 1..Len(buffer) : Stream[i] = buffer[i]
  BY <1>4, <1>6, Zenon
<1> QED
  BY <1>2, <1>4, <1>5, <1>7 DEF B

LEMMA Moved ==
  ASSUME NEW S, NEW q \in Seq(S), NEW o \in Seq(S), o # <<>>
  PROVE  Append(q, Head(o)) \o Tail(o) = q \o o
<1>1. /\ Append(q, Head(o)) \in Seq(S) /\ Len(Append(q, Head(o))) = Len(q) + 1
      /\ Tail(o) \in Seq(S) /\ Len(Tail(o)) = Len(o) - 1
      /\ Len(o) \in Nat \ {0} /\ Len(q) \in Nat
  BY HeadTailProperties, AppendProperties
<1>2. \A i \in 1..(Len(q) + Len(o)) : (Append(q, Head(o)) \o Tail(o))[i] = (q \o o)[i]
  BY <1>1
<1>3. /\ Append(q, Head(o)) \o Tail(o) \in Seq(S) /\ q \o o \in Seq(S)
      /\ Len(Append(q, Head(o)) \o Tail(o)) = Len(q) + Len(o) /\ Len(q \o o) = Len(q) + Len(o)
  BY <1>1, ConcatProperties
<1> QED
  BY <1>2, <1>3, SeqEqual

LEMMA TransferStream ==
  ASSUME NEW P, Typed(P), Typed(P)', Transfer
  PROVE  Stream' = Stream
<1> DEFINE B == BytesOf(P)
<1>1. /\ inQueue' \o outQueue' = inQueue \o outQueue
      /\ buffer' = buffer
  BY Moved DEF Transfer, Typed, reader
<1>2. buffer \in Seq(B) /\ inQueue \in Seq(B) /\ outQueue \in Seq(B)
  BY DEF Typed
<1>3. buffer \in Seq(B) /\ inQueue' \in Seq(B) /\ outQueue' \in Seq(B)
  BY DEF Typed
<1> HIDE DEF B
<1>4. \A s, t, u \in Seq(B) : (s \o t) \o u = s \o (t \o u)
  BY Reassociated
<1>5. (buffer \o inQueue) \o outQueue = buffer \o (inQueue \o outQueue)
  BY <1>2, <1>4, Zenon
<1>6. (buffer \o inQueue') \o outQueue' = buffer \o (inQueue' \o outQueue')
  BY <1>3, <1>4, Zenon
<1> QED
  BY <1>1, <1>5, <1>6, Zenon DEF Stream

LEMMA RecvStream ==
  ASSUME NEW P, P \subseteq Packet, Typed(P), PartsOK, RecvSome
  PROVE  Stream' = Stream
<1>1. PICK count \in 1..(Wanted - bytesRead) :
        /\ count <= Len(inQueue)
        /\ buffer' = buffer \o SubSeq(inQueue, 1, count)
        /\ inQueue' = SubSeq(inQueue, count + 1, Len(inQueue))
  BY DEF RecvSome
<1>2. count \in 1..Len(inQueue)
  BY <1>1, WantedNat DEF Typed
<1>3. buffer \in Seq(BytesOf(P)) /\ inQueue \in Seq(BytesOf(P))
  BY DEF Typed
<1>4. (buffer \o SubSeq(inQueue, 1, count)) \o SubSeq(inQueue, count + 1, Len(inQueue))
        = buffer \o inQueue
  <2> DEFINE B == BytesOf(P)
             first == SubSeq(inQueue, 1, count)
             rest == SubSeq(inQueue, count + 1, Len(inQueue))
  <2>1. buffer \in Seq(B) /\ first \in Seq(B) /\ rest \in Seq(B)
    BY <1>2, <1>3, SubSeqProperties
  <2>2. first \o rest = inQueue
    BY <1>2, <1>3, ConcatAdjacentSubSeq, SubSeqFull
  <2> HIDE DEF B, first, rest
  <2>3. \A s, t, u \in Seq(B) : (s \o t) \o u = s \o (t \o u)
    BY Reassociated
  <2>4. (buffer \o first) \o rest = buffer \o inQueue
    BY <2>1, <2>2, <2>3, Zenon
  <2> QED
    BY <2>4 DEF first, rest
<1> QED
  BY <1>1, <1>4 DEF Stream, RecvSome

LEMMA SendStream ==
  ASSUME NEW P, P \subseteq Packet, Typed(P), NEW piece \in Seq(BytesOf(P)),
         outQueue' = outQueue \o piece, UNCHANGED <<buffer, inQueue>>
  PROVE  Stream' = Stream \o piece
<1> DEFINE B == BytesOf(P)
           front == buffer \o inQueue
<1>1. front \in Seq(B) /\ outQueue \in Seq(B) /\ piece \in Seq(B)
  BY ConcatProperties DEF Typed
<1>2. Stream' = front \o outQueue' /\ Stream = front \o outQueue
  BY DEF Stream
<1> HIDE DEF B, front
<1>3. \A s, t, u \in Seq(B) : (s \o t) \o u = s \o (t \o u)
  BY Reassociated
<1>4. (front \o outQueue) \o piece = front \o (outQueue \o piece)
  BY <1>1, <1>3, Zenon
<1> QED
  BY <1>2, <1>4, Zenon

LEMMA TakeStream ==
  ASSUME NEW P, P \subseteq Packet, Typed(P), TakePacket, UNCHANGED <<inQueue, outQueue>>
  PROVE  Stream = buffer \o Stream' /\ Stream' \in Seq(BytesOf(P))
<1>1. Stream' = inQueue \o outQueue
  <2>1. <<>> \o inQueue = inQueue
    BY ConcatEmptySeq DEF Typed
  <2> QED
    BY <2>1 DEF Stream, TakePacket
<1> QED
  BY <1>1, StreamIs

LEMMA ResetStream ==
  ASSUME NEW P, P \subseteq Packet, Typed(P), inQueue' = <<>>, outQueue' = <<>>, buffer' = buffer
  PROVE  Stream' = buffer
<1>1. buffer \o <<>> = buffer
  BY ConcatEmptySeq DEF Typed
<1> QED
  BY <1>1 DEF Stream

(* What the reader has are the first bytes of a packet.                    *)
LEMMA ReadingIs ==
  ASSUME NEW P, P \subseteq Packet, Typed(P), Run(Stream), Len(buffer) >= 1
  PROVE  /\ Reading \in P /\ Stream # <<>> /\ Reading = Stream[1].packet
         /\ \A i \in 1..Len(buffer) : i <= Size(Reading) => buffer[i] = [packet |-> Reading, at |-> i]
         /\ Len(buffer) <= Size(Reading) =>
              buffer = SubSeq(Bytes(Reading), 1, Len(buffer))
         /\ Len(buffer) = Size(Reading) => buffer = Bytes(Reading) /\ Whole(buffer)
<1> DEFINE n == Len(buffer)
           p == Reading
<1>1. n \in Nat /\ n >= 1 /\ n <= Len(Stream) /\ buffer[1] = Stream[1] /\ buffer \in Seq(BytesOf(P))
  <2>1. /\ Len(buffer) \in Nat /\ Len(buffer) <= Len(Stream)
        /\ \A i \in 1..Len(buffer) : Stream[i] = buffer[i]
    BY StreamIs
  <2>2. buffer \in Seq(BytesOf(P))
    BY DEF Typed
  <2>3. 1 \in 1..Len(buffer)
    BY <2>1
  <2> QED
    BY <2>1, <2>2, <2>3
<1>2. Stream # <<>> /\ p = Stream[1].packet /\ Stream \in Seq(BytesOf(P))
  <2>1. Stream \in Seq(BytesOf(P))
    BY StreamIs
  <2>2. Stream # <<>>
    BY <1>1, EmptySeq
  <2> QED
    BY <1>1, <2>1, <2>2 DEF Reading
<1>3. p \in P /\ Size(p) \in Nat
  BY <1>1, <1>2, ByteIs, SizePositive
<1>4. \A i \in 1..n : i <= Size(p) => buffer[i] = [packet |-> p, at |-> i]
  <2>1. \A i \in 1..Len(Stream) : i <= Size(p) => Stream[i] = [packet |-> p, at |-> i]
    BY <1>2, FirstOfRun
  <2>2. \A i \in 1..n : Stream[i] = buffer[i] /\ i \in 1..Len(Stream)
    BY <1>1, StreamIs
  <2> HIDE DEF n, p
  <2> QED
    BY <2>1, <2>2
<1>5. /\ Bytes(p) \in Seq(BytesOf(P)) /\ Len(Bytes(p)) = Size(p)
      /\ \A i \in 1..Size(p) : Bytes(p)[i] = [packet |-> p, at |-> i]
  BY <1>3, BytesOfPacket
<1>6. ASSUME n <= Size(p) PROVE buffer = SubSeq(Bytes(p), 1, n)
  <2>1. n \in 1..Size(p)
    BY <1>1, <1>3, <1>6
  <2>2. \A i \in 1..n : Bytes(p)[i] \in BytesOf(P)
    BY <1>5, <2>1
  <2>3. /\ SubSeq(Bytes(p), 1, n) \in Seq(BytesOf(P)) /\ Len(SubSeq(Bytes(p), 1, n)) = n
        /\ \A i \in 1..n : SubSeq(Bytes(p), 1, n)[i] = Bytes(p)[i]
    BY <1>1, <2>2, SubSeqProperties
  <2>4. \A i \in 1..n : SubSeq(Bytes(p), 1, n)[i] = buffer[i]
    BY <1>3, <1>4, <1>5, <2>1, <2>3
  <2> QED
    BY <1>1, <2>3, <2>4, SeqEqual
<1>7. ASSUME n = Size(p) PROVE buffer = Bytes(p) /\ Whole(buffer)
  <2>1. \A i \in 1..n : Bytes(p)[i] = buffer[i]
    BY <1>4, <1>5, <1>7
  <2>2. buffer = Bytes(p)
    BY <1>1, <1>5, <1>7, <2>1, SeqEqual
  <2>3. n \in 1..n /\ n <= Size(p)
    BY <1>1, <1>3, <1>7
  <2>4. buffer[n] = [packet |-> p, at |-> n]
    BY <1>4, <2>3
  <2> QED
    BY <1>7, <2>2, <2>4 DEF Whole
<1> QED
  BY <1>2, <1>3, <1>4, <1>6, <1>7

----------------------------------------------------------------------------
(* The stream stays aligned.                                               *)

LEMMA SoundSubset == Sound \subseteq Packet
  BY DEF Sound

LEMMA AlignedInit == SizesAgree /\ Init => AlignedInv
<1> SUFFICES ASSUME SizesAgree, Init PROVE AlignedInv
  OBVIOUS
<1>1. Stream = <<>>
  BY DEF Init, Stream
<1>2. \A thread \in Thread : ~Amid(thread)
  BY DEF Init, Amid
<1>3. Run(<<>>) /\ Whole(<<>>)
  BY DEF Run, Whole
<1> QED
  BY <1>1, <1>2, <1>3, BondLinkAssumption DEF Init, AlignedInv, EndOK, ReaderOK

(* A step that changes neither the stream nor who is amid a packet.        *)
LEMMA EndStays ==
  ASSUME EndOK, Stream' = Stream,
         \A thread \in Thread :
           \/ ~Amid(thread) /\ ~Amid(thread)'
           \/ UNCHANGED <<pc[thread], packet[thread], sentBytes[thread]>>
  PROVE  EndOK'
<1>1. \A thread \in Thread : Amid(thread)' <=> Amid(thread)
  BY DEF Amid
<1>2. \A thread \in Thread : Amid(thread)' =>
        Stream' # <<>> /\ Stream'[Len(Stream')] = [packet |-> packet'[thread], at |-> sentBytes'[thread]]
  BY <1>1 DEF EndOK
<1>3. (\A thread \in Thread : ~Amid(thread)') => Whole(Stream)
  BY <1>1 DEF EndOK
<1>4. Whole(Stream)' <=> Whole(Stream)
  BY DEF Whole
<1> QED
  BY <1>2, <1>3, <1>4 DEF EndOK

(* A sender that waits, or takes or releases the mutex.                    *)
LEMMA NothingSent ==
  ASSUME SoundInv,
         \/ \E sender \in Sender : AwaitRoom(sender) \/ Lock(sender)
         \/ \E thread \in Thread : Unlock(thread)
         \/ TestQuiet \/ TryLock
  PROVE  /\ Stream' = Stream /\ UNCHANGED <<inQueue, link, reader>>
         /\ \A thread \in Thread :
              \/ ~Amid(thread) /\ ~Amid(thread)'
              \/ UNCHANGED <<pc[thread], packet[thread], sentBytes[thread]>>
<1>1. UNCHANGED <<outQueue, inQueue, link, reader>>
  BY DEF AwaitRoom, Lock, Unlock, TestQuiet, TryLock
<1>2. Stream' = Stream
  BY <1>1 DEF Stream, reader
<1>3. ASSUME NEW who \in Thread, \A thread \in Thread : thread # who =>
                UNCHANGED <<pc[thread], packet[thread], sentBytes[thread]>>,
             ~Amid(who) /\ ~Amid(who)'
      PROVE  \A thread \in Thread :
               \/ ~Amid(thread) /\ ~Amid(thread)'
               \/ UNCHANGED <<pc[thread], packet[thread], sentBytes[thread]>>
  BY <1>3
<1>4. ASSUME NEW sender \in Sender, AwaitRoom(sender) \/ Lock(sender)
      PROVE  \A thread \in Thread :
               \/ ~Amid(thread) /\ ~Amid(thread)'
               \/ UNCHANGED <<pc[thread], packet[thread], sentBytes[thread]>>
  <2>1. sender \in Thread
    BY ThreadIs
  <2>2. pc[sender] # "send" /\ (pc'[sender] # "send" \/ sentBytes'[sender] = 0)
    BY <1>4, <2>1 DEF AwaitRoom, Lock, Begin, Goto, SoundInv, Typed
  <2>3. \A thread \in Thread : thread # sender =>
          UNCHANGED <<pc[thread], packet[thread], sentBytes[thread]>>
    BY <1>4 DEF AwaitRoom, Lock, Begin, Goto, SoundInv, Typed
  <2>4. ~Amid(sender) /\ ~Amid(sender)'
    BY <2>2 DEF Amid
  <2> QED
    BY <1>3, <2>1, <2>3, <2>4
<1>5. ASSUME NEW sender \in Thread, Unlock(sender)
      PROVE  \A thread \in Thread :
               \/ ~Amid(thread) /\ ~Amid(thread)'
               \/ UNCHANGED <<pc[thread], packet[thread], sentBytes[thread]>>
  <2>1. sentBytes[sender] = Size(packet[sender]) /\ pc'[sender] # "send"
    BY <1>5 DEF Unlock, Goto, SoundInv, Typed
  <2>2. Size(packet[sender]) \in Nat
    BY SizePositive, SoundSubset DEF SoundInv, Typed
  <2>3. \A thread \in Thread : thread # sender =>
          UNCHANGED <<pc[thread], packet[thread], sentBytes[thread]>>
    BY <1>5 DEF Unlock, Goto, SoundInv, Typed
  <2>4. ~Amid(sender) /\ ~Amid(sender)'
    BY <2>1, <2>2 DEF Amid
  <2> QED
    BY <1>3, <2>3, <2>4
<1>6. ASSUME TestQuiet \/ TryLock
      PROVE  \A thread \in Thread :
               \/ ~Amid(thread) /\ ~Amid(thread)'
               \/ UNCHANGED <<pc[thread], packet[thread], sentBytes[thread]>>
  <2>1. Heartbeat \in Thread
    BY ThreadIs
  <2>2. pc[Heartbeat] # "send" /\ (pc'[Heartbeat] # "send" \/ sentBytes'[Heartbeat] = 0)
    BY <1>6, <2>1 DEF TestQuiet, TryLock, Begin, Goto, SoundInv, Typed
  <2>3. \A thread \in Thread : thread # Heartbeat =>
          UNCHANGED <<pc[thread], packet[thread], sentBytes[thread]>>
    BY <1>6 DEF TestQuiet, TryLock, Begin, Goto, SoundInv, Typed
  <2>4. ~Amid(Heartbeat) /\ ~Amid(Heartbeat)'
    BY <2>2 DEF Amid
  <2> QED
    BY <1>3, <2>1, <2>3, <2>4
<1> QED
  BY <1>1, <1>2, <1>4, <1>5, <1>6

(* What one Send hands over.                                               *)
LEMMA SomeSent ==
  ASSUME SoundInv, NEW thread \in Thread, SendSome(thread)
  PROVE  \E piece \in Seq(BytesOf(Sound)) :
           /\ piece # <<>> /\ sentBytes[thread] + Len(piece) <= Size(packet[thread])
           /\ \A i \in 1..Len(piece) :
                piece[i] = [packet |-> packet[thread], at |-> sentBytes[thread] + i]
           /\ sentBytes' = [sentBytes EXCEPT ![thread] = sentBytes[thread] + Len(piece)]
           /\ Stream' = Stream \o piece
<1>1. PICK upTo \in (sentBytes[thread] + 1)..Size(packet[thread]) :
        /\ outQueue' = outQueue \o SubSeq(Bytes(packet[thread]), sentBytes[thread] + 1, upTo)
        /\ sentBytes' = [sentBytes EXCEPT ![thread] = upTo]
  BY DEF SendSome
<1>2. sentBytes[thread] \in Nat /\ packet[thread] \in Sound /\ Size(packet[thread]) \in Nat
  BY SizePositive, SoundSubset DEF SoundInv, Typed
<1> DEFINE piece == SubSeq(Bytes(packet[thread]), sentBytes[thread] + 1, upTo)
<1>3. /\ piece \in Seq(BytesOf(Sound)) /\ Len(piece) = upTo - sentBytes[thread]
      /\ \A i \in 1..(upTo - sentBytes[thread]) :
           piece[i] = [packet |-> packet[thread], at |-> sentBytes[thread] + i]
  <2> DEFINE a == sentBytes[thread]
             p == packet[thread]
  <2>1. a \in Nat /\ p \in Sound /\ upTo \in (a + 1)..Size(p) /\ Sound \subseteq Packet
    BY <1>2, SoundSubset
  <2> HIDE DEF a, p
  <2>2. /\ SubSeq(Bytes(p), a + 1, upTo) \in Seq(BytesOf(Sound))
        /\ Len(SubSeq(Bytes(p), a + 1, upTo)) = upTo - a
        /\ \A i \in 1..(upTo - a) :
             SubSeq(Bytes(p), a + 1, upTo)[i] = [packet |-> p, at |-> a + i]
    <3>1. \A q \in Sound : \A from \in Nat : \A to \in (from + 1)..Size(q) :
            /\ SubSeq(Bytes(q), from + 1, to) \in Seq(BytesOf(Sound))
            /\ Len(SubSeq(Bytes(q), from + 1, to)) = to - from
            /\ \A i \in 1..(to - from) :
                 SubSeq(Bytes(q), from + 1, to)[i] = [packet |-> q, at |-> from + i]
      BY <2>1, PieceOfPacket
    <3> QED
      BY <2>1, <3>1, Zenon
  <2> QED
    BY <2>2 DEF a, p
<1> HIDE DEF piece
<1>4. /\ upTo \in Nat /\ Len(piece) > 0 /\ upTo = sentBytes[thread] + Len(piece)
      /\ upTo <= Size(packet[thread])
  BY <1>2, <1>3
<1>5. Stream' = Stream \o piece
  <2>1. UNCHANGED <<buffer, inQueue>>
    BY DEF SendSome, reader
  <2>2. outQueue' = outQueue \o piece
    BY <1>1 DEF piece
  <2> QED
    BY <1>3, <2>1, <2>2, SendStream, SoundSubset DEF SoundInv
<1>6. piece # <<>>
  BY <1>4
<1> QED
  BY <1>1, <1>3, <1>4, <1>5, <1>6

LEMMA SendKeepsAligned ==
  ASSUME SoundInv, AlignedInv, NEW thread \in Thread, SendSome(thread)
  PROVE  AlignedInv'
<1>1. PICK piece \in Seq(BytesOf(Sound)) :
        /\ piece # <<>> /\ sentBytes[thread] + Len(piece) <= Size(packet[thread])
        /\ \A i \in 1..Len(piece) :
             piece[i] = [packet |-> packet[thread], at |-> sentBytes[thread] + i]
        /\ sentBytes' = [sentBytes EXCEPT ![thread] = sentBytes[thread] + Len(piece)]
        /\ Stream' = Stream \o piece
  BY SomeSent
<1> DEFINE a == sentBytes[thread]
           p == packet[thread]
<1>2. /\ a \in Nat /\ p \in Sound /\ p \in Packet /\ Size(p) \in Nat
      /\ Len(piece) \in Nat \ {0} /\ Stream \in Seq(BytesOf(Sound))
  <2>1. p \in Sound /\ a \in Nat
    BY DEF SoundInv, Typed
  <2>2. Stream \in Seq(BytesOf(Sound))
    BY StreamIs DEF SoundInv
  <2>3. Len(piece) \in Nat \ {0}
    BY <1>1, EmptySeq
  <2> QED
    BY <2>1, <2>2, <2>3, SizePositive, SoundSubset
<1>3. pc[thread] = "send" /\ link = "up" /\ UNCHANGED <<pc, packet, link, reader>>
  BY DEF SendSome
<1>4. \A other \in Thread : other # thread => pc[other] # "send"
  BY <1>3 DEF SoundInv, SendersOK, MutexOK
<1>5. \/ a = 0 /\ Whole(Stream)
      \/ Stream # <<>> /\ Stream[Len(Stream)] = [packet |-> p, at |-> a]
  <2>1. CASE a = 0
    <3>1. \A other \in Thread : ~Amid(other)
      BY <1>4, <2>1 DEF Amid
    <3> QED
      BY <1>3, <2>1, <3>1 DEF AlignedInv, EndOK
  <2>2. CASE a > 0
    <3>1. Amid(thread)
      BY <1>1, <1>2, <1>3, <2>2 DEF Amid
    <3> QED
      BY <1>3, <3>1 DEF AlignedInv, EndOK
  <2> QED
    BY <1>2, <2>1, <2>2
<1> HIDE DEF a, p
<1>6. Run(Stream \o piece)
  <2>1. a + Len(piece) <= Size(p) /\ \A i \in 1..Len(piece) : piece[i] = [packet |-> p, at |-> a + i]
    BY <1>1 DEF a, p
  <2>2. Run(Stream)
    BY DEF AlignedInv
  <2> QED
    BY <1>1, <1>2, <1>5, <2>1, <2>2, SoundSubset, RunGoesOn
<1>7. /\ Stream' # <<>>
      /\ Stream'[Len(Stream')] = [packet |-> p, at |-> a + Len(piece)]
  <2> DEFINE s == Stream
  <2>1. s \in Seq(BytesOf(Sound)) /\ piece \in Seq(BytesOf(Sound)) /\ Len(piece) \in Nat \ {0}
    BY <1>2
  <2>2. piece[Len(piece)] = [packet |-> p, at |-> a + Len(piece)]
    BY <1>1, <1>2 DEF a, p
  <2> HIDE DEF s
  <2>3. /\ Len(s \o piece) = Len(s) + Len(piece) /\ Len(s \o piece) > 0
        /\ (s \o piece)[Len(s) + Len(piece)] = piece[Len(piece)]
    BY <2>1, ConcatProperties
  <2>4. s \o piece # <<>>
    BY <2>3
  <2> QED
    BY <1>1, <2>2, <2>3, <2>4 DEF s
<1>8. /\ sentBytes'[thread] = a + Len(piece) /\ packet'[thread] = p /\ pc'[thread] = "send"
      /\ \A other \in Thread : other # thread => ~Amid(other)'
  BY <1>1, <1>3, <1>4 DEF a, p, SoundInv, Typed, Amid
<1>9. EndOK'
  <2>1. \A other \in Thread : Amid(other)' =>
          Stream' # <<>> /\ Stream'[Len(Stream')] = [packet |-> packet'[other], at |-> sentBytes'[other]]
    BY <1>7, <1>8
  <2>2. ASSUME ~Amid(thread)' PROVE Whole(Stream)'
    <3>1. a + Len(piece) = Size(p)
      BY <1>1, <1>2, <1>8, <2>2 DEF Amid, a, p
    <3> QED
      BY <1>7, <3>1 DEF Whole
  <2> QED
    BY <2>1, <2>2 DEF EndOK
<1>10. ReaderOK'
  BY <1>3 DEF AlignedInv, ReaderOK, reader, Reading
<1>11. Run(Stream)'
  BY <1>1, <1>6 DEF Run
<1> QED
  BY <1>9, <1>10, <1>11 DEF AlignedInv

LEMMA LastOfConcat ==
  ASSUME NEW S, NEW s \in Seq(S), NEW t \in Seq(S), t # <<>>
  PROVE  s \o t # <<>> /\ (s \o t)[Len(s \o t)] = t[Len(t)]
<1>1. Len(s) \in Nat /\ Len(t) \in Nat \ {0} /\ Len(s \o t) = Len(s) + Len(t)
  BY EmptySeq, ConcatProperties
<1>2. (s \o t)[Len(s) + Len(t)] = t[Len(t)]
  BY <1>1, ConcatProperties
<1>3. s \o t # <<>>
  BY <1>1
<1> QED
  BY <1>1, <1>2, <1>3

(* A packet that was read to its end is taken off the stream.              *)
LEMMA WholePacketTaken ==
  ASSUME SoundInv, Run(Stream), TakePacket, UNCHANGED <<outQueue, inQueue>>,
         Len(buffer) >= 1, Len(buffer) = Size(Reading)
  PROVE  /\ Reading \in Sound /\ Reading = Stream[1].packet /\ Stream # <<>>
         /\ buffer = Bytes(Reading) /\ received' = Append(received, buffer)
         /\ buffer \in Seq(BytesOf(Sound)) /\ buffer # <<>> /\ Whole(buffer)
         /\ Stream \in Seq(BytesOf(Sound)) /\ Stream' \in Seq(BytesOf(Sound))
         /\ Stream = buffer \o Stream' /\ Run(Stream)'
<1>1. Typed(Sound) /\ Sound \subseteq Packet
  BY SoundSubset DEF SoundInv
<1>2. /\ Reading \in Sound /\ Reading = Stream[1].packet /\ Stream # <<>>
      /\ buffer = Bytes(Reading) /\ Whole(buffer)
  BY <1>1, ReadingIs
<1>3. Stream = buffer \o Stream' /\ Stream' \in Seq(BytesOf(Sound)) /\ Stream \in Seq(BytesOf(Sound))
  BY <1>1, TakeStream, StreamIs
<1>4. buffer \in Seq(BytesOf(Sound)) /\ buffer # <<>>
  BY <1>1 DEF Typed
<1>5. Run(Stream')
  <2> DEFINE rest == Stream'
  <2>1. Run(buffer \o rest) /\ rest \in Seq(BytesOf(Sound))
    BY <1>3
  <2> HIDE DEF rest
  <2>2. Run(rest)
    BY <1>1, <1>2, <1>4, <2>1, RunAfterPacket
  <2> QED
    BY <2>2 DEF rest
<1>6. Run(Stream)'
  BY <1>5 DEF Run
<1>7. received' = Append(received, buffer)
  BY DEF TakePacket
<1> QED
  BY <1>2, <1>3, <1>4, <1>6, <1>7

LEMMA TakeKeepsAligned ==
  ASSUME SoundInv, AlignedInv, TakePacket, UNCHANGED <<senders, outQueue, inQueue, link>>,
         Len(buffer) >= 1, Len(buffer) = Size(Reading)
  PROVE  AlignedInv'
<1>1. /\ buffer \in Seq(BytesOf(Sound)) /\ buffer # <<>> /\ Whole(buffer)
      /\ Stream' \in Seq(BytesOf(Sound)) /\ Stream = buffer \o Stream' /\ Run(Stream)'
  BY WholePacketTaken DEF AlignedInv
<1>2. UNCHANGED <<pc, packet, sentBytes, link>>
  BY DEF senders
<1>3. \A thread \in Thread : Amid(thread)' <=> Amid(thread)
  BY <1>2 DEF Amid
<1>4. ASSUME link = "up", Stream' # <<>> PROVE EndOK'
  <2>1. EndOK
    BY <1>4 DEF AlignedInv
  <2>2. Stream # <<>> /\ Stream[Len(Stream)] = Stream'[Len(Stream')]
    BY <1>1, <1>4, LastOfConcat
  <2>3. \A thread \in Thread : Amid(thread)' =>
          Stream' # <<>> /\ Stream'[Len(Stream')] = [packet |-> packet'[thread], at |-> sentBytes'[thread]]
    BY <1>2, <1>3, <1>4, <2>1, <2>2 DEF EndOK
  <2>4. (\A thread \in Thread : ~Amid(thread)') => Whole(Stream)'
    BY <1>3, <1>4, <2>1, <2>2 DEF EndOK, Whole
  <2> QED
    BY <2>3, <2>4 DEF EndOK
<1>5. ASSUME link = "up", Stream' = <<>> PROVE EndOK'
  <2>1. EndOK
    BY <1>5 DEF AlignedInv
  <2>2. Stream = buffer
    BY <1>1, <1>5, ConcatEmptySeq
  <2>3. \A thread \in Thread : ~Amid(thread)
    <3> SUFFICES ASSUME NEW thread \in Thread, Amid(thread) PROVE FALSE
      OBVIOUS
    <3>1. Stream[Len(Stream)] = [packet |-> packet[thread], at |-> sentBytes[thread]]
      BY <2>1 DEF EndOK
    <3>2. sentBytes[thread] = Size(packet[thread])
      BY <1>1, <2>2, <3>1 DEF Whole
    <3>3. Size(packet[thread]) \in Nat
      BY SizePositive, SoundSubset DEF SoundInv, Typed
    <3> QED
      BY <3>2, <3>3 DEF Amid
  <2>4. Whole(Stream)'
    BY <1>5 DEF Whole
  <2> QED
    BY <1>3, <2>3, <2>4 DEF EndOK
<1>6. ReaderOK'
  BY BondLinkAssumption DEF TakePacket, EnterPart, ReaderOK
<1> QED
  BY <1>1, <1>2, <1>4, <1>5, <1>6 DEF AlignedInv

(* The packet of the reader stays the same while it reads.                 *)
LEMMA RecvKeepsAligned ==
  ASSUME SoundInv, AlignedInv, RecvSome
  PROVE  AlignedInv'
<1>1. Typed(Sound) /\ PartsOK /\ Sound \subseteq Packet
  BY SoundSubset DEF SoundInv
<1>2. Stream' = Stream
  BY <1>1, RecvStream
<1>3. UNCHANGED <<pc, packet, sentBytes, link, part>>
  BY DEF RecvSome, senders
<1>4. Run(Stream)'
  BY <1>2 DEF Run, AlignedInv
<1>5. link' = "up" => EndOK'
  <2> SUFFICES ASSUME link = "up" PROVE EndOK'
    BY <1>3
  <2>1. EndOK
    BY DEF AlignedInv
  <2>2. \A thread \in Thread : UNCHANGED <<pc[thread], packet[thread], sentBytes[thread]>>
    BY <1>3
  <2> QED
    BY <1>2, <2>1, <2>2, EndStays
<1>6. PICK count \in 1..(Wanted - bytesRead) :
        /\ count <= Len(inQueue)
        /\ buffer' = buffer \o SubSeq(inQueue, 1, count)
        /\ bytesRead' = bytesRead + count
  BY DEF RecvSome
<1>7. Wanted \in Nat /\ bytesRead \in Nat /\ count \in 1..Len(inQueue)
  <2>1. Wanted \in Nat
    BY <1>1, WantedNat
  <2>2. bytesRead \in Nat /\ Len(inQueue) \in Nat
    BY <1>1 DEF Typed
  <2> QED
    BY <1>6, <2>1, <2>2
<1>8. bytesRead' <= Wanted
  BY <1>6, <1>7
<1>9. part \in {"flowHeader", "payload"} => Reading' = Reading
  <2> SUFFICES ASSUME part \in {"flowHeader", "payload"} PROVE Reading' = Reading
    OBVIOUS
  <2>1. Len(buffer) \in Nat /\ Len(buffer) >= 1
    BY <1>1, HeaderSizes DEF PartsOK, Typed
  <2>2. buffer'[1] = buffer[1]
    <3>1. buffer \in Seq(BytesOf(Sound)) /\ inQueue \in Seq(BytesOf(Sound)) /\ 1 \in 1..Len(buffer)
      BY <1>1, <2>1 DEF Typed
    <3>2. \A i \in 1..Len(buffer) : (buffer \o SubSeq(inQueue, 1, count))[i] = buffer[i]
      BY <1>7, <3>1, RecvTakes
    <3> QED
      BY <1>6, <3>1, <3>2
  <2> QED
    BY <2>2 DEF Reading
<1>10. ReaderOK'
  BY <1>3, <1>8, <1>9 DEF AlignedInv, ReaderOK, Wanted
<1> QED
  BY <1>4, <1>5, <1>10 DEF AlignedInv

(* The reader gives up: nothing is left of the stream.                     *)
LEMMA GiveUpStream ==
  ASSUME SoundInv, GiveUp
  PROVE  Stream' = <<>> /\ link' # "up" /\ UNCHANGED <<senders, received>>
<1>1. inQueue' = <<>> /\ outQueue' = <<>> /\ buffer' = <<>> /\ link' # "up"
  BY DEF GiveUp, SoundInv, ClosedOK
<1>2. <<>> \o <<>> \o <<>> = <<>>
  BY EmptySeq, ConcatEmptySeq
<1> QED
  BY <1>1, <1>2 DEF Stream, GiveUp

LEMMA GiveUpKeepsAligned ==
  ASSUME SoundInv, GiveUp
  PROVE  AlignedInv'
<1>1. Stream' = <<>> /\ link' # "up"
  BY GiveUpStream
<1>2. Len(<<>>) = 0
  BY EmptySeq
<1>3. Run(Stream)'
  <2>1. \A i : i \notin 1..Len(Stream') /\ i \notin 1..(Len(Stream') - 1)
    BY <1>1, <1>2
  <2> QED
    BY <1>1, <2>1 DEF Run
<1>4. ReaderOK'
  BY HeaderSizes DEF GiveUp, EnterPart, ReaderOK
<1> QED
  BY <1>1, <1>3, <1>4 DEF AlignedInv

(* A header was read, but no whole packet.                                 *)
LEMMA PartKeepsAligned ==
  ASSUME SoundInv, AlignedInv, UNCHANGED <<senders, outQueue, inQueue, link, buffer>>, ReaderOK'
  PROVE  AlignedInv'
<1>1. Stream' = Stream /\ UNCHANGED <<pc, packet, sentBytes, link>>
  BY DEF Stream, senders
<1>2. Run(Stream)'
  BY <1>1 DEF Run, AlignedInv
<1>3. link' = "up" => EndOK'
  <2> SUFFICES ASSUME link = "up" PROVE EndOK'
    BY <1>1
  <2>1. EndOK
    BY DEF AlignedInv
  <2>2. \A thread \in Thread : UNCHANGED <<pc[thread], packet[thread], sentBytes[thread]>>
    BY <1>1
  <2> QED
    BY <1>1, <2>1, <2>2, EndStays
<1> QED
  BY <1>2, <1>3 DEF AlignedInv

(* Where the reader stands when a packet is complete.                      *)
LEMMA CompleteWhenTaken ==
  ASSUME SoundInv, AlignedInv,
         \/ ReadHeader /\ TakePacket /\ Reading.type = "HEARTBEAT"
         \/ ReadPayload
  PROVE  Len(buffer) >= 1 /\ Len(buffer) = Size(Reading)
<1>1. Typed(Sound) /\ PartsOK /\ Sound \subseteq Packet /\ Run(Stream)
  BY SoundSubset DEF SoundInv, AlignedInv
<1>2. CASE ReadHeader /\ Reading.type = "HEARTBEAT"
  <2>1. Len(buffer) = HeaderSize
    BY <1>1, <1>2 DEF ReadHeader, Wanted, PartsOK
  <2> QED
    BY <1>2, <2>1, HeaderSizes DEF Size
<1>3. CASE ReadPayload
  <2>1. /\ Len(buffer) = HeaderSize + FlowHeaderSize + Reading.size
        /\ Len(buffer) \in Nat /\ bytesRead \in Nat /\ Reading.size = bytesRead
        /\ Reading.type = "FLOW"
    BY <1>1, <1>3 DEF ReadPayload, Wanted, PartsOK, Typed, AlignedInv, ReaderOK
  <2>2. Len(buffer) >= 1
    BY <2>1, HeaderSizes
  <2>3. Reading \in Sound
    BY <1>1, <2>2, ReadingIs
  <2>4. Reading.size = Reading.length
    BY <2>3 DEF Sound
  <2> QED
    BY <2>1, <2>2, <2>4 DEF Size
<1> QED
  BY <1>2, <1>3

LEMMA ReaderKeepsAligned ==
  ASSUME SoundInv, AlignedInv, ReaderStep
  PROVE  AlignedInv'
<1>1. Typed(Sound) /\ PartsOK /\ Sound \subseteq Packet /\ Run(Stream) /\ ReaderOK
  BY SoundSubset DEF SoundInv, AlignedInv
<1>2. CASE RecvSome
  BY <1>2, RecvKeepsAligned
<1>3. CASE RecvNothing
  <2>1. ReaderOK'
    BY <1>3 DEF RecvNothing, ReaderOK
  <2> QED
    BY <1>3, <2>1, PartKeepsAligned DEF RecvNothing
<1>4. CASE ReadHeader
  <2>1. Len(buffer) = HeaderSize /\ Len(buffer) >= 1
    BY <1>1, <1>4, HeaderSizes DEF ReadHeader, Wanted, PartsOK
  <2>2. Reading \in Sound /\ Size(Reading) >= HeaderSize
    BY <1>1, <2>1, ReadingIs, SizePositive
  <2>3. buffer = SubSeq(Bytes(Reading), 1, HeaderSize)
    BY <1>1, <2>1, <2>2, ReadingIs
  <2>4. CASE Reading.type = "HEARTBEAT"
    <3>1. TakePacket /\ UNCHANGED <<senders, outQueue, inQueue, link>>
      BY <1>4, <2>3, <2>4 DEF ReadHeader
    <3>2. Len(buffer) = Size(Reading)
      BY <1>4, <2>4, <3>1, CompleteWhenTaken
    <3> QED
      BY <2>1, <3>1, <3>2, TakeKeepsAligned
  <2>5. CASE Reading.type # "HEARTBEAT"
    <3>1. /\ part' = "flowHeader" /\ bytesRead' = 0
          /\ UNCHANGED <<buffer, received, senders, outQueue, inQueue, link>>
      BY <1>4, <2>3, <2>5 DEF ReadHeader, EnterPart
    <3>2. Reading'.type = "FLOW"
      BY <2>2, <2>5, <3>1 DEF Reading, Sound, Packet
    <3>3. ReaderOK'
      BY <3>1, <3>2, HeaderSizes DEF ReaderOK
    <3> QED
      BY <3>1, <3>3, PartKeepsAligned
  <2> QED
    BY <2>4, <2>5
<1>5. CASE ReadFlowHeader
  <2>1. /\ part' = "payload" /\ bytesRead' = 0 /\ part = "flowHeader"
        /\ UNCHANGED <<buffer, received, senders, outQueue, inQueue, link>>
        /\ Len(buffer) = HeaderSize + FlowHeaderSize
    BY <1>1, <1>5 DEF ReadFlowHeader, EnterPart, PartsOK, Wanted
  <2>2. Len(buffer) >= 1
    BY <2>1, HeaderSizes
  <2>3. Reading \in Sound /\ Reading' = Reading
    BY <1>1, <2>1, <2>2, ReadingIs DEF Reading
  <2>4. Reading.size \in Nat
    BY <2>3 DEF Sound, Packet
  <2>5. ReaderOK'
    BY <1>1, <2>1, <2>3, <2>4 DEF ReaderOK
  <2> QED
    BY <2>1, <2>5, PartKeepsAligned
<1>6. CASE ReadPayload
  <2>1. TakePacket /\ UNCHANGED <<senders, outQueue, inQueue, link>>
    BY <1>6 DEF ReadPayload
  <2>2. Len(buffer) >= 1 /\ Len(buffer) = Size(Reading)
    BY <1>6, CompleteWhenTaken
  <2> QED
    BY <2>1, <2>2, TakeKeepsAligned
<1>7. CASE GiveUp
  BY <1>7, GiveUpKeepsAligned
<1> QED
  BY <1>2, <1>3, <1>4, <1>5, <1>6, <1>7 DEF ReaderStep

LEMMA AlignedStep ==
  ASSUME SoundInv, SoundInv', AlignedInv, [Next]_vars
  PROVE  AlignedInv'
<1>1. Typed(Sound) /\ Typed(Sound)' /\ PartsOK /\ Sound \subseteq Packet /\ Run(Stream) /\ ReaderOK
  BY SoundSubset DEF SoundInv, AlignedInv
<1>2. CASE \/ \E sender \in Sender : AwaitRoom(sender) \/ Lock(sender)
           \/ \E thread \in Thread : Unlock(thread)
           \/ TestQuiet \/ TryLock
  <2>1. /\ Stream' = Stream /\ UNCHANGED <<inQueue, link, reader>>
        /\ \A thread \in Thread :
              \/ ~Amid(thread) /\ ~Amid(thread)'
              \/ UNCHANGED <<pc[thread], packet[thread], sentBytes[thread]>>
    BY <1>2, NothingSent
  <2>2. Run(Stream)'
    BY <1>1, <2>1 DEF Run
  <2>3. link' = "up" => EndOK'
    BY <2>1, EndStays DEF AlignedInv
  <2>4. ReaderOK'
    BY <1>1, <2>1 DEF ReaderOK, reader, Reading
  <2> QED
    BY <2>2, <2>3, <2>4 DEF AlignedInv
<1>3. ASSUME NEW thread \in Thread, SendSome(thread) PROVE AlignedInv'
  BY <1>3, SendKeepsAligned
<1>4. CASE ReaderStep
  BY <1>4, ReaderKeepsAligned
<1>5. ASSUME UNCHANGED <<senders, reader, link>>, Stream' = Stream PROVE AlignedInv'
  <2>1. Run(Stream)' /\ UNCHANGED <<pc, packet, sentBytes>>
    BY <1>1, <1>5 DEF Run, senders
  <2>2. \A thread \in Thread : UNCHANGED <<pc[thread], packet[thread], sentBytes[thread]>>
    BY <2>1
  <2>3. link' = "up" => EndOK'
    BY <1>5, <2>2, EndStays DEF AlignedInv
  <2>4. ReaderOK'
    BY <1>1, <1>5 DEF ReaderOK, reader, Reading
  <2> QED
    BY <2>1, <2>3, <2>4 DEF AlignedInv
<1>6. CASE Transfer
  BY <1>1, <1>5, <1>6, TransferStream DEF Transfer
<1>7. CASE LinkEnds
  <2>1. link' # "up" /\ UNCHANGED <<senders, reader>>
    BY <1>7 DEF LinkEnds
  <2>2. ReaderOK'
    BY <1>1, <2>1 DEF ReaderOK, reader, Reading
  <2>3. CASE UNCHANGED <<outQueue, inQueue>>
    <3>1. Stream' = Stream
      BY <2>1, <2>3 DEF Stream, reader
    <3>2. Run(Stream)'
      BY <1>1, <3>1 DEF Run
    <3> QED
      BY <2>1, <2>2, <3>2 DEF AlignedInv
  <2>4. CASE outQueue' = <<>> /\ inQueue' = <<>>
    <3>1. Stream' = buffer
      BY <1>1, <2>1, <2>4, ResetStream DEF reader
    <3>2. /\ buffer \in Seq(BytesOf(Sound)) /\ inQueue \o outQueue \in Seq(BytesOf(Sound))
          /\ Run(buffer \o (inQueue \o outQueue))
      BY <1>1, StreamIs DEF Typed
    <3>3. Run(buffer)
      BY <1>1, <3>2, RunBegins
    <3>4. Run(Stream)'
      BY <3>1, <3>3 DEF Run
    <3> QED
      BY <2>1, <2>2, <3>4 DEF AlignedInv
  <2> QED
    BY <1>7, <2>3, <2>4 DEF LinkEnds
<1>8. CASE UNCHANGED vars
  BY <1>5, <1>8 DEF vars, Stream, reader
<1> QED
  BY <1>2, <1>3, <1>4, <1>6, <1>7, <1>8, ThreadIs DEF Next, SenderStep, HeartbeatStep

LEMMA AlignedIsStreamAligned == SoundInv /\ AlignedInv => StreamAligned
<1> SUFFICES ASSUME SoundInv, AlignedInv PROVE StreamAligned
  OBVIOUS
<1>1. Run(Stream) /\ Stream \in Seq(BytesOf(Sound)) /\ part # "garbled" /\ Sound \subseteq Packet
  BY StreamIs, SoundSubset DEF SoundInv, AlignedInv, ReaderOK
<1>2. Stream # <<>> => Stream[1].at = 1
  BY <1>1 DEF Run
<1>3. \A i \in 1..(Len(Stream) - 1) :
        \/ Stream[i+1].packet = Stream[i].packet /\ Stream[i+1].at = Stream[i].at + 1
        \/ Stream[i].at = Size(Stream[i].packet) /\ Stream[i+1].at = 1
  BY <1>1, RunIsAligned
<1> QED
  BY <1>1, <1>2, <1>3 DEF StreamAligned

LEMMA SoundInit == SizesAgree /\ Init => SoundInv
  BY TypedInit, CompleteSound DEF SoundInv, ClosedOK, Init

LEMMA ClosedStep ==
  ASSUME SoundInv, [Next]_vars
  PROVE  ClosedOK'
<1>1. ClosedOK /\ Typed(Sound) /\ PartsOK /\ Sound \subseteq Packet
  BY SoundSubset DEF SoundInv
<1>2. CASE (\E sender \in Sender : SenderStep(sender)) \/ HeartbeatStep
  <2>1. UNCHANGED <<inQueue, link, part>> /\ (outQueue' = outQueue \/ link = "up")
    BY <1>2 DEF SenderStep, HeartbeatStep, AwaitRoom, Lock, SendSome, Unlock, TestQuiet,
                TryLock, reader
  <2> QED
    BY <1>1, <2>1 DEF ClosedOK
<1>3. CASE Transfer
  BY <1>1, <1>3 DEF Transfer, ClosedOK, reader
<1>4. CASE LinkEnds
  BY <1>1, <1>4 DEF LinkEnds, ClosedOK, reader
<1>5. CASE RecvSome
  <2>1. Wanted \in Nat /\ bytesRead \in Nat
    BY <1>1, WantedNat DEF Typed
  <2>2. part # "shutdown" /\ part' = part /\ UNCHANGED <<link, outQueue>>
    BY <1>5, <2>1 DEF RecvSome, Wanted
  <2>3. PICK count \in 1..(Wanted - bytesRead) : count <= Len(inQueue)
    BY <1>5 DEF RecvSome
  <2>4. inQueue # <<>>
    BY <2>1, <2>3, EmptySeq
  <2> QED
    BY <1>1, <2>2, <2>4 DEF ClosedOK
<1>6. CASE RecvNothing
  BY <1>1, <1>6 DEF RecvNothing, ClosedOK
<1>7. CASE GiveUp
  BY <1>1, <1>7 DEF GiveUp, EnterPart, ClosedOK
<1>8. CASE ReadHeader \/ ReadFlowHeader \/ ReadPayload
  <2>1. part' # "shutdown" /\ UNCHANGED <<link, inQueue, outQueue>>
    BY <1>8 DEF ReadHeader, ReadFlowHeader, ReadPayload, TakePacket, EnterPart
  <2> QED
    BY <1>1, <2>1 DEF ClosedOK
<1>9. CASE UNCHANGED vars
  BY <1>1, <1>9 DEF vars, reader, ClosedOK
<1> QED
  BY <1>2, <1>3, <1>4, <1>5, <1>6, <1>7, <1>8, <1>9 DEF Next, ReaderStep

LEMMA SoundStep == SizesAgree /\ SoundInv /\ [Next]_vars => SoundInv'
  BY TypedStep, CompleteSound, ClosedStep DEF SoundInv

(* However many senders and heartbeats share a link, and however their     *)
(* sends and the reads of the other site are cut: what the link carries    *)
(* stays whole packets one after the other and the reader finds a header   *)
(* where it expects one (Bond.cpp:243, 311, 341, 55).  That the headers    *)
(* say what the buffers hold is needed: the answer to a refused connection *)
(* (Bond.cpp:206) is the exception.                                        *)
THEOREM StaysAligned ==
  ASSUME SizesAgree
  PROVE  Spec => []StreamAligned
<1>1. Init => SoundInv /\ AlignedInv
  BY SoundInit, AlignedInit
<1>2. SoundInv /\ AlignedInv /\ [Next]_vars => SoundInv' /\ AlignedInv'
  BY SoundStep, AlignedStep
<1> QED
  BY <1>1, <1>2, AlignedIsStreamAligned, PTL DEF Spec

----------------------------------------------------------------------------
(* The packets stay in order.                                              *)

LEMMA OrderInit == SizesAgree /\ Init => OrderInv
<1> SUFFICES ASSUME SizesAgree, Init PROVE OrderInv
  OBVIOUS
<1>1. Stream = <<>> /\ received = <<>>
  BY DEF Init, Stream
<1>2. Len(Stream) = 0 /\ Len(received) = 0 /\ DOMAIN received = {} /\ \A n : n \notin 1..0
  BY <1>1
<1>3. Before(0) = {}
  BY <1>2 DEF Before
<1>4. ASSUME NEW thread \in Thread PROVE Sends(thread) = 1
  <2>1. pc[thread] # "send"
    BY DEF Init
  <2>2. NextId(thread) = 1
    <3>1. CASE thread = Heartbeat
      BY <3>1 DEF Init, NextId
    <3>2. CASE thread # Heartbeat
      <4>1. thread \in Sender /\ todo[thread] = Outbox[thread]
        BY <3>2 DEF Init, Thread
      <4> QED
        BY <3>2, <4>1, OutboxIs DEF NextId
    <3> QED
      BY <3>1, <3>2
  <2> QED
    BY <2>1, <2>2 DEF Sends
<1>5. \A thread \in Thread : Reaches(thread, 0, 1)
  BY <1>3 DEF Reaches
<1>6. PacketsInOrder /\ \A j \in 1..Len(received) : Taken(j) \in Packet
  BY <1>2 DEF PacketsInOrder
<1> QED
  BY <1>2, <1>4, <1>5, <1>6 DEF OrderInv

LEMMA OrderStays ==
  ASSUME OrderInv, Stream' = Stream, received' = received,
         link' = "up" => link = "up" /\ \A thread \in Thread : Sends(thread)' = Sends(thread)
  PROVE  OrderInv'
<1>1. \A n : Before(n)' = Before(n)
  BY DEF Before, Taken
<1>2. \A i \in 1..Len(Stream') : Stream'[i].at = 1 => Follows(Stream'[i].packet, Before(i - 1)')
  BY <1>1 DEF OrderInv
<1>3. ASSUME link' = "up", NEW thread \in Thread
      PROVE  Reaches(thread, Len(Stream), Sends(thread))'
  <2>1. Reaches(thread, Len(Stream), Sends(thread))
    BY <1>3 DEF OrderInv
  <2> QED
    BY <1>1, <1>3, <2>1 DEF Reaches
<1>4. PacketsInOrder' /\ \A j \in 1..Len(received') : Taken(j)' \in Packet
  BY DEF OrderInv, PacketsInOrder, Taken
<1> QED
  BY <1>2, <1>3, <1>4 DEF OrderInv

LEMMA NextIdInt ==
  ASSUME Typed(Sound), NEW thread \in Thread
  PROVE  NextId(thread) \in Int
<1>1. CASE thread = Heartbeat
  BY <1>1, BondLinkAssumption DEF NextId, Typed
<1>2. CASE thread # Heartbeat
  <2>1. thread \in Sender /\ todo[thread] \in Seq(Sound)
    BY <1>2, ThreadIs DEF Typed
  <2>2. Len(todo[thread]) \in Nat /\ Len(Outbox[thread]) \in Nat
    BY <2>1, OutboxIs
  <2> QED
    BY <1>2, <2>2 DEF NextId
<1> QED
  BY <1>1, <1>2

(* All packets before are packets.                                         *)
LEMMA BeforePackets ==
  ASSUME SoundInv, OrderInv
  PROVE  Before(Len(Stream)) \subseteq Packet
<1>1. \A k \in 1..Len(Stream) : Stream[k].packet \in Packet
  <2>1. Stream \in Seq(BytesOf(Sound)) /\ Sound \subseteq Packet
    BY StreamIs, SoundSubset DEF SoundInv
  <2> QED
    BY <2>1, ByteIs
<1> QED
  BY <1>1 DEF Before, OrderInv

(* Taking or releasing the mutex changes nothing about what comes next.    *)
LEMMA SendsStay ==
  ASSUME SoundInv,
         \/ \E sender \in Sender : AwaitRoom(sender) \/ Lock(sender)
         \/ \E thread \in Thread : Unlock(thread)
         \/ TestQuiet \/ TryLock,
         NEW thread \in Thread
  PROVE  Sends(thread)' = Sends(thread)
<1>1. /\ Heartbeat \in Thread /\ Sender \subseteq Thread /\ Thread = Sender \cup {Heartbeat}
      /\ "free" \notin Thread /\ Heartbeat \notin Sender
  BY ThreadIs
<1>2. NextId(thread) \in Int
  BY NextIdInt DEF SoundInv
<1>3. ASSUME NEW sender \in Sender, AwaitRoom(sender) PROVE Sends(thread)' = Sends(thread)
  <2>1. /\ UNCHANGED <<todo, beats, sentBytes>> /\ pc[sender] = "idle"
        /\ pc' = [pc EXCEPT ![sender] = "lock"]
    BY <1>3 DEF AwaitRoom, Goto
  <2>2. NextId(thread)' = NextId(thread)
    BY <2>1 DEF NextId
  <2>3. pc'[thread] = "send" <=> pc[thread] = "send"
    BY <1>1, <2>1 DEF SoundInv, Typed
  <2> QED
    BY <2>1, <2>2, <2>3 DEF Sends
<1>4. ASSUME NEW sender \in Sender, Lock(sender) PROVE Sends(thread)' = Sends(thread)
  <2>1. /\ pc[sender] = "lock" /\ beats' = beats
        /\ sentBytes' = [sentBytes EXCEPT ![sender] = 0]
        /\ pc' = [pc EXCEPT ![sender] = "send"]
        /\ todo' = [todo EXCEPT ![sender] = Tail(todo[sender])]
    BY <1>4 DEF Lock, Begin, Goto
  <2>2. CASE thread = sender
    <3>1. todo[sender] \in Seq(Sound) /\ todo[sender] # <<>>
      BY <2>1 DEF SoundInv, SendersOK, TodoOK, Typed
    <3>2. Len(Tail(todo[sender])) = Len(todo[sender]) - 1 /\ Len(todo[sender]) \in Nat
      BY <3>1, HeadTailProperties
    <3>3. todo'[sender] = Tail(todo[sender]) /\ pc'[sender] = "send" /\ sentBytes'[sender] = 0
      BY <1>1, <2>1 DEF SoundInv, Typed
    <3>4. Len(Outbox[sender]) \in Nat
      BY OutboxIs
    <3>5. NextId(sender) = Len(Outbox[sender]) - Len(todo[sender]) + 1
      BY <1>1 DEF NextId
    <3>6. NextId(sender)' = Len(Outbox[sender]) - (Len(todo[sender]) - 1) + 1
      BY <1>1, <3>2, <3>3 DEF NextId
    <3>7. NextId(sender)' = NextId(sender) + 1
      BY <3>2, <3>4, <3>5, <3>6
    <3> QED
      BY <1>2, <2>1, <2>2, <3>3, <3>7 DEF Sends
  <2>3. CASE thread # sender
    <3>1. pc'[thread] = pc[thread] /\ sentBytes'[thread] = sentBytes[thread]
      BY <2>1, <2>3 DEF SoundInv, Typed
    <3>2. NextId(thread)' = NextId(thread)
      BY <1>1, <2>1, <2>3 DEF NextId, SoundInv, Typed
    <3> QED
      BY <3>1, <3>2 DEF Sends
  <2> QED
    BY <2>2, <2>3
<1>5. ASSUME NEW sender \in Thread, Unlock(sender) PROVE Sends(thread)' = Sends(thread)
  <2>1. /\ UNCHANGED <<todo, beats, sentBytes>> /\ sentBytes[sender] = Size(packet[sender])
        /\ pc' = [pc EXCEPT ![sender] = "idle"]
    BY <1>5 DEF Unlock, Goto
  <2>2. NextId(thread)' = NextId(thread)
    BY <2>1 DEF NextId
  <2>3. sentBytes[sender] # 0 /\ pc'[sender] # "send"
    <3>1. packet[sender] \in Packet
      BY SoundSubset DEF SoundInv, Typed
    <3>2. pc'[sender] # "send"
      BY <2>1 DEF SoundInv, Typed
    <3> QED
      BY <2>1, <3>1, <3>2, SizePositive
  <2>4. thread # sender => pc'[thread] = pc[thread]
    BY <2>1 DEF SoundInv, Typed
  <2> QED
    BY <1>2, <2>1, <2>2, <2>3, <2>4 DEF Sends
<1>6. ASSUME TestQuiet \/ (TryLock /\ mutex # "free") PROVE Sends(thread)' = Sends(thread)
  <2>1. /\ UNCHANGED <<todo, beats, sentBytes>> /\ pc[Heartbeat] \in {"idle", "lock"}
        /\ (pc' = [pc EXCEPT ![Heartbeat] = "lock"] \/ pc' = [pc EXCEPT ![Heartbeat] = "idle"])
    BY <1>6 DEF TestQuiet, TryLock, Goto
  <2>2. NextId(thread)' = NextId(thread)
    BY <2>1 DEF NextId
  <2>3. pc'[thread] = "send" <=> pc[thread] = "send"
    BY <1>1, <2>1 DEF SoundInv, Typed
  <2> QED
    BY <2>1, <2>2, <2>3 DEF Sends
<1>7. ASSUME TryLock, mutex = "free" PROVE Sends(thread)' = Sends(thread)
  <2>1. /\ pc[Heartbeat] = "lock" /\ todo' = todo /\ beats' = beats + 1
        /\ sentBytes' = [sentBytes EXCEPT ![Heartbeat] = 0]
        /\ pc' = [pc EXCEPT ![Heartbeat] = "send"]
    BY <1>7 DEF TryLock, Begin, Goto
  <2>2. CASE thread = Heartbeat
    <3>1. pc'[Heartbeat] = "send" /\ sentBytes'[Heartbeat] = 0 /\ beats \in Int
      BY <1>1, <2>1, BondLinkAssumption DEF SoundInv, Typed
    <3>2. NextId(Heartbeat)' = NextId(Heartbeat) + 1
      BY <2>1, <3>1 DEF NextId
    <3> QED
      BY <1>2, <2>1, <2>2, <3>1, <3>2 DEF Sends
  <2>3. CASE thread # Heartbeat
    <3>1. pc'[thread] = pc[thread] /\ sentBytes'[thread] = sentBytes[thread]
      BY <2>1, <2>3 DEF SoundInv, Typed
    <3>2. NextId(thread)' = NextId(thread)
      BY <2>1, <2>3 DEF NextId
    <3> QED
      BY <3>1, <3>2 DEF Sends
  <2> QED
    BY <2>2, <2>3
<1> QED
  BY <1>3, <1>4, <1>5, <1>6, <1>7

(* What a thread sends is the next of its packets after all those before.  *)
LEMMA SendKeepsOrder ==
  ASSUME SoundInv, AlignedInv, OrderInv, NEW thread \in Thread, SendSome(thread)
  PROVE  OrderInv'
<1>1. PICK piece \in Seq(BytesOf(Sound)) :
        /\ piece # <<>> /\ sentBytes[thread] + Len(piece) <= Size(packet[thread])
        /\ \A i \in 1..Len(piece) :
             piece[i] = [packet |-> packet[thread], at |-> sentBytes[thread] + i]
        /\ sentBytes' = [sentBytes EXCEPT ![thread] = sentBytes[thread] + Len(piece)]
        /\ Stream' = Stream \o piece
  BY SomeSent
<1>0. PICK a, p, n, m :
        a = sentBytes[thread] /\ p = packet[thread] /\ n = Len(Stream) /\ m = Len(piece)
  OBVIOUS
<1>2. /\ a \in Nat /\ p \in Packet /\ Size(p) \in Nat /\ a + m <= Size(p)
      /\ sentBytes \in [Thread -> Nat]
  BY <1>0, <1>1, SizePositive, SoundSubset DEF SoundInv, Typed
<1>3. /\ pc[thread] = "send" /\ link = "up" /\ received' = received
      /\ UNCHANGED <<pc, packet, todo, beats, link>>
  BY DEF SendSome, reader
<1>4. /\ n \in Nat /\ m \in Nat \ {0} /\ Len(Stream') = n + m
      /\ \A i \in 1..n : Stream'[i] = Stream[i]
      /\ \A i \in (n + 1)..(n + m) : Stream'[i] = piece[i - n]
  <2> DEFINE s == Stream
  <2>1. s \in Seq(BytesOf(Sound)) /\ piece \in Seq(BytesOf(Sound)) /\ piece # <<>>
    BY <1>1, StreamIs DEF SoundInv
  <2>2. Stream' = s \o piece
    BY <1>1
  <2> HIDE DEF s
  <2>3. Len(s) \in Nat /\ Len(piece) \in Nat \ {0} /\ Len(s \o piece) = Len(s) + Len(piece)
    BY <2>1, EmptySeq, ConcatProperties
  <2>4. \A i \in 1..Len(s) : (s \o piece)[i] = s[i]
    BY <2>1, ConcatProperties
  <2>5. \A i \in (Len(s) + 1)..(Len(s) + Len(piece)) : (s \o piece)[i] = piece[i - Len(s)]
    BY <2>1
  <2> QED
    BY <1>0, <2>2, <2>3, <2>4, <2>5  DEF s
<1>5. \A i \in (n + 1)..(n + m) : Stream'[i] = [packet |-> p, at |-> a + (i - n)]
  <2> SUFFICES ASSUME NEW i \in (n + 1)..(n + m)
               PROVE  Stream'[i] = [packet |-> p, at |-> a + (i - n)]
    OBVIOUS
  <2>1. i - n \in 1..m /\ Stream'[i] = piece[i - n]
    BY <1>4
  <2> QED
    BY <1>0, <1>1, <2>1
<1>6. p.sender = thread /\ p.id = NextId(thread) - 1 /\ p.id \in Nat
  BY <1>0, <1>2, <1>3 DEF SoundInv, SendersOK, NumberOK, Packet
<1>7. \A other \in Thread : Reaches(other, n, Sends(other))
  BY <1>0, <1>3 DEF OrderInv
<1>8. a > 0 => p \in Before(n)
  <2> SUFFICES ASSUME a > 0 PROVE p \in Before(n)
    OBVIOUS
  <2>1. Amid(thread)
    BY <1>0, <1>2, <1>3, <1>4 DEF Amid
  <2>2. Stream # <<>> /\ Stream[n] = [packet |-> p, at |-> a]
    BY <1>0, <1>3, <2>1 DEF AlignedInv, EndOK
  <2>3. n \in 1..n
    <3>1. Stream \in Seq(BytesOf(Sound))
      BY StreamIs DEF SoundInv
    <3> QED
      BY <1>0, <2>2, <3>1, EmptySeq
  <2> QED
    BY <2>2, <2>3 DEF Before
<1>9. \A i \in 0..n : Before(i)' = Before(i)
  BY <1>0, <1>3, <1>4 DEF Before, Taken
<1>10. Before(n + m)' = Before(n) \cup {p}
  <2>1. ASSUME NEW k \in 1..n PROVE k \in 1..(n + m) /\ Stream'[k].packet = Stream[k].packet
    BY <1>4
  <2>2. ASSUME NEW k \in 1..(n + m) PROVE k \in 1..n \/ Stream'[k].packet = p
    <3>1. CASE k <= n
      BY <1>4, <3>1
    <3>2. CASE k > n
      <4>1. k \in (n + 1)..(n + m)
        BY <1>4, <3>2
      <4>2. Stream'[k] = [packet |-> p, at |-> a + (k - n)]
        BY <1>5, <4>1
      <4> QED
        BY <4>2
    <3> QED
      BY <1>4, <3>1, <3>2
  <2>3. n + 1 \in 1..(n + m) /\ Stream'[n + 1].packet = p
    <3>1. n + 1 \in 1..(n + m) /\ n + 1 \in (n + 1)..(n + m)
      BY <1>4
    <3>2. Stream'[n + 1] = [packet |-> p, at |-> a + ((n + 1) - n)]
      BY <1>5, <3>1
    <3> QED
      BY <3>1, <3>2
  <2>4. {Stream'[k].packet : k \in 1..(n + m)} = {Stream[k].packet : k \in 1..n} \cup {p}
    BY <2>1, <2>2, <2>3
  <2>5. {Taken(j) : j \in 1..Len(received)}' = {Taken(j) : j \in 1..Len(received)}
    BY <1>3 DEF Taken
  <2> QED
    BY <2>4, <2>5 DEF Before
<1>11. a = 0 => Follows(p, Before(n))
  <2> SUFFICES ASSUME a = 0 PROVE Follows(p, Before(n))
    OBVIOUS
  <2>1. Sends(thread) = p.id
    BY <1>0, <1>3, <1>6 DEF Sends
  <2>2. Reaches(thread, n, p.id)
    BY <1>7, <2>1
  <2> QED
    BY <1>6, <2>2 DEF Reaches, Follows
<1>12. ASSUME NEW i \in 1..(n + m), Stream'[i].at = 1
       PROVE  Follows(Stream'[i].packet, Before(i - 1)')
  <2>1. CASE i <= n
    <3>1. i \in 1..n /\ i - 1 \in 0..n /\ Stream'[i] = Stream[i]
      BY <1>4, <2>1
    <3> QED
      BY <1>0, <1>9, <1>12, <3>1 DEF OrderInv
  <2>2. CASE i > n
    <3>1. Stream'[i].packet = p /\ a + (i - n) = 1
      <4>1. i \in (n + 1)..(n + m)
        BY <1>4, <2>2
      <4>2. Stream'[i] = [packet |-> p, at |-> a + (i - n)]
        BY <1>5, <4>1
      <4> QED
        BY <1>12, <4>2
    <3>2. a = 0 /\ i - 1 = n
      BY <1>2, <1>4, <2>2, <3>1
    <3> QED
      BY <1>4, <1>9, <1>11, <3>1, <3>2
  <2> QED
    BY <1>4, <2>1, <2>2
<1>13. NextId(thread) = p.id + 1 /\ \A other : NextId(other)' = NextId(other)
  <2>1. \A other : NextId(other)' = NextId(other)
    BY <1>3 DEF NextId
  <2>2. NextId(thread) \in Int
    BY NextIdInt DEF SoundInv
  <2> QED
    BY <1>6, <2>1, <2>2
<1>14. Sends(thread)' = p.id + 1
  <2>1. sentBytes'[thread] = a + m
    BY <1>0, <1>1, <1>2
  <2>2. sentBytes'[thread] # 0
    BY <1>2, <1>4, <2>1
  <2>3. NextId(thread)' = p.id + 1
    BY <1>13
  <2> QED
    BY <1>6, <2>2, <2>3 DEF Sends
<1>15. Reaches(thread, n + m, p.id + 1)'
  <2>1. ASSUME NEW q \in Before(n + m)', q.sender = thread PROVE q.id < p.id + 1
    <3>1. CASE q = p
      BY <1>6, <3>1
    <3>2. CASE q \in Before(n) /\ a = 0
      <4>1. q.id < p.id
        BY <1>6, <1>11, <2>1, <3>2 DEF Follows
      <4>2. q.id \in Int
        BY <1>0, <3>2, BeforePackets DEF Packet
      <4> QED
        BY <1>6, <4>1, <4>2
    <3>3. CASE q \in Before(n) /\ a > 0
      <4>1. Sends(thread) = p.id + 1
        BY <1>0, <1>6, <1>13, <3>3 DEF Sends
      <4> QED
        BY <1>7, <2>1, <3>3, <4>1 DEF Reaches
    <3> QED
      BY <1>2, <1>10, <2>1, <3>1, <3>2, <3>3
  <2>2. p \in Before(n + m)' /\ p.sender = thread /\ p.id = (p.id + 1) - 1
    BY <1>6, <1>10
  <2> QED
    BY <2>1, <2>2, <1>3 DEF Reaches
<1>16. ASSUME NEW other \in Thread, other # thread
       PROVE  Reaches(other, n + m, Sends(other))'
  <2>1. Sends(other)' = Sends(other)
    <3>1. sentBytes'[other] = sentBytes[other]
      BY <1>1, <1>2, <1>16
    <3> QED
      BY <1>3, <1>13, <3>1 DEF Sends
  <2>2. \A q : q.sender = other => (q \in Before(n + m)' <=> q \in Before(n))
    BY <1>6, <1>10, <1>16
  <2> QED
    BY <1>7, <1>16, <2>1, <2>2 DEF Reaches
<1>17. PacketsInOrder' /\ \A j \in 1..Len(received') : Taken(j)' \in Packet
  BY <1>3 DEF OrderInv, PacketsInOrder, Taken
<1>18. ASSUME NEW other \in Thread PROVE Reaches(other, Len(Stream), Sends(other))'
  <2>1. Reaches(other, n + m, Sends(other))'
    <3>1. CASE other = thread
      BY <1>14, <1>15, <3>1 DEF Reaches
    <3> QED
      BY <1>16, <3>1
  <2> QED
    BY <1>4, <2>1 DEF Reaches
<1> QED
  BY <1>4, <1>12, <1>17, <1>18 DEF OrderInv

(* A packet that was read to its end goes from the stream to the received. *)
LEMMA TakeKeepsOrder ==
  ASSUME SoundInv, AlignedInv, OrderInv, TakePacket,
         UNCHANGED <<senders, outQueue, inQueue, link>>,
         Len(buffer) >= 1, Len(buffer) = Size(Reading)
  PROVE  OrderInv'
<1>1. PICK c, p, s, t, b, m, l :
        /\ c = Len(received) /\ p = Reading /\ s = Stream /\ t = Stream'
        /\ b = buffer /\ m = Len(b) /\ l = Len(t)
  OBVIOUS
<1>2. /\ p \in Sound /\ s # <<>> /\ p = s[1].packet
      /\ b = Bytes(p) /\ received' = Append(received, b)
      /\ b \in Seq(BytesOf(Sound)) /\ s \in Seq(BytesOf(Sound))
      /\ t \in Seq(BytesOf(Sound)) /\ s = b \o t /\ Len(b) >= 1
  BY <1>1, WholePacketTaken DEF AlignedInv
<1>3. /\ m \in Nat \ {0} /\ l \in Nat /\ Len(s) = m + l
      /\ \A i \in 1..m : s[i] = b[i]
      /\ \A i \in 1..l : s[m + i] = t[i]
  <2> DEFINE B == BytesOf(Sound)
  <2>1. b \in Seq(B) /\ t \in Seq(B)
    BY <1>2
  <2> HIDE DEF B
  <2>2. Len(b) \in Nat /\ Len(t) \in Nat
    BY <2>1
  <2>3. /\ Len(b \o t) = Len(b) + Len(t)
        /\ \A i \in 1..Len(b) : (b \o t)[i] = b[i]
        /\ \A i \in 1..Len(t) : (b \o t)[Len(b) + i] = t[i]
    BY <2>1, ConcatProperties
  <2>4. s = b \o t /\ m = Len(b) /\ l = Len(t) /\ Len(b) >= 1
    BY <1>1, <1>2
  <2>5. m \in Nat /\ l \in Nat
    BY <2>2, <2>4, Zenon
  <2>6. m >= 1
    BY <2>4, Zenon
  <2>7. m \in Nat \ {0}
    BY <2>5, <2>6
  <2> QED
    BY <2>3, <2>4, <2>5, <2>7, Zenon
<1>4. \A i \in 1..m : s[i] = [packet |-> p, at |-> i]
  <2>1. p \in Packet /\ m = Size(p)
    BY <1>1, <1>2, SoundSubset
  <2>2. \A i \in 1..m : Bytes(p)[i] = [packet |-> p, at |-> i]
    BY <2>1, BytesOfPacket
  <2> QED
    BY <1>2, <1>3, <2>2
<1>5. /\ c \in Nat /\ Len(received') = c + 1
      /\ received'[c + 1] = b /\ \A j \in 1..c : received'[j] = received[j]
  <2> DEFINE B == Seq(BytesOf(Sound))
  <2>1. received \in Seq(B) /\ b \in B
    BY <1>2 DEF SoundInv, Typed
  <2> HIDE DEF B
  <2>2. /\ Len(received) \in Nat /\ Len(Append(received, b)) = Len(received) + 1
        /\ Append(received, b)[Len(received) + 1] = b
        /\ \A j \in 1..Len(received) : Append(received, b)[j] = received[j]
    BY <2>1, AppendProperties
  <2>3. received' = Append(received, b) /\ c = Len(received)
    BY <1>1, <1>2
  <2> QED
    BY <2>2, <2>3, Zenon
<1>6. Taken(c + 1)' = p /\ \A j \in 1..c : Taken(j)' = Taken(j)
  <2>1. 1 \in 1..m
    BY <1>3
  <2>2. b[1] = [packet |-> p, at |-> 1]
    BY <1>3, <1>4, <2>1
  <2> QED
    BY <1>5, <2>2 DEF Taken
<1>7. {Taken(j) : j \in 1..Len(received)}' = {Taken(j) : j \in 1..c} \cup {p}
  <2>1. 1..(c + 1) = (1..c) \cup {c + 1}
    BY <1>5
  <2> QED
    BY <1>5, <1>6, <2>1
<1>8. ASSUME NEW n \in 0..l PROVE Before(n)' = Before(m + n)
  <2>1. ASSUME NEW k \in 1..(m + n)
        PROVE  s[k].packet = p \/ \E i \in 1..n : s[k].packet = t[i].packet
    <3>1. CASE k <= m
      <4>1. k \in 1..m
        BY <1>3, <3>1
      <4>2. s[k] = [packet |-> p, at |-> k]
        BY <1>4, <4>1
      <4> QED
        BY <4>2
    <3>2. CASE k > m
      <4>1. k - m \in 1..n /\ k - m \in 1..l /\ m + (k - m) = k
        BY <1>3, <3>2
      <4>2. s[m + (k - m)] = t[k - m]
        BY <1>3, <4>1
      <4> QED
        BY <4>1, <4>2
    <3> QED
      BY <1>3, <3>1, <3>2
  <2>2. ASSUME NEW i \in 1..n PROVE m + i \in 1..(m + n) /\ s[m + i].packet = t[i].packet
    BY <1>3
  <2>3. 1 \in 1..(m + n)
    BY <1>3
  <2>4. {s[k].packet : k \in 1..(m + n)} = {p} \cup {t[i].packet : i \in 1..n}
    <3>1. \E k \in 1..(m + n) : p = s[k].packet
      BY <1>2, <2>3
    <3>2. \A i \in 1..n : \E k \in 1..(m + n) : t[i].packet = s[k].packet
      BY <2>2
    <3>3. ASSUME NEW q
          PROVE  q \in {s[k].packet : k \in 1..(m + n)} <=> q \in {p} \cup {t[i].packet : i \in 1..n}
      <4>1. CASE q \in {s[k].packet : k \in 1..(m + n)}
        BY <2>1, <4>1
      <4>2. CASE q = p
        BY <3>1, <4>2
      <4>3. CASE q \in {t[i].packet : i \in 1..n}
        BY <3>2, <4>3
      <4> QED
        BY <4>1, <4>2, <4>3
    <3> QED
      BY <3>3
  <2>5. Before(m + n) = {Taken(j) : j \in 1..c} \cup {s[k].packet : k \in 1..(m + n)}
    BY <1>1 DEF Before
  <2>6. Before(n)' = {Taken(j) : j \in 1..Len(received)}' \cup {t[i].packet : i \in 1..n}
    BY <1>1 DEF Before
  <2> QED
    BY <1>7, <2>4, <2>5, <2>6
<1>9. ASSUME NEW i \in 1..l, t[i].at = 1
      PROVE  Follows(t[i].packet, Before(i - 1)')
  <2>1. m + i \in 1..Len(s) /\ s[m + i] = t[i] /\ (m + i) - 1 = m + (i - 1)
    BY <1>3
  <2>2. Follows(s[m + i].packet, Before((m + i) - 1))
    BY <1>1, <1>9, <2>1 DEF OrderInv
  <2>3. i - 1 \in 0..l
    BY <1>3
  <2>4. Before(i - 1)' = Before(m + (i - 1))
    BY <1>8, <2>3
  <2> QED
    BY <2>1, <2>2, <2>4
<1>10. ASSUME link' = "up", NEW thread \in Thread
       PROVE  Reaches(thread, Len(Stream), Sends(thread))'
  <2>1. Reaches(thread, Len(s), Sends(thread))
    BY <1>1, <1>10 DEF OrderInv
  <2>2. Sends(thread)' = Sends(thread)
    BY DEF Sends, NextId, senders
  <2>3. l \in 0..l /\ Before(l)' = Before(Len(s))
    BY <1>3, <1>8
  <2> QED
    BY <1>1, <2>1, <2>2, <2>3 DEF Reaches
<1>11. Follows(p, {Taken(j) : j \in 1..c})
  <2>1. 1 \in 1..Len(s) /\ s[1].at = 1
    <3>1. 1 \in 1..m /\ 1 \in 1..Len(s)
      BY <1>3
    <3>2. s[1] = [packet |-> p, at |-> 1]
      BY <1>4, <3>1
    <3> QED
      BY <3>1, <3>2
  <2>2. Follows(p, Before(1 - 1))
    BY <1>1, <1>2, <2>1 DEF OrderInv
  <2>3. Before(1 - 1) = {Taken(j) : j \in 1..c}
    <3>1. \A k : k \notin 1..(1 - 1)
      OBVIOUS
    <3> QED
      BY <1>1, <3>1 DEF Before
  <2> QED
    BY <2>2, <2>3
<1>12. ASSUME NEW i \in 1..(c + 1)
       PROVE  /\ received'[i] = Bytes(Taken(i)') /\ Taken(i)' \in Packet
              /\ Follows(Taken(i)', {Taken(j)' : j \in 1..(i - 1)})
  <2>1. CASE i = c + 1
    <3>1. {Taken(j)' : j \in 1..(i - 1)} = {Taken(j) : j \in 1..c}
      BY <1>5, <1>6, <2>1
    <3> QED
      BY <1>2, <1>5, <1>6, <1>11, <2>1, <3>1, SoundSubset
  <2>2. CASE i <= c
    <3>1. i \in 1..c /\ i \in DOMAIN received
      <4>1. received \in Seq(Seq(BytesOf(Sound)))
        BY DEF SoundInv, Typed
      <4> QED
        BY <1>1, <1>5, <2>2, <4>1
    <3>2. received'[i] = received[i] /\ Taken(i)' = Taken(i)
      BY <1>5, <1>6, <3>1
    <3>3. \A j \in 1..(i - 1) : Taken(j)' = Taken(j)
      BY <1>5, <1>6, <3>1
    <3>4. /\ received[i] = Bytes(Taken(i)) /\ Taken(i) \in Packet
          /\ Follows(Taken(i), {Taken(j) : j \in 1..(i - 1)})
      BY <1>1, <3>1 DEF OrderInv, PacketsInOrder
    <3>5. {Taken(j)' : j \in 1..(i - 1)} = {Taken(j) : j \in 1..(i - 1)}
      BY <3>3
    <3> QED
      BY <3>2, <3>4, <3>5
  <2> QED
    BY <1>5, <2>1, <2>2
<1>13. DOMAIN received' = 1..(c + 1) /\ Len(received') = c + 1
  <2>1. received' \in Seq(Seq(BytesOf(Sound)))
    BY <1>2, AppendProperties DEF SoundInv, Typed
  <2> QED
    BY <1>5, <2>1
<1>14. PacketsInOrder' /\ \A j \in 1..Len(received') : Taken(j)' \in Packet
  BY <1>12, <1>13 DEF PacketsInOrder
<1> QED
  BY <1>1, <1>9, <1>10, <1>14 DEF OrderInv

(* What the reader does, whether or not it completes a packet.             *)
LEMMA ReaderKeepsOrder ==
  ASSUME SoundInv, AlignedInv, OrderInv, ReaderStep
  PROVE  OrderInv'
<1>1. UNCHANGED <<senders, link, outQueue>>
  BY DEF ReaderStep, RecvSome, RecvNothing, GiveUp, ReadHeader, ReadFlowHeader, ReadPayload
<1>2. \A thread \in Thread : Sends(thread)' = Sends(thread)
  BY <1>1 DEF Sends, NextId, senders
<1>3. CASE RecvSome
  <2>1. Stream' = Stream
    BY <1>3, RecvStream, SoundSubset DEF SoundInv
  <2> QED
    BY <1>1, <1>2, <1>3, <2>1, OrderStays DEF RecvSome
<1>4. CASE UNCHANGED <<inQueue, buffer, received>>
  <2>1. Stream' = Stream
    BY <1>1, <1>4 DEF Stream
  <2> QED
    BY <1>1, <1>2, <1>4, <2>1, OrderStays
<1>5. CASE \/ ReadHeader /\ TakePacket /\ Reading.type = "HEARTBEAT"
           \/ ReadPayload
  <2>1. Len(buffer) >= 1 /\ Len(buffer) = Size(Reading)
    BY <1>5, CompleteWhenTaken
  <2>2. TakePacket /\ inQueue' = inQueue
    BY <1>5 DEF ReadHeader, ReadPayload
  <2> QED
    BY <1>1, <2>1, <2>2, TakeKeepsOrder
<1>6. CASE GiveUp
  <2>1. /\ Stream' = <<>> /\ link' # "up" /\ received' = received
        /\ \A i : i \notin 1..Len(<<>>)
    BY <1>6, GiveUpStream, EmptySeq
  <2> QED
    BY <2>1 DEF OrderInv, PacketsInOrder, Taken
<1> QED
  BY <1>3, <1>4, <1>5, <1>6
  DEF ReaderStep, RecvNothing, ReadHeader, ReadFlowHeader, EnterPart

(* A connection that breaks loses what it carries: the reader has the      *)
(* first bytes of the stream.                                              *)
LEMMA ResetKeepsOrder ==
  ASSUME SoundInv, OrderInv, UNCHANGED <<senders, reader>>, link' # "up",
         outQueue' = <<>>, inQueue' = <<>>
  PROVE  OrderInv'
<1>1. Typed(Sound) /\ Sound \subseteq Packet
  BY SoundSubset DEF SoundInv
<1>2. Stream' = buffer
  BY <1>1, ResetStream DEF reader
<1>3. /\ Len(buffer) \in Nat /\ Len(Stream) \in Nat /\ Len(buffer) <= Len(Stream)
      /\ \A i \in 1..Len(buffer) : Stream[i] = buffer[i]
  BY <1>1, StreamIs
<1>4. received' = received
  BY DEF reader
<1>5. ASSUME NEW n \in 0..Len(buffer) PROVE Before(n)' = Before(n)
  <2>1. \A k \in 1..n : Stream'[k] = Stream[k]
    BY <1>2, <1>3
  <2> QED
    BY <1>4, <2>1 DEF Before, Taken
<1>6. ASSUME NEW i \in 1..Len(Stream'), Stream'[i].at = 1
      PROVE  Follows(Stream'[i].packet, Before(i - 1)')
  <2>1. i \in 1..Len(Stream) /\ Stream'[i] = Stream[i] /\ i - 1 \in 0..Len(buffer)
    BY <1>2, <1>3
  <2> QED
    BY <1>5, <1>6, <2>1 DEF OrderInv
<1>7. PacketsInOrder' /\ \A j \in 1..Len(received') : Taken(j)' \in Packet
  BY <1>4 DEF OrderInv, PacketsInOrder, Taken
<1> QED
  BY <1>6, <1>7 DEF OrderInv

LEMMA OrderStep ==
  ASSUME SoundInv, SoundInv', AlignedInv, OrderInv, [Next]_vars
  PROVE  OrderInv'
<1>1. CASE \/ \E sender \in Sender : AwaitRoom(sender) \/ Lock(sender)
           \/ \E thread \in Thread : Unlock(thread)
           \/ TestQuiet \/ TryLock
  <2>1. Stream' = Stream /\ UNCHANGED <<link, reader>>
    BY <1>1, NothingSent
  <2>2. \A thread \in Thread : Sends(thread)' = Sends(thread)
    BY <1>1, SendsStay
  <2> QED
    BY <2>1, <2>2, OrderStays DEF reader
<1>2. ASSUME NEW thread \in Thread, SendSome(thread) PROVE OrderInv'
  BY <1>2, SendKeepsOrder
<1>3. CASE ReaderStep
  BY <1>3, ReaderKeepsOrder
<1>4. ASSUME UNCHANGED <<senders, reader>>, Stream' = Stream, link' = "up" => link = "up"
      PROVE  OrderInv'
  <2>1. \A thread \in Thread : Sends(thread)' = Sends(thread)
    BY <1>4 DEF Sends, NextId, senders
  <2> QED
    BY <1>4, <2>1, OrderStays DEF reader
<1>5. CASE Transfer
  <2>1. Stream' = Stream
    BY <1>5, TransferStream DEF SoundInv
  <2> QED
    BY <1>4, <1>5, <2>1 DEF Transfer
<1>6. CASE LinkEnds
  <2>1. link' # "up" /\ UNCHANGED <<senders, reader>>
    BY <1>6 DEF LinkEnds
  <2>2. CASE UNCHANGED <<outQueue, inQueue>>
    BY <1>4, <2>1, <2>2 DEF Stream, reader
  <2>3. CASE outQueue' = <<>> /\ inQueue' = <<>>
    BY <2>1, <2>3, ResetKeepsOrder
  <2> QED
    BY <1>6, <2>2, <2>3 DEF LinkEnds
<1>7. CASE UNCHANGED vars
  BY <1>4, <1>7 DEF vars, Stream, reader
<1> QED
  BY <1>1, <1>2, <1>3, <1>5, <1>6, <1>7, ThreadIs DEF Next, SenderStep, HeartbeatStep

(* However the sends of the threads and the reads of the other site are    *)
(* cut and interleaved, and wherever the connection ends: the reader takes *)
(* the packets of each sender entire and in their order, none missing and  *)
(* none twice (Bond.cpp:243, 311, 341, 55).                                *)
THEOREM TakenInOrder ==
  ASSUME SizesAgree
  PROVE  Spec => []PacketsInOrder
<1>1. Init => IndInv
  BY SoundInit, AlignedInit, OrderInit DEF IndInv
<1>2. IndInv /\ [Next]_vars => IndInv'
  BY SoundStep, AlignedStep, OrderStep DEF IndInv
<1>3. IndInv => PacketsInOrder
  BY DEF IndInv, OrderInv
<1> QED
  BY <1>1, <1>2, <1>3, PTL DEF Spec

=============================================================================
