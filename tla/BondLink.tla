------------------------------ MODULE BondLink ------------------------------
(***************************************************************************)
(* One direction of one link: the threads of a bond that send on it, the   *)
(* TCP connection, which knows bytes and no packets, and the looper of the *)
(* other bond that cuts them into packets again.                           *)
(*                                                                         *)
(* A byte is the pair of the packet it belongs to and its place in there.  *)
(* What a reader makes of bytes that are no header where it expects one is *)
(* not followed: it is "garbled".                                          *)
(***************************************************************************)
EXTENDS Integers, SequencesExt

CONSTANTS
  Sender,          \* the threads that call SendToTer or SendToSat
  Outbox,          \* the packets of each sender, in its order
  HeaderSize,      \* sizeof(Header)
  FlowHeaderSize,  \* sizeof(FlowHeader) - sizeof(Header)
  FillLimit,       \* fill level of the send buffer at which senders wait
  Heartbeats       \* bound on the number of heartbeats

Heartbeat == "heartbeat"
Thread == Sender \cup {Heartbeat}

(* size is what the header says, length what the buffer has behind it.     *)
Packet == [type : {"FLOW", "HEARTBEAT"}, sender : Thread, id : Nat, size : Nat, length : Nat]
Beat(number) ==
  [type |-> "HEARTBEAT", sender |-> Heartbeat, id |-> number, size |-> 0, length |-> 0]

ASSUME BondLinkAssumption ==
  /\ Heartbeat \notin Sender /\ "free" \notin Thread
  /\ HeaderSize \in Nat \ {0} /\ FlowHeaderSize \in Nat \ {0}
  /\ FillLimit \in Nat /\ Heartbeats \in Nat
  /\ Outbox \in [Sender -> Seq(Packet)]
  /\ \A sender \in Sender : \A i \in 1..Len(Outbox[sender]) :
       LET packet == Outbox[sender][i]
       IN  packet.type = "FLOW" /\ packet.sender = sender /\ packet.id = i

VARIABLES
  pc,         \* where each sending thread stands
  todo,       \* the packets each sender has not begun to send
  packet,     \* the packet each thread sends
  sentBytes,  \* bytes_written of each thread
  mutex,      \* who holds sendTerMutex_ (sendSatMutex_), or "free"
  beats,      \* how many heartbeats were made
  outQueue,   \* bytes in the send buffer (TIOCOUTQ)
  inQueue,    \* bytes in the receive buffer of the other site
  link,       \* "up", "fin": this site closed, "reset": the connection broke
  part,       \* where RecvFromConnection stands
  bytesRead,  \* bytes_read: of the part it stands at
  buffer,     \* the bytes of the packet it has so far
  received    \* the bytes of each packet it took from the link

senders == <<pc, todo, packet, sentBytes, mutex, beats>>
reader  == <<part, bytesRead, buffer, received>>
vars    == <<senders, outQueue, inQueue, link, reader>>

Size(p) ==
  IF p.type = "HEARTBEAT" THEN HeaderSize ELSE HeaderSize + FlowHeaderSize + p.length
Bytes(p) == [at \in 1..Size(p) |-> [packet |-> p, at |-> at]]

Goto(thread, label) == pc' = [pc EXCEPT ![thread] = label]

Init ==
  /\ pc = [thread \in Thread |-> "idle"]
  /\ todo = Outbox
  /\ packet = [thread \in Thread |-> Beat(0)]
  /\ sentBytes = [thread \in Thread |-> 0]
  /\ mutex = "free"
  /\ beats = 0
  /\ outQueue = <<>>
  /\ inQueue = <<>>
  /\ link = "up"
  /\ part = "header"
  /\ bytesRead = 0
  /\ buffer = <<>>
  /\ received = <<>>

----------------------------------------------------------------------------
(* SendToTer and SendToSat, called by the loopers of the flows.            *)

(* while (TIOCOUTQ > limit) sleep: left when the buffer drained.           *)
AwaitRoom(sender) ==
  /\ pc[sender] = "idle"
  /\ todo[sender] # <<>>
  /\ Len(outQueue) <= FillLimit
  /\ Goto(sender, "lock")
  /\ UNCHANGED <<todo, packet, sentBytes, mutex, beats, outQueue, inQueue, link, reader>>

(* What SendToConnection starts with.                                      *)
Begin(thread, p) ==
  /\ packet' = [packet EXCEPT ![thread] = p]
  /\ sentBytes' = [sentBytes EXCEPT ![thread] = 0]
  /\ Goto(thread, "send")

(* Faulty: the mutex is not waited for.                                    *)
LockIgnored(sender) ==
  /\ pc[sender] = "lock"
  /\ mutex' = sender
  /\ Begin(sender, Head(todo[sender]))
  /\ todo' = [todo EXCEPT ![sender] = Tail(@)]
  /\ UNCHANGED <<beats, outQueue, inQueue, link, reader>>

Lock(sender) ==
  /\ pc[sender] = "lock"
  /\ mutex = "free"
  /\ mutex' = sender
  /\ Begin(sender, Head(todo[sender]))
  /\ todo' = [todo EXCEPT ![sender] = Tail(@)]
  /\ UNCHANGED <<beats, outQueue, inQueue, link, reader>>

(* One Send: some of the bytes that are left.  A Send that fails changes   *)
(* nothing, and is tried again for ever.                                   *)
SendSome(thread) ==
  /\ pc[thread] = "send"
  /\ link = "up"
  /\ \E upTo \in (sentBytes[thread] + 1)..Size(packet[thread]) :
       /\ outQueue' = outQueue \o SubSeq(Bytes(packet[thread]), sentBytes[thread] + 1, upTo)
       /\ sentBytes' = [sentBytes EXCEPT ![thread] = upTo]
  /\ UNCHANGED <<pc, todo, packet, mutex, beats, inQueue, link, reader>>

(* Faulty: whatever Send accepted is taken for all.                        *)
UnlockEarly(thread) ==
  /\ pc[thread] = "send"
  /\ sentBytes[thread] > 0
  /\ mutex' = "free"
  /\ Goto(thread, "idle")
  /\ UNCHANGED <<todo, packet, sentBytes, beats, outQueue, inQueue, link, reader>>

(* The loop ends, the mutex is released and the packet deleted.            *)
Unlock(thread) ==
  /\ pc[thread] = "send"
  /\ sentBytes[thread] = Size(packet[thread])
  /\ mutex' = "free"
  /\ Goto(thread, "idle")
  /\ UNCHANGED <<todo, packet, sentBytes, beats, outQueue, inQueue, link, reader>>

----------------------------------------------------------------------------
(* WriteHeartBeatPacket                                                    *)

(* TIOCOUTQ == 0 || FIONREAD == 0: what there is to read on this socket    *)
(* belongs to the other direction and can be anything.                     *)
TestQuiet ==
  /\ pc[Heartbeat] = "idle"
  /\ beats < Heartbeats
  /\ \E nothingToRead \in BOOLEAN : outQueue = <<>> \/ nothingToRead
  /\ Goto(Heartbeat, "lock")
  /\ UNCHANGED <<todo, packet, sentBytes, mutex, beats, outQueue, inQueue, link, reader>>

(* Faulty: the mutex is not tried.                                         *)
BeatAnyway ==
  /\ pc[Heartbeat] = "lock"
  /\ mutex' = Heartbeat
  /\ beats' = beats + 1
  /\ Begin(Heartbeat, Beat(beats'))
  /\ UNCHANGED <<todo, outQueue, inQueue, link, reader>>

(* try_lock; when it fails the heartbeat is left out this time.            *)
TryLock ==
  /\ pc[Heartbeat] = "lock"
  /\ \/ /\ mutex = "free"
        /\ mutex' = Heartbeat
        /\ beats' = beats + 1
        /\ Begin(Heartbeat, Beat(beats'))
     \/ /\ mutex # "free"
        /\ Goto(Heartbeat, "idle")
        /\ UNCHANGED <<packet, sentBytes, mutex, beats>>
  /\ UNCHANGED <<todo, outQueue, inQueue, link, reader>>

----------------------------------------------------------------------------
(* The TCP connection.                                                     *)

Transfer ==
  /\ link # "reset"
  /\ outQueue # <<>>
  /\ inQueue' = Append(inQueue, Head(outQueue))
  /\ outQueue' = Tail(outQueue)
  /\ UNCHANGED <<senders, link, reader>>

LinkEnds ==
  /\ \/ link = "up" /\ link' = "fin" /\ UNCHANGED <<outQueue, inQueue>>
     \/ link # "reset" /\ link' = "reset" /\ outQueue' = <<>> /\ inQueue' = <<>>
  /\ UNCHANGED <<senders, reader>>

----------------------------------------------------------------------------
(* RecvFromConnection of the other bond.                                   *)

(* The packet the reader is in, once it has its first byte.                *)
Reading == buffer[1].packet

Wanted ==
  CASE part = "header"     -> HeaderSize
    [] part = "flowHeader" -> FlowHeaderSize
    [] part = "payload"    -> Reading.size
    [] OTHER               -> 0

EnterPart(label) == part' = label /\ bytesRead' = 0

(* Recv into what is left of this part.                                    *)
RecvSome ==
  /\ bytesRead < Wanted
  /\ \E count \in 1..(Wanted - bytesRead) :
       /\ count <= Len(inQueue)
       /\ buffer' = buffer \o SubSeq(inQueue, 1, count)
       /\ inQueue' = SubSeq(inQueue, count + 1, Len(inQueue))
       /\ bytesRead' = bytesRead + count
  /\ UNCHANGED <<senders, outQueue, link, part, received>>

(* Recv returned 0, or threw: with nothing read of this part the reader    *)
(* gives the bond up, otherwise the loop calls Recv again.                 *)
RecvNothing ==
  /\ bytesRead = 0
  /\ Wanted > 0
  /\ \/ link = "reset"
     \/ link = "fin" /\ outQueue = <<>> /\ inQueue = <<>>
  /\ part' = "shutdown"
  /\ UNCHANGED <<senders, outQueue, inQueue, link, bytesRead, buffer, received>>

(* Shutdown of both links, and the loopers are stopped.  Shutdown throws   *)
(* on a link that was reset, once more in the outermost catch and so out   *)
(* of the function, which the Looper then calls anew.  The other link of   *)
(* the bond is taken to be up.                                             *)
GiveUp ==
  /\ part = "shutdown"
  /\ EnterPart(IF link = "reset" THEN "header" ELSE "exited")
  /\ buffer' = <<>>
  /\ UNCHANGED <<senders, outQueue, inQueue, link, received>>

TakePacket ==
  /\ received' = Append(received, buffer)
  /\ buffer' = <<>>
  /\ EnterPart("header")

(* A heartbeat ends with its header.                                       *)
ReadHeader ==
  /\ part = "header"
  /\ bytesRead = Wanted
  /\ \/ /\ buffer # SubSeq(Bytes(Reading), 1, HeaderSize)
        /\ EnterPart("garbled")
        /\ UNCHANGED <<buffer, received>>
     \/ /\ buffer = SubSeq(Bytes(Reading), 1, HeaderSize)
        /\ IF Reading.type = "HEARTBEAT" THEN TakePacket
           ELSE EnterPart("flowHeader") /\ UNCHANGED <<buffer, received>>
  /\ UNCHANGED <<senders, outQueue, inQueue, link>>

(* Faulty: the payload is not read.                                        *)
ReadFlowHeaderOnly ==
  /\ part = "flowHeader"
  /\ bytesRead = Wanted
  /\ TakePacket
  /\ UNCHANGED <<senders, outQueue, inQueue, link>>

ReadFlowHeader ==
  /\ part = "flowHeader"
  /\ bytesRead = Wanted
  /\ EnterPart("payload")
  /\ UNCHANGED <<senders, outQueue, inQueue, link, buffer, received>>

(* A payload of 0 bytes is complete at once.                               *)
ReadPayload ==
  /\ part = "payload"
  /\ bytesRead = Wanted
  /\ TakePacket
  /\ UNCHANGED <<senders, outQueue, inQueue, link>>

----------------------------------------------------------------------------
SenderStep(sender) == AwaitRoom(sender) \/ Lock(sender) \/ SendSome(sender) \/ Unlock(sender)
HeartbeatStep == TestQuiet \/ TryLock \/ SendSome(Heartbeat) \/ Unlock(Heartbeat)
ReaderStep ==
  RecvSome \/ RecvNothing \/ GiveUp \/ ReadHeader \/ ReadFlowHeader \/ ReadPayload

Next ==
  \/ \E sender \in Sender : SenderStep(sender)
  \/ HeartbeatStep
  \/ Transfer
  \/ LinkEnds
  \/ ReaderStep

Spec == Init /\ [][Next]_vars

(* The threads are scheduled, the mutex is handed on and TCP delivers.     *)
(* Every sender has finitely many packets, so none can be passed over for  *)
(* ever and weak fairness is enough.                                       *)
FairSpec ==
  /\ Spec
  /\ \A sender \in Sender : WF_vars(SenderStep(sender))
  /\ WF_vars(TryLock \/ SendSome(Heartbeat) \/ Unlock(Heartbeat))
  /\ WF_vars(Transfer)
  /\ WF_vars(ReaderStep)

----------------------------------------------------------------------------
(* The bytes of some packets.                                              *)
BytesOf(packets) ==
  {byte \in [packet : packets, at : Nat \ {0}] : byte.at <= Size(byte.packet)}

(* The types of the sending threads, the connection and the reader.        *)
TypeOK ==
  /\ pc \in [Thread -> {"idle", "lock", "send"}]
  /\ todo \in [Sender -> Seq(Packet)]
  /\ packet \in [Thread -> Packet]
  /\ sentBytes \in [Thread -> Nat]
  /\ \A thread \in Thread : sentBytes[thread] <= Size(packet[thread])
  /\ mutex \in Thread \cup {"free"}
  /\ beats \in 0..Heartbeats
  /\ \A bytes \in {outQueue, inQueue, buffer} : bytes \in Seq(BytesOf(Packet))
  /\ link \in {"up", "fin", "reset"}
  /\ part \in {"header", "flowHeader", "payload", "shutdown", "garbled", "exited"}
  /\ bytesRead \in Nat
  /\ received \in Seq(Seq(BytesOf(Packet)))

(* What the reader has of its packet and what the link still carries.      *)
Stream == buffer \o inQueue \o outQueue

(* What the reader has of its packet and what the link still carries are   *)
(* whole packets one after the other, up to the one that is being sent:    *)
(* flows and heartbeats that share the link never cut into each other      *)
(* (Bond.cpp:243, 311, 341), and the reader starts at a header (Bond.cpp:55). *)
StreamAligned ==
  /\ part # "garbled"
  /\ Stream # <<>> => Stream[1].at = 1
  /\ \A i \in 1..(Len(Stream) - 1) :
       \/ /\ Stream[i+1].packet = Stream[i].packet
          /\ Stream[i+1].at = Stream[i].at + 1
       \/ Stream[i].at = Size(Stream[i].packet) /\ Stream[i+1].at = 1

(* The packet a reader took as its i-th.                                   *)
Taken(i) == received[i][1].packet

(* p is the next packet of its sender after those in earlier.              *)
Follows(p, earlier) ==
  LET own == {q \in earlier : q.sender = p.sender}
  IN  /\ \A q \in own : q.id < p.id
      /\ p.id = 1 \/ \E q \in own : q.id = p.id - 1

(* The packets of each thread are taken from the link entire, in the order *)
(* they were sent, none missing and none twice.                            *)
PacketsInOrder ==
  \A i \in DOMAIN received :
    /\ received[i] = Bytes(Taken(i))
    /\ Follows(Taken(i), {Taken(j) : j \in 1..(i - 1)})

(* Unless the link ends, every packet of every flow is taken from it: no   *)
(* thread keeps the mutex, and no heartbeat holds up the flows.            *)
AllArrive ==
  <>(link # "up" \/ \A sender \in Sender : \A i \in DOMAIN Outbox[sender] :
       Bytes(Outbox[sender][i]) \in Range(received))

(* A link that is closed between two packets ends its reader (Bond.cpp:63), *)
(* after it took the packets that were still under way.  One that is closed *)
(* within a part, or reset, does not.                                       *)
CleanEndNoticed ==
  link = "fin" /\ (\A thread \in Thread :
    pc[thread] = "send" => sentBytes[thread] \in {0, Size(packet[thread])})
      ~> part = "exited" \/ link = "reset"
=============================================================================
