-------------------------------- MODULE Flow --------------------------------
(***************************************************************************)
(* One Flow: the proxied TCP connection of one endpoint and its two packet *)
(* queues, worked on by three looper threads, the detached thread that     *)
(* destroys the flow, and the endpoint.  Every action is what one thread   *)
(* does between two accesses to state another thread can see.              *)
(*                                                                         *)
(* A payload is the interval of the endpoint's byte stream it holds: size  *)
(* bytes starting at the byte number from.  A thread blocked in Pop is one *)
(* whose action is not enabled (BlockingFlowPacketQueue shows that the     *)
(* condition variable misses no wake-up).                                  *)
(***************************************************************************)
EXTENDS FlowPacketQueue

CONSTANTS
  BufferSize,    \* payload of one packet: 1024
  PreloadLimit,  \* backlog of the flow at which it stops reading: 4500000
  BacklogLimit,  \* backlog of the flow below which it may use ter: 2000
  TotalLimit,    \* backlog of all flows below which it may use ter: 74219
  Word,          \* byteSize_ of the FlowMap wraps around here: 2^64
  MaxBytes       \* bound on the bytes the endpoint writes

ASSUME FlowAssumption ==
  /\ BufferSize \in Nat \ {0}
  /\ PreloadLimit \in Nat \ {0}
  /\ BacklogLimit \in Nat
  /\ TotalLimit \in Nat
  /\ Word \in Nat \ {0}
  /\ MaxBytes \in Nat

VARIABLES
  running,       \* Looper.running_ of each looper
  pc,            \* where each looper stands in its function
  flowPacket,    \* the local variable of that name of each looper
  closed,        \* closed_
  toBondId,      \* toBondId_
  toBond,        \* toBondQueue_
  toConnection,  \* toConnectionQueue_
  satellite,     \* satellite_
  totalBacklog,  \* byteSize_ of the FlowMap
  inMap,         \* the FlowMap holds this flow
  connection,    \* the connection_ object: "open", "shut", "closed", "deleted"
  deleter,       \* where the detached thread stands in ~Flow
  deletions,     \* how many threads were detached to delete this
  endpoint,      \* the other end of connection_: "open", "fin", "reset"
  written,       \* bytes the endpoint wrote
  received,      \* bytes Recv returned
  output,        \* the bytes Send delivered to the endpoint, in order
  sent           \* the packets handed to the bond, each with its path

loopers  == <<running, pc, flowPacket>>
backlog  == <<satellite, totalBacklog>>
lifetime == <<inMap, connection, deleter, deletions>>
peer     == <<endpoint, written, received, output>>
vars     == <<loopers, closed, toBondId, toBond, toConnection, backlog, lifetime, peer, sent>>

Reader == "RecvFromConnection"
Writer == "SendToConnection"
Bonder == "SendToBond"
Looper == {Reader, Writer, Bonder}

Packet == [id : Nat, size : Nat, from : Nat]
NoPacket == [id |-> 0, size |-> 0, from |-> 0]
IsClose(packet) == packet.size = 0

Goto(looper, label) == pc' = [pc EXCEPT ![looper] = label]
Stop(looper) == running' = [running EXCEPT ![looper] = FALSE]
Hold(looper, packet) == flowPacket' = [flowPacket EXCEPT ![looper] = packet]

(* The constructor has started the three loopers.                          *)
Init ==
  /\ running = [looper \in Looper |-> TRUE]
  /\ pc = [looper \in Looper |-> IF looper = Reader THEN "poll" ELSE "pop"]
  /\ flowPacket = [looper \in Looper |-> NoPacket]
  /\ closed = FALSE
  /\ toBondId = 0
  /\ toBond = NewQueue
  /\ toConnection = NewQueue
  /\ satellite = FALSE
  /\ totalBacklog = 0
  /\ inMap = TRUE
  /\ connection = "open"
  /\ deleter = "none"
  /\ deletions = 0
  /\ endpoint = "open"
  /\ written = 0
  /\ received = 0
  /\ output = <<>>
  /\ sent = <<>>

----------------------------------------------------------------------------
(* The endpoint and its socket.                                            *)

EndpointWrites ==
  /\ endpoint = "open"
  /\ written < MaxBytes
  /\ written' = written + 1
  /\ UNCHANGED <<loopers, closed, toBondId, toBond, toConnection, backlog, lifetime,
                 endpoint, received, output, sent>>

EndpointCloses ==
  /\ \/ endpoint = "open" /\ endpoint' = "fin"
     \/ endpoint # "reset" /\ endpoint' = "reset"
  /\ UNCHANGED <<loopers, closed, toBondId, toBond, toConnection, backlog, lifetime,
                 written, received, output, sent>>

(* Recv returns what is there, at most a buffer full.                      *)
Available == IF written - received < BufferSize THEN written - received ELSE BufferSize

(* Recv returns 0, or throws and bytes_read stays 0.                       *)
AtEof ==
  \/ endpoint = "fin" /\ received = written
  \/ endpoint = "reset"
  \/ connection # "open"

----------------------------------------------------------------------------
(* RecvFromConnection                                                      *)

(* Poll reports the socket and the backlog lets the flow read.             *)
MayRead == pc[Reader] = "poll" /\ toBond.byteSize < PreloadLimit

RecvData ==
  /\ MayRead
  /\ endpoint # "reset"
  /\ Available > 0
  /\ Hold(Reader, [id |-> toBondId, size |-> Available, from |-> received])
  /\ received' = received + Available
  /\ toBondId' = toBondId + 1
  /\ Goto(Reader, "insert")
  /\ UNCHANGED <<running, closed, toBond, toConnection, backlog, lifetime,
                 endpoint, written, output, sent>>

RecvEof ==
  /\ MayRead
  /\ AtEof
  /\ Hold(Reader, [id |-> toBondId, size |-> 0, from |-> received])
  /\ toBondId' = toBondId + 1
  /\ Stop(Reader)
  /\ Goto(Reader, "eof")
  /\ UNCHANGED <<closed, toBond, toConnection, backlog, lifetime, peer, sent>>

(* Faulty: the queue is given up at every end of stream.                   *)
ReaderAlwaysClears ==
  /\ pc[Reader] = "eof"
  /\ Goto(Reader, "clear")
  /\ UNCHANGED <<running, flowPacket, closed, toBondId, toBond, toConnection, backlog,
                 lifetime, peer, sent>>

(* Closed from the bond's side before: the queue is given up.              *)
ReaderTestsClosed ==
  /\ pc[Reader] = "eof"
  /\ Goto(Reader, IF closed THEN "clear" ELSE "insert")
  /\ UNCHANGED <<running, flowPacket, closed, toBondId, toBond, toConnection, backlog,
                 lifetime, peer, sent>>

ClearToBond ==
  /\ pc[Reader] = "clear"
  /\ toBond' = Cleared(toBond)
  /\ Goto(Reader, "renumber")
  /\ UNCHANGED <<running, flowPacket, closed, toBondId, toConnection, backlog, lifetime,
                 peer, sent>>

(* assert(toBondQueue_.Empty()), then the close packet takes currentId.    *)
RenumberClose ==
  /\ pc[Reader] = "renumber"
  /\ Hold(Reader, [flowPacket[Reader] EXCEPT !.id = toBond.currentId])
  /\ Goto(Reader, "insert")
  /\ UNCHANGED <<running, closed, toBondId, toBond, toConnection, backlog, lifetime,
                 peer, sent>>

InsertToBond ==
  /\ pc[Reader] = "insert"
  /\ toBond' = Insert(toBond, flowPacket[Reader])
  /\ Goto(Reader, "account")
  /\ UNCHANGED <<running, flowPacket, closed, toBondId, toConnection, backlog, lifetime,
                 peer, sent>>

(* Faulty: the capacity of the packet is added, not what was read.         *)
AddCapacity ==
  /\ pc[Reader] = "account"
  /\ totalBacklog' = (totalBacklog + BufferSize) % Word
  /\ Goto(Reader, IF running[Reader] THEN "poll" ELSE "done")
  /\ UNCHANGED <<running, flowPacket, closed, toBondId, toBond, toConnection, satellite,
                 lifetime, peer, sent>>

(* addByteSize comes after the packet can be popped.                       *)
AddBacklog ==
  /\ pc[Reader] = "account"
  /\ totalBacklog' = (totalBacklog + flowPacket[Reader].size) % Word
  /\ Goto(Reader, IF running[Reader] THEN "poll" ELSE "done")
  /\ UNCHANGED <<running, flowPacket, closed, toBondId, toBond, toConnection, satellite,
                 lifetime, peer, sent>>

----------------------------------------------------------------------------
(* What SendToConnection and SendToBond do with a close packet.            *)

(* Faulty: the looper is not stopped.                                      *)
StopForgotten(looper) ==
  /\ pc[looper] = "stop"
  /\ Goto(looper, "test")
  /\ UNCHANGED <<running, flowPacket, closed, toBondId, toBond, toConnection, backlog,
                 lifetime, peer, sent>>

StopOnClose(looper) ==
  /\ pc[looper] = "stop"
  /\ Stop(looper)
  /\ Goto(looper, "test")
  /\ UNCHANGED <<flowPacket, closed, toBondId, toBond, toConnection, backlog, lifetime,
                 peer, sent>>

(* Faulty: the two branches are swapped.                                   *)
TestClosedInverted(looper) ==
  /\ pc[looper] = "test"
  /\ Goto(looper, IF closed THEN "mark" ELSE "delete")
  /\ UNCHANGED <<running, flowPacket, closed, toBondId, toBond, toConnection, backlog,
                 lifetime, peer, sent>>

(* The load of closed_; the store is a step of its own (Mark).             *)
TestClosed(looper) ==
  /\ pc[looper] = "test"
  /\ Goto(looper, IF closed THEN "delete" ELSE "mark")
  /\ UNCHANGED <<running, flowPacket, closed, toBondId, toBond, toConnection, backlog,
                 lifetime, peer, sent>>

(* Faulty: closed_ is set but the connection not shut down.                *)
MarkWithoutShutdown(looper) ==
  /\ pc[looper] = "mark"
  /\ closed' = TRUE
  /\ Goto(looper, IF looper = Writer THEN "done" ELSE "close")
  /\ UNCHANGED <<running, flowPacket, toBondId, toBond, toConnection, backlog, lifetime,
                 peer, sent>>

Mark(looper) ==
  /\ pc[looper] = "mark"
  /\ closed' = TRUE
  /\ Goto(looper, IF looper = Writer THEN "shutdown" ELSE "close")
  /\ UNCHANGED <<running, flowPacket, toBondId, toBond, toConnection, backlog, lifetime,
                 peer, sent>>

(* assert that no looper runs, then detach a thread that deletes the flow. *)
Delete(looper) ==
  /\ pc[looper] = "delete"
  /\ deletions' = deletions + 1
  /\ deleter' = IF deleter = "none" THEN "erase" ELSE deleter
  /\ Goto(looper, IF looper = Writer THEN "done" ELSE "close")
  /\ UNCHANGED <<running, flowPacket, closed, toBondId, toBond, toConnection, backlog,
                 inMap, connection, peer, sent>>

----------------------------------------------------------------------------
(* SendToConnection                                                        *)

PopToConnection ==
  /\ pc[Writer] = "pop"
  /\ toConnection.nextAvailable
  /\ Hold(Writer, Head(toConnection.deque))
  /\ toConnection' = Popped(toConnection)
  /\ Goto(Writer, IF IsClose(Head(toConnection.deque)) THEN "stop" ELSE "write")
  /\ UNCHANGED <<running, closed, toBondId, toBond, backlog, lifetime, peer, sent>>

Bytes(packet) == [i \in 1..packet.size |-> packet.from + i - 1]

(* Send throws when the connection is gone; the payload is then dropped.   *)
WriteToEndpoint ==
  /\ pc[Writer] = "write"
  /\ output' = IF connection = "open" /\ endpoint # "reset"
               THEN output \o Bytes(flowPacket[Writer]) ELSE output
  /\ Goto(Writer, "pop")
  /\ UNCHANGED <<running, flowPacket, closed, toBondId, toBond, toConnection, backlog,
                 lifetime, endpoint, written, received, sent>>

(* connection_->Shutdown(SHUT_RDWR), which wakes up the Poll of the reader. *)
ShutdownConnection ==
  /\ pc[Writer] = "shutdown"
  /\ connection' = IF connection = "open" THEN "shut" ELSE connection
  /\ Goto(Writer, "done")
  /\ UNCHANGED <<running, flowPacket, closed, toBondId, toBond, toConnection, backlog,
                 inMap, deleter, deletions, peer, sent>>

----------------------------------------------------------------------------
(* SendToBond                                                              *)

PopToBond ==
  /\ pc[Bonder] = "pop"
  /\ toBond.nextAvailable
  /\ Hold(Bonder, Head(toBond.deque))
  /\ toBond' = Popped(toBond)
  /\ Goto(Bonder, IF IsClose(Head(toBond.deque)) THEN "stop" ELSE "subtract")
  /\ UNCHANGED <<running, closed, toBondId, toConnection, backlog, lifetime, peer, sent>>

(* Faulty: a counter without the width of its type.                        *)
SubtractWithoutWrap ==
  /\ pc[Bonder] = "subtract"
  /\ totalBacklog' = totalBacklog - flowPacket[Bonder].size
  /\ Goto(Bonder, "route")
  /\ UNCHANGED <<running, flowPacket, closed, toBondId, toBond, toConnection, satellite,
                 lifetime, peer, sent>>

SubtractBacklog ==
  /\ pc[Bonder] = "subtract"
  /\ totalBacklog' = (totalBacklog - flowPacket[Bonder].size) % Word
  /\ Goto(Bonder, "route")
  /\ UNCHANGED <<running, flowPacket, closed, toBondId, toBond, toConnection, satellite,
                 lifetime, peer, sent>>

HandOver(packet, path) == sent' = Append(sent, [packet |-> packet, path |-> path])

(* The condition of SendToTer, given satellite_ after the timeout test.    *)
TakesTer(packet, onSatellite) ==
  /\ \/ toBond.byteSize < BacklogLimit
     \/ totalBacklog < TotalLimit
     \/ packet.id = 0
  /\ ~onSatellite

(* More than 600 ms since the last packet, or not: any interval can pass.  *)
Route ==
  /\ pc[Bonder] = "route"
  /\ \E onSatellite \in {satellite, FALSE} :
       IF TakesTer(flowPacket[Bonder], onSatellite)
       THEN HandOver(flowPacket[Bonder], "ter") /\ satellite' = onSatellite
       ELSE HandOver(flowPacket[Bonder], "sat") /\ satellite' = TRUE
  /\ Goto(Bonder, "pop")
  /\ UNCHANGED <<running, flowPacket, closed, toBondId, toBond, toConnection,
                 totalBacklog, lifetime, peer>>

(* The close packet always takes ter.                                      *)
SendClose ==
  /\ pc[Bonder] = "close"
  /\ HandOver(flowPacket[Bonder], "ter")
  /\ Goto(Bonder, "done")
  /\ UNCHANGED <<running, flowPacket, closed, toBondId, toBond, toConnection, backlog,
                 lifetime, peer>>

----------------------------------------------------------------------------
(* ~Flow, run by the detached thread                                       *)

EraseFromMap ==
  /\ deleter = "erase"
  /\ inMap' = FALSE
  /\ deleter' = "close"
  /\ UNCHANGED <<loopers, closed, toBondId, toBond, toConnection, backlog, connection,
                 deletions, peer, sent>>

CloseConnection ==
  /\ deleter = "close"
  /\ connection' = "closed"
  /\ deleter' = "free"
  /\ UNCHANGED <<loopers, closed, toBondId, toBond, toConnection, backlog, inMap,
                 deletions, peer, sent>>

FreeConnection ==
  /\ deleter = "free"
  /\ connection' = "deleted"
  /\ deleter' = "join"
  /\ UNCHANGED <<loopers, closed, toBondId, toBond, toConnection, backlog, inMap,
                 deletions, peer, sent>>

(* Faulty: the threads are not waited for.                                 *)
JoinNothing ==
  /\ deleter = "join"
  /\ deleter' = "deleted"
  /\ UNCHANGED <<loopers, closed, toBondId, toBond, toConnection, backlog, inMap,
                 connection, deletions, peer, sent>>

(* The destructors of the loopers join their threads; then the memory goes. *)
JoinLoopers ==
  /\ deleter = "join"
  /\ \A looper \in Looper : pc[looper] = "done"
  /\ deleter' = "deleted"
  /\ UNCHANGED <<loopers, closed, toBondId, toBond, toConnection, backlog, inMap,
                 connection, deletions, peer, sent>>

----------------------------------------------------------------------------
(* WriteToFlow, called by the loopers of the bond.                         *)
WriteToFlow(packet) ==
  /\ toConnection' = Insert(toConnection, packet)
  /\ UNCHANGED <<loopers, closed, toBondId, toBond, backlog, lifetime, peer, sent>>

ReaderStep == RecvData \/ RecvEof \/ ReaderTestsClosed \/ ClearToBond \/ RenumberClose
              \/ InsertToBond \/ AddBacklog
CloseStep(looper) == StopOnClose(looper) \/ TestClosed(looper) \/ Mark(looper) \/ Delete(looper)
WriterStep == PopToConnection \/ WriteToEndpoint \/ CloseStep(Writer) \/ ShutdownConnection
BonderStep == PopToBond \/ SubtractBacklog \/ Route \/ CloseStep(Bonder) \/ SendClose
DeleterStep == EraseFromMap \/ CloseConnection \/ FreeConnection \/ JoinLoopers
EndpointStep == EndpointWrites \/ EndpointCloses

FlowStep == ReaderStep \/ WriterStep \/ BonderStep \/ DeleterStep \/ EndpointStep

(* The threads run: Linux schedules each of them, the bond accepts what is  *)
(* handed to it and the endpoint reads what is sent to it.                 *)
FlowFairness ==
  WF_vars(ReaderStep) /\ WF_vars(WriterStep) /\ WF_vars(BonderStep) /\ WF_vars(DeleterStep)

----------------------------------------------------------------------------
FlowTypeOK ==
  /\ running \in [Looper -> BOOLEAN]
  /\ pc \in [Looper -> {"poll", "eof", "clear", "renumber", "insert", "account", "pop",
                        "write", "stop", "test", "mark", "delete", "shutdown",
                        "subtract", "route", "close", "done"}]
  /\ flowPacket \in [Looper -> Packet]
  /\ closed \in BOOLEAN
  /\ toBondId \in Nat
  /\ toBond \in [deque : Seq(Packet), nextAvailable : BOOLEAN,
                 currentId : Nat, size : Int, byteSize : Int]
  /\ toConnection \in [deque : Seq(Packet), nextAvailable : BOOLEAN,
                       currentId : Nat, size : Int, byteSize : Int]
  /\ satellite \in BOOLEAN
  /\ totalBacklog \in 0..(Word - 1)
  /\ inMap \in BOOLEAN
  /\ connection \in {"open", "shut", "closed", "deleted"}
  /\ deleter \in {"none", "erase", "close", "free", "join", "deleted"}
  /\ deletions \in Nat
  /\ endpoint \in {"open", "fin", "reset"}
  /\ written \in Nat
  /\ received \in 0..written
  /\ output \in Seq(Nat)
  /\ sent \in Seq([packet : Packet, path : {"ter", "sat"}])
============================================================================
