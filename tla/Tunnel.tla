------------------------------- MODULE Tunnel -------------------------------
(***************************************************************************)
(* One connection through both sites: the flow of the local site (the      *)
(* variables of Flow), the flow of the remote site (those that start with  *)
(* r), the two links between them and the readers of the bonds, which find *)
(* or create the flow of a packet.                                         *)
(*                                                                         *)
(* What a flow handed to a link (sent) is what the bond of the other site  *)
(* reads, link by link in that order.  The destination accepts the         *)
(* connection of the remote site.                                          *)
(***************************************************************************)
EXTENDS Flow

CONSTANTS
  RemoteBytes,   \* bound on the bytes the destination writes
  PromptAccept   \* Accept inserts a flow before an answer of the peer arrives

ASSUME TunnelAssumption == RemoteBytes \in Nat /\ PromptAccept \in BOOLEAN

VARIABLES
  rRunning, rPc, rFlowPacket, rClosed, rToBondId, rToBond, rToConnection, rSatellite,
  rTotalBacklog, rInMap, rConnection, rDeleter, rDeletions, rEndpoint, rWritten,
  rReceived, rOutput, rSent,
  accepted,  \* Proxy::Accept: "listening", "made" the flow, "inserted" it
  made,      \* how many flows each site constructed for the connection
  taken,     \* which packets of the peer, by number, each site has received
  holds      \* the packet, if any, that a reader has found the flow of

Remote == INSTANCE Flow WITH
  running <- rRunning, pc <- rPc, flowPacket <- rFlowPacket, closed <- rClosed,
  toBondId <- rToBondId, toBond <- rToBond, toConnection <- rToConnection,
  satellite <- rSatellite, totalBacklog <- rTotalBacklog, inMap <- rInMap,
  connection <- rConnection, deleter <- rDeleter, deletions <- rDeletions,
  endpoint <- rEndpoint, written <- rWritten, received <- rReceived,
  output <- rOutput, sent <- rSent, MaxBytes <- RemoteBytes

remote  == <<rRunning, rPc, rFlowPacket, rClosed, rToBondId, rToBond, rToConnection,
             rSatellite, rTotalBacklog, rInMap, rConnection, rDeleter, rDeletions,
             rEndpoint, rWritten, rReceived, rOutput, rSent>>
bonds   == <<accepted, made, taken, holds>>
allVars == <<vars, remote, bonds>>

Path == {"ter", "sat"}
Site == {"local", "remote"}

(* What the reader of a link receives, in the order of the numbers.        *)
PeerSent(site) == IF site = "local" THEN rSent ELSE sent
Coming(site, path) ==
  {i \in DOMAIN PeerSent(site) : PeerSent(site)[i].path = path /\ i \notin taken[site]}

(* Find: a flow is in the map from its insertion until its destructor.     *)
InFlowMap(site) ==
  IF site = "local" THEN accepted = "inserted" /\ inMap ELSE made["remote"] > 0 /\ rInMap

----------------------------------------------------------------------------
TunnelInit ==
  /\ Init
  /\ Remote!Init
  /\ accepted = "listening"
  /\ made = [site \in Site |-> 0]
  /\ taken = [site \in Site |-> {}]
  /\ holds = [site \in Site |-> [path \in Path |-> {}]]

(* Flow::make starts the loopers, the insertion into the map follows.      *)
AcceptMakes ==
  /\ accepted = "listening"
  /\ accepted' = "made"
  /\ made' = [made EXCEPT !["local"] = @ + 1]
  /\ UNCHANGED <<vars, remote, taken, holds>>

AcceptInserts ==
  /\ accepted = "made"
  /\ accepted' = "inserted"
  /\ UNCHANGED <<vars, remote, made, taken, holds>>

(* Bond::RecvFromConnection up to the end of the critical section: receive *)
(* a packet, find its flow or make one.  A close packet makes none.  A     *)
(* second flow is counted, its packets are not followed.                   *)
ReadPacket(site, path) ==
  /\ site = "local" /\ PromptAccept => accepted = "inserted"
  /\ holds[site][path] = {}
  /\ \E i \in Coming(site, path) :
       /\ \A j \in Coming(site, path) : i <= j
       /\ taken' = [taken EXCEPT ![site] = @ \union {i}]
       /\ LET packet == PeerSent(site)[i].packet
          IN  \/ /\ InFlowMap(site)
                 /\ holds' = [holds EXCEPT ![site][path] = {packet}]
                 /\ UNCHANGED made
              \/ /\ ~InFlowMap(site)
                 /\ IsClose(packet)
                 /\ UNCHANGED <<holds, made>>
              \/ /\ ~InFlowMap(site)
                 /\ ~IsClose(packet)
                 /\ made' = [made EXCEPT ![site] = @ + 1]
                 /\ holds' = IF made[site] = 0
                             THEN [holds EXCEPT ![site][path] = {packet}]
                             ELSE holds
  /\ UNCHANGED <<vars, remote, accepted>>

(* Then, without the mutex, flow->WriteToFlow.                             *)
WritePacket(site, path) ==
  /\ \E packet \in holds[site][path] :
       \/ site = "local" /\ WriteToFlow(packet) /\ UNCHANGED remote
       \/ site = "remote" /\ Remote!WriteToFlow(packet) /\ UNCHANGED vars
  /\ holds' = [holds EXCEPT ![site][path] = {}]
  /\ UNCHANGED <<accepted, made, taken>>

LocalDoes(step) == accepted # "listening" /\ step /\ UNCHANGED <<remote, bonds>>
RemoteDoes(step) == made["remote"] > 0 /\ step /\ UNCHANGED <<vars, bonds>>

TunnelNext ==
  \/ AcceptMakes
  \/ AcceptInserts
  \/ \E site \in Site, path \in Path : ReadPacket(site, path) \/ WritePacket(site, path)
  \/ LocalDoes(FlowStep)
  \/ RemoteDoes(Remote!FlowStep)

TunnelSpec == TunnelInit /\ [][TunnelNext]_allVars

(* The threads of both sites are scheduled and the links deliver.          *)
FairTunnelSpec ==
  /\ TunnelSpec
  /\ WF_allVars(AcceptInserts)
  /\ \A site \in Site, path \in Path :
       WF_allVars(ReadPacket(site, path)) /\ WF_allVars(WritePacket(site, path))
  /\ WF_allVars(LocalDoes(ReaderStep)) /\ WF_allVars(RemoteDoes(Remote!ReaderStep))
  /\ WF_allVars(LocalDoes(WriterStep)) /\ WF_allVars(RemoteDoes(Remote!WriterStep))
  /\ WF_allVars(LocalDoes(BonderStep)) /\ WF_allVars(RemoteDoes(Remote!BonderStep))
  /\ WF_allVars(LocalDoes(DeleterStep)) /\ WF_allVars(RemoteDoes(Remote!DeleterStep))

----------------------------------------------------------------------------
(* The types of both flows, the readers and the accept loop.               *)
TypeOK ==
  /\ FlowTypeOK
  /\ Remote!FlowTypeOK
  /\ accepted \in {"listening", "made", "inserted"}
  /\ made \in [Site -> Nat]
  /\ taken \in [Site -> SUBSET Nat]
  /\ holds \in [Site -> [Path -> SUBSET Packet]]

(* No answer finds the FlowMap without the flow of the connection and no   *)
(* straggler on the slower link finds it gone: a second one is not made    *)
(* (Bond.cpp:186-198), and the pointer found under the mutex and used after*)
(* it was released (Bond.cpp:216) is not even being destroyed then.        *)
PacketsMeetTheirFlow ==
  /\ \A site \in Site : made[site] <= 1
  /\ \A path \in Path : holds["local"][path] # {} => deleter = "none"
  /\ \A path \in Path : holds["remote"][path] # {} => rDeleter = "none"

(* What a reader inserts is new to the queue, and the two readers of a     *)
(* site never hold packets of the same id: PeerAssumption of FlowLifecycle *)
(* is what the peer flow and the two links really provide.                 *)
InsertsAreFresh ==
  /\ \A path \in Path : \A packet \in holds["local"][path] : Fresh(toConnection, packet)
  /\ \A path \in Path : \A packet \in holds["remote"][path] : Fresh(rToConnection, packet)
  /\ \A site \in Site : \A p \in holds[site]["ter"], q \in holds[site]["sat"] : p.id # q.id

(* A close packet comes after all data: when a flow shuts its connection   *)
(* down because the peer ended, and did not end itself, its endpoint got   *)
(* everything the peer read, whichever links the packets took.             *)
CloseComesLast ==
  /\ pc[Writer] = "shutdown" /\ running[Reader] /\ endpoint # "reset" =>
       Len(output) = rReceived
  /\ rPc[Writer] = "shutdown" /\ rRunning[Reader] /\ rEndpoint # "reset" =>
       Len(rOutput) = received

(* Two byte pipes, as an endpoint would see a plain TCP connection: what   *)
(* Send writes (Flow.cpp:127) continues what was written, in order and     *)
(* without a hole, however the packets of the peer arrived.                *)
Pipes == INSTANCE BytePipes WITH
  wrote <- [near |-> written, far |-> rWritten],
  got <- [near |-> output, far |-> rOutput]
ImplementsPipes == Pipes!PipesSpec

(* Once the flow exists at both sites, the end of one stream ends all      *)
(* loopers of both flows.                                                  *)
EndsTogether ==
  /\ pc[Reader] = "eof" /\ made["remote"] > 0 ~>
       \A looper \in Looper : pc[looper] = "done" /\ rPc[looper] = "done"
  /\ rPc[Reader] = "eof" ~>
       \A looper \in Looper : pc[looper] = "done" /\ rPc[looper] = "done"

=============================================================================
