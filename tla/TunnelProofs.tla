---------------------------- MODULE TunnelProofs ----------------------------
(***************************************************************************)
(* The safety of Tunnel: both flows keep the invariant of one flow, given  *)
(* as packets of the peer what the other flow really sent, and as those    *)
(* still coming what the links and the readers of the bonds really hold.   *)
(***************************************************************************)
EXTENDS Tunnel, SequenceTheorems, TLAPS

(* The lemmas about one flow, for each of the two.  Those cited here are   *)
(* about any set of packets; PeerPackets and incoming, the peer of         *)
(* FlowLifecycle, do not occur in them.                                    *)
Near == INSTANCE FlowLifecycleProofs WITH PeerPackets <- {}, incoming <- {}
Far == INSTANCE FlowLifecycleProofs WITH
  running <- rRunning, pc <- rPc, flowPacket <- rFlowPacket, closed <- rClosed,
  toBondId <- rToBondId, toBond <- rToBond, toConnection <- rToConnection,
  satellite <- rSatellite, totalBacklog <- rTotalBacklog, inMap <- rInMap,
  connection <- rConnection, deleter <- rDeleter, deletions <- rDeletions,
  endpoint <- rEndpoint, written <- rWritten, received <- rReceived,
  output <- rOutput, sent <- rSent, MaxBytes <- RemoteBytes,
  PeerPackets <- {}, incoming <- {}

----------------------------------------------------------------------------
(* Both instances mean by the actions of Flow what Tunnel means by them.   *)

LEMMA NearFlowStep == FlowStep => Near!FlowStep
<1> USE DEF Goto, Stop, Hold, Looper, Reader, Writer, Bonder, loopers, backlog, lifetime,
            peer, Near!Goto, Near!Stop, Near!Hold, Near!Looper, Near!Reader, Near!Writer,
            Near!Bonder, Near!loopers, Near!backlog, Near!lifetime, Near!peer
<1>1. ReaderStep => Near!ReaderStep
  BY DEF ReaderStep, RecvData, RecvEof, AtEof, ReaderTestsClosed, ClearToBond, RenumberClose,
     InsertToBond, AddBacklog, MayRead, Available, Cleared, Insert, Placed, LastBelow,
     IsNext, InsertAt, Near!ReaderStep, Near!RecvData, Near!RecvEof, Near!AtEof,
     Near!ReaderTestsClosed, Near!ClearToBond, Near!RenumberClose, Near!InsertToBond,
     Near!AddBacklog, Near!MayRead, Near!Available, Near!Cleared, Near!Insert,
     Near!Placed, Near!LastBelow, Near!IsNext, Near!InsertAt
<1>2. WriterStep => Near!WriterStep
  BY DEF WriterStep, PopToConnection, WriteToEndpoint, ShutdownConnection, Bytes, CloseStep,
     StopOnClose, TestClosed, Mark, Delete, Popped, IsNext, IsClose, Near!WriterStep,
     Near!PopToConnection, Near!WriteToEndpoint, Near!ShutdownConnection, Near!Bytes,
     Near!CloseStep, Near!StopOnClose, Near!TestClosed, Near!Mark, Near!Delete,
     Near!Popped, Near!IsNext, Near!IsClose
<1>3. BonderStep => Near!BonderStep
  BY DEF BonderStep, PopToBond, SubtractBacklog, Route, SendClose, TakesTer, HandOver,
     CloseStep, StopOnClose, TestClosed, Mark, Delete, Popped, IsNext, IsClose,
     Near!BonderStep, Near!PopToBond, Near!SubtractBacklog, Near!Route, Near!SendClose,
     Near!TakesTer, Near!HandOver, Near!CloseStep, Near!StopOnClose, Near!TestClosed,
     Near!Mark, Near!Delete, Near!Popped, Near!IsNext, Near!IsClose
<1>4. (DeleterStep \/ EndpointStep) => (Near!DeleterStep \/ Near!EndpointStep)
  BY DEF DeleterStep, EraseFromMap, CloseConnection, FreeConnection, JoinLoopers,
     EndpointStep, EndpointWrites, EndpointCloses, Near!DeleterStep, Near!EraseFromMap,
     Near!CloseConnection, Near!FreeConnection, Near!JoinLoopers, Near!EndpointStep,
     Near!EndpointWrites, Near!EndpointCloses
<1> QED
  BY <1>1, <1>2, <1>3, <1>4 DEF FlowStep, Near!FlowStep

LEMMA FarFlowStep == Remote!FlowStep => Far!FlowStep
<1> USE DEF Remote!Goto, Remote!Stop, Remote!Hold, Remote!Looper, Remote!Reader,
            Remote!Writer, Remote!Bonder, Remote!loopers, Remote!backlog,
            Remote!lifetime, Remote!peer, Far!Goto, Far!Stop, Far!Hold, Far!Looper,
            Far!Reader, Far!Writer, Far!Bonder, Far!loopers, Far!backlog, Far!lifetime,
            Far!peer
<1>1. Remote!ReaderStep => Far!ReaderStep
  BY DEF Remote!ReaderStep, Remote!RecvData, Remote!RecvEof, Remote!AtEof,
     Remote!ReaderTestsClosed, Remote!ClearToBond, Remote!RenumberClose,
     Remote!InsertToBond, Remote!AddBacklog, Remote!MayRead, Remote!Available,
     Remote!Cleared, Remote!Insert, Remote!Placed, Remote!LastBelow, Remote!IsNext,
     Remote!InsertAt, Far!ReaderStep, Far!RecvData, Far!RecvEof, Far!AtEof,
     Far!ReaderTestsClosed, Far!ClearToBond, Far!RenumberClose, Far!InsertToBond,
     Far!AddBacklog, Far!MayRead, Far!Available, Far!Cleared, Far!Insert, Far!Placed,
     Far!LastBelow, Far!IsNext, Far!InsertAt
<1>2. Remote!WriterStep => Far!WriterStep
  BY DEF Remote!WriterStep, Remote!PopToConnection, Remote!WriteToEndpoint,
     Remote!ShutdownConnection, Remote!Bytes, Remote!CloseStep, Remote!StopOnClose,
     Remote!TestClosed, Remote!Mark, Remote!Delete, Remote!Popped, Remote!IsNext,
     Remote!IsClose, Far!WriterStep, Far!PopToConnection, Far!WriteToEndpoint,
     Far!ShutdownConnection, Far!Bytes, Far!CloseStep, Far!StopOnClose, Far!TestClosed,
     Far!Mark, Far!Delete, Far!Popped, Far!IsNext, Far!IsClose
<1>3. Remote!BonderStep => Far!BonderStep
  BY DEF Remote!BonderStep, Remote!PopToBond, Remote!SubtractBacklog, Remote!Route,
     Remote!SendClose, Remote!TakesTer, Remote!HandOver, Remote!CloseStep,
     Remote!StopOnClose, Remote!TestClosed, Remote!Mark, Remote!Delete, Remote!Popped,
     Remote!IsNext, Remote!IsClose, Far!BonderStep, Far!PopToBond, Far!SubtractBacklog,
     Far!Route, Far!SendClose, Far!TakesTer, Far!HandOver, Far!CloseStep,
     Far!StopOnClose, Far!TestClosed, Far!Mark, Far!Delete, Far!Popped, Far!IsNext,
     Far!IsClose
<1>4. (Remote!DeleterStep \/ Remote!EndpointStep) => (Far!DeleterStep \/ Far!EndpointStep)
  BY DEF Remote!DeleterStep, Remote!EraseFromMap, Remote!CloseConnection,
     Remote!FreeConnection, Remote!JoinLoopers, Remote!EndpointStep,
     Remote!EndpointWrites, Remote!EndpointCloses, Far!DeleterStep, Far!EraseFromMap,
     Far!CloseConnection, Far!FreeConnection, Far!JoinLoopers, Far!EndpointStep,
     Far!EndpointWrites, Far!EndpointCloses
<1> QED
  BY <1>1, <1>2, <1>3, <1>4 DEF Remote!FlowStep, Far!FlowStep

LEMMA NearWriteToFlow == ASSUME NEW packet, WriteToFlow(packet) PROVE Near!WriteToFlow(packet)
  BY DEF WriteToFlow, Insert, Placed, LastBelow, IsNext, InsertAt, loopers, backlog,
     lifetime, peer, Near!WriteToFlow, Near!Insert, Near!Placed, Near!LastBelow,
     Near!IsNext, Near!InsertAt, Near!loopers, Near!backlog, Near!lifetime, Near!peer

LEMMA NearInit == Init => Near!Init
  BY DEF Init, NewQueue, NoPacket, Looper, Reader, Writer, Bonder, Near!Init, Near!NewQueue,
     Near!NoPacket, Near!Looper, Near!Reader, Near!Writer, Near!Bonder

LEMMA NearVars == UNCHANGED vars => UNCHANGED Near!vars
  BY DEF vars, loopers, backlog, lifetime, peer, Near!vars, Near!loopers, Near!backlog,
     Near!lifetime, Near!peer

LEMMA FarWriteToFlow == ASSUME NEW packet, Remote!WriteToFlow(packet) PROVE Far!WriteToFlow(packet)
  BY DEF Remote!WriteToFlow, Remote!Insert, Remote!Placed, Remote!LastBelow, Remote!IsNext,
     Remote!InsertAt, Remote!loopers, Remote!backlog, Remote!lifetime, Remote!peer,
     Far!WriteToFlow, Far!Insert, Far!Placed, Far!LastBelow, Far!IsNext, Far!InsertAt,
     Far!loopers, Far!backlog, Far!lifetime, Far!peer

LEMMA FarInit == Remote!Init => Far!Init
  BY DEF Remote!Init, Remote!NewQueue, Remote!NoPacket, Remote!Looper, Remote!Reader,
     Remote!Writer, Remote!Bonder, Far!Init, Far!NewQueue, Far!NoPacket, Far!Looper,
     Far!Reader, Far!Writer, Far!Bonder

LEMMA FarVars == UNCHANGED remote => UNCHANGED Far!vars
  BY DEF remote, Far!vars, Far!loopers, Far!backlog, Far!lifetime, Far!peer

LEMMA NearPackets ==
  /\ Near!Packet = Packet /\ Far!Packet = Packet
  /\ \A p \in Packet : (Near!IsClose(p) <=> IsClose(p)) /\ (Far!IsClose(p) <=> IsClose(p))
  /\ \A queue, p : /\ Near!Fresh(queue, p) <=> Fresh(queue, p)
                   /\ Far!Fresh(queue, p) <=> Fresh(queue, p)
  BY DEF Packet, IsClose, Fresh, Near!Packet, Near!IsClose, Near!Fresh,
     Far!Packet, Far!IsClose, Far!Fresh

LEMMA SameNumbering ==
  \A packets : /\ Near!WellNumbered(packets) <=> Far!WellNumbered(packets)
               /\ Near!WellNumbered(packets) => packets \subseteq Packet
  BY DEF Near!WellNumbered, Far!WellNumbered, Near!Packet, Far!Packet, Packet,
     Near!IsClose, Far!IsClose

(* What the instances assume.                                              *)
LEMMA NoPeer ==
  /\ Near!WellNumbered({}) /\ Far!WellNumbered({})
  /\ Near!FlowAssumption /\ Far!FlowAssumption
  BY FlowAssumption, TunnelAssumption
  DEF Near!WellNumbered, Far!WellNumbered, Near!FlowAssumption, Far!FlowAssumption

----------------------------------------------------------------------------
(* The packets of the peer on their way to a site: on a link, or held by a *)
(* reader of its bond.                                                     *)

Untaken(site) == {PeerSent(site)[i].packet : i \in DOMAIN PeerSent(site) \ taken[site]}
StillComing(site) == Untaken(site) \union holds[site]["ter"] \union holds[site]["sat"]

BondTypes ==
  /\ accepted \in {"listening", "made", "inserted"}
  /\ made \in [Site -> Nat]
  /\ taken \in [Site -> SUBSET Nat]
  /\ holds \in [Site -> [Path -> SUBSET Packet]]

(* What a reader holds it has taken from its link.                         *)
TakenInv ==
  \A site \in Site :
    /\ taken[site] \subseteq DOMAIN PeerSent(site)
    /\ \A path \in Path : \A p \in holds[site][path] :
         \E i \in taken[site] : PeerSent(site)[i].packet = p /\ PeerSent(site)[i].path = path

NearInv == Near!FlowInv(Far!SentPackets, StillComing("local"))
FarInv == Far!FlowInv(Near!SentPackets, StillComing("remote"))

(* A flow is in the map from its insertion to its end, when no packet is  *)
(* left to ask for another one; before it is inserted one can.             *)
MadeInv ==
  /\ made["remote"] <= 1
  /\ PromptAccept => made["local"] = IF accepted = "listening" THEN 0 ELSE 1

IndInv == BondTypes /\ TakenInv /\ MadeInv /\ NearInv /\ FarInv

LEMMA NearSentFacts ==
  ASSUME NearInv
  PROVE  /\ Far!WellNumbered(Near!SentPackets)
         /\ Near!StreamTypes /\ Near!SentInv /\ Near!LooperTypes
         /\ Len(sent) \in Nat /\ DOMAIN sent = 1..Len(sent)
         /\ \A i \in DOMAIN sent : sent[i].packet \in Packet /\ sent[i].packet.id = i - 1
         /\ Near!SentPackets = {sent[i].packet : i \in DOMAIN sent}
<1>1. Near!StreamTypes /\ Near!SentInv /\ Near!LooperTypes
  BY DEF NearInv, Near!FlowInv
<1>2. Near!WellNumbered(Near!SentPackets)
  BY <1>1, Near!SentIsWellNumbered, NoPeer, FlowAssumption, TunnelAssumption
<1>3. /\ Len(sent) \in Nat /\ DOMAIN sent = 1..Len(sent)
      /\ \A i \in DOMAIN sent : sent[i].packet \in Near!Packet
  BY <1>1, Near!SentTypes, NoPeer, FlowAssumption, TunnelAssumption
<1>4. \A i \in DOMAIN sent : sent[i].packet.id = i - 1
  BY <1>1 DEF Near!SentInv, Near!OutgoingWellFormed
<1> QED
  BY <1>1, <1>2, <1>3, <1>4, NearPackets, SameNumbering DEF Near!SentPackets

LEMMA NearNumbered == NearInv => Far!WellNumbered(Near!SentPackets)
  BY NearSentFacts

LEMMA NearNumberedNext == NearInv' => Far!WellNumbered(Near!SentPackets)'
  BY NearNumbered, PTL

LEMMA FarSentFacts ==
  ASSUME FarInv
  PROVE  /\ Near!WellNumbered(Far!SentPackets)
         /\ Far!StreamTypes /\ Far!SentInv /\ Far!LooperTypes
         /\ Len(rSent) \in Nat /\ DOMAIN rSent = 1..Len(rSent)
         /\ \A i \in DOMAIN rSent : rSent[i].packet \in Packet /\ rSent[i].packet.id = i - 1
         /\ Far!SentPackets = {rSent[i].packet : i \in DOMAIN rSent}
<1>1. Far!StreamTypes /\ Far!SentInv /\ Far!LooperTypes
  BY DEF FarInv, Far!FlowInv
<1>2. Far!WellNumbered(Far!SentPackets)
  BY <1>1, Far!SentIsWellNumbered, NoPeer, FlowAssumption, TunnelAssumption
<1>3. /\ Len(rSent) \in Nat /\ DOMAIN rSent = 1..Len(rSent)
      /\ \A i \in DOMAIN rSent : rSent[i].packet \in Far!Packet
  BY <1>1, Far!SentTypes, NoPeer, FlowAssumption, TunnelAssumption
<1>4. \A i \in DOMAIN rSent : rSent[i].packet.id = i - 1
  BY <1>1 DEF Far!SentInv, Far!OutgoingWellFormed
<1> QED
  BY <1>1, <1>2, <1>3, <1>4, NearPackets, SameNumbering DEF Far!SentPackets

LEMMA FarNumbered == FarInv => Near!WellNumbered(Far!SentPackets)
  BY FarSentFacts

LEMMA FarNumberedNext == FarInv' => Near!WellNumbered(Far!SentPackets)'
  BY FarNumbered, PTL

(* The flow of the local site steps, or a reader writes to it, and its peer *)
(* sends nothing.                                                          *)
LEMMA NearKeeps ==
  ASSUME NearInv, FarInv,
         rSent' = rSent, StillComing("local")' \subseteq StillComing("local"),
         \/ UNCHANGED Near!vars
         \/ Near!FlowStep
         \/ \E packet \in StillComing("local") :
              packet \notin StillComing("local")' /\ Near!WriteToFlow(packet)
  PROVE  NearInv'
<1>1. PICK packets, coming, left : /\ packets = Far!SentPackets
                                   /\ coming = StillComing("local")
                                   /\ left = StillComing("local")'
  OBVIOUS
<1>2. Near!WellNumbered(packets) /\ Near!FlowInv(packets, coming) /\ left \in SUBSET coming
  BY <1>1, FarSentFacts DEF NearInv
<1>3. \/ UNCHANGED Near!vars
      \/ Near!FlowStep
      \/ \E packet \in coming : packet \notin left /\ Near!WriteToFlow(packet)
  BY <1>1
<1>4. Near!FlowInv(packets, left)'
  BY <1>2, <1>3, Near!FlowInvStep, NoPeer, FlowAssumption, TunnelAssumption
<1>5. packets = Far!SentPackets'
  BY <1>1 DEF Far!SentPackets
<1> QED
  BY <1>1, <1>4, <1>5 DEF NearInv, Near!FlowInv, Near!IncomingFresh, Near!DeliveryInv

(* The peer of the flow of the local site sends a packet.                  *)
LEMMA NearGrows ==
  ASSUME NearInv, FarInv, FarInv', UNCHANGED Near!vars, NEW packet \in Packet,
         Far!SentPackets' = Far!SentPackets \union {packet},
         \A p \in Far!SentPackets : p.id < packet.id /\ ~Near!IsClose(p),
         StillComing("local")' = StillComing("local") \union {packet}
  PROVE  NearInv'
<1>1. PICK packets, coming, sent2 : /\ packets = Far!SentPackets
                                    /\ coming = StillComing("local")
                                    /\ sent2 = packet
  OBVIOUS
<1>2. Near!WellNumbered(packets) /\ Near!FlowInv(packets, coming) /\ sent2 \in Near!Packet
  BY <1>1, FarSentFacts, NearPackets DEF NearInv
<1>3. \A p \in packets : p.id < sent2.id /\ ~Near!IsClose(p)
  BY <1>1
<1>4. Near!FlowInv(packets \union {sent2}, coming \union {sent2})
  BY <1>2, <1>3, Near!FlowInvGrows, NoPeer, FlowAssumption, TunnelAssumption
<1>5. PICK more, moreComing : more = packets \union {sent2} /\ moreComing = coming \union {sent2}
  OBVIOUS
<1>6. Near!WellNumbered(more)
  BY <1>1, <1>5, FarNumberedNext DEF Near!WellNumbered
<1>7. Near!FlowInv(more, moreComing)'
  BY <1>4, <1>5, <1>6, Near!FlowInvStep, NoPeer, FlowAssumption, TunnelAssumption
<1> QED
  BY <1>1, <1>5, <1>7 DEF NearInv, Near!FlowInv, Near!IncomingFresh, Near!DeliveryInv

(* The flow of the remote site steps, or a reader writes to it, and its peer *)
(* sends nothing.                                                          *)
LEMMA FarKeeps ==
  ASSUME FarInv, NearInv,
         sent' = sent, StillComing("remote")' \subseteq StillComing("remote"),
         \/ UNCHANGED Far!vars
         \/ Far!FlowStep
         \/ \E packet \in StillComing("remote") :
              packet \notin StillComing("remote")' /\ Far!WriteToFlow(packet)
  PROVE  FarInv'
<1>1. PICK packets, coming, left : /\ packets = Near!SentPackets
                                   /\ coming = StillComing("remote")
                                   /\ left = StillComing("remote")'
  OBVIOUS
<1>2. Far!WellNumbered(packets) /\ Far!FlowInv(packets, coming) /\ left \in SUBSET coming
  BY <1>1, NearSentFacts DEF FarInv
<1>3. \/ UNCHANGED Far!vars
      \/ Far!FlowStep
      \/ \E packet \in coming : packet \notin left /\ Far!WriteToFlow(packet)
  BY <1>1
<1>4. Far!FlowInv(packets, left)'
  BY <1>2, <1>3, Far!FlowInvStep, NoPeer, FlowAssumption, TunnelAssumption
<1>5. packets = Near!SentPackets'
  BY <1>1 DEF Near!SentPackets
<1> QED
  BY <1>1, <1>4, <1>5 DEF FarInv, Far!FlowInv, Far!IncomingFresh, Far!DeliveryInv

(* The peer of the flow of the remote site sends a packet.                  *)
LEMMA FarGrows ==
  ASSUME FarInv, NearInv, NearInv', UNCHANGED Far!vars, NEW packet \in Packet,
         Near!SentPackets' = Near!SentPackets \union {packet},
         \A p \in Near!SentPackets : p.id < packet.id /\ ~Far!IsClose(p),
         StillComing("remote")' = StillComing("remote") \union {packet}
  PROVE  FarInv'
<1>1. PICK packets, coming, sent2 : /\ packets = Near!SentPackets
                                    /\ coming = StillComing("remote")
                                    /\ sent2 = packet
  OBVIOUS
<1>2. Far!WellNumbered(packets) /\ Far!FlowInv(packets, coming) /\ sent2 \in Far!Packet
  BY <1>1, NearSentFacts, NearPackets DEF FarInv
<1>3. \A p \in packets : p.id < sent2.id /\ ~Far!IsClose(p)
  BY <1>1
<1>4. Far!FlowInv(packets \union {sent2}, coming \union {sent2})
  BY <1>2, <1>3, Far!FlowInvGrows, NoPeer, FlowAssumption, TunnelAssumption
<1>5. PICK more, moreComing : more = packets \union {sent2} /\ moreComing = coming \union {sent2}
  OBVIOUS
<1>6. Far!WellNumbered(more)
  BY <1>1, <1>5, NearNumberedNext DEF Far!WellNumbered
<1>7. Far!FlowInv(more, moreComing)'
  BY <1>4, <1>5, <1>6, Far!FlowInvStep, NoPeer, FlowAssumption, TunnelAssumption
<1> QED
  BY <1>1, <1>5, <1>7 DEF FarInv, Far!FlowInv, Far!IncomingFresh, Far!DeliveryInv

(* A packet that is held is on no link any more, nor held by the other     *)
(* reader: the numbers of the packets tell them apart.                     *)
LEMMA HeldOnce ==
  ASSUME BondTypes, TakenInv, NearInv, FarInv,
         NEW site \in Site, NEW path \in Path, NEW packet \in holds[site][path]
  PROVE  packet \in Packet /\ packet \notin Untaken(site)
         /\ \A other \in Path : \A p \in holds[site][other] : p.id = packet.id => other = path
<1>1. \A i \in DOMAIN PeerSent(site) : /\ i \in Nat
                                       /\ PeerSent(site)[i].packet \in Packet
                                       /\ PeerSent(site)[i].packet.id = i - 1
  BY NearSentFacts, FarSentFacts DEF PeerSent, Site
<1>2. PICK i \in taken[site] : PeerSent(site)[i].packet = packet /\ PeerSent(site)[i].path = path
  BY DEF TakenInv
<1>3. i \in DOMAIN PeerSent(site)
  BY <1>2 DEF TakenInv
<1>4. packet \notin Untaken(site)
  <2> SUFFICES ASSUME NEW j \in DOMAIN PeerSent(site) \ taken[site]
               PROVE  PeerSent(site)[j].packet # packet
    BY DEF Untaken
  <2>1. j # i /\ j - 1 # i - 1
    BY <1>1, <1>2, <1>3
  <2> QED
    BY <1>1, <1>2, <1>3, <2>1
<1>5. ASSUME NEW other \in Path, NEW p \in holds[site][other], p.id = packet.id
      PROVE  other = path
  <2>1. PICK j \in taken[site] : PeerSent(site)[j].packet = p /\ PeerSent(site)[j].path = other
    BY DEF TakenInv
  <2>2. j \in DOMAIN PeerSent(site)
    BY <2>1 DEF TakenInv
  <2>3. j - 1 = i - 1 /\ j \in Nat /\ i \in Nat
    BY <1>1, <1>2, <1>3, <1>5, <2>1, <2>2
  <2>4. j = i
    BY <2>3
  <2> QED
    BY <1>2, <2>1, <2>4
<1> QED
  BY <1>1, <1>2, <1>3, <1>4, <1>5

(* What is still coming keeps the flow from ending.                        *)
LEMMA NothingComesToEndedFlow ==
  ASSUME NearInv, FarInv
  PROVE  /\ inMap = FALSE \/ deleter # "none" => StillComing("local") = {}
         /\ rInMap = FALSE \/ rDeleter # "none" => StillComing("remote") = {}
<1>1. /\ Near!ClosingInv /\ Near!IncomingFresh(Far!SentPackets, StillComing("local"))
      /\ Far!ClosingInv /\ Far!IncomingFresh(Near!SentPackets, StillComing("remote"))
  BY DEF NearInv, FarInv, Near!FlowInv, Far!FlowInv
<1>2. /\ Near!WriterEnded => StillComing("local") = {}
      /\ Far!WriterEnded => StillComing("remote") = {}
  BY <1>1 DEF Near!WriterEnded, Far!WriterEnded, Near!IncomingFresh, Far!IncomingFresh,
     Near!Closing, Far!Closing
<1> QED
  BY <1>1, <1>2 DEF Near!ClosingInv, Far!ClosingInv

(* A step of the accept loop.                                              *)
LEMMA AcceptKeeps ==
  ASSUME IndInv, AcceptMakes \/ AcceptInserts
  PROVE  IndInv'
<1> USE DEF IndInv
<1>1. UNCHANGED <<vars, remote, taken, holds>>
  BY DEF AcceptMakes, AcceptInserts
<1>2. \A site \in Site : PeerSent(site)' = PeerSent(site) /\ StillComing(site)' = StillComing(site)
  BY <1>1 DEF vars, remote, PeerSent, StillComing, Untaken
<1>3. BondTypes'
  BY <1>1 DEF BondTypes, AcceptMakes, AcceptInserts, Site
<1>4. TakenInv'
  BY <1>1, <1>2 DEF TakenInv
<1>5. NearInv' /\ FarInv'
  BY <1>1, <1>2, NearVars, FarVars, NearKeeps, FarKeeps DEF Site, vars, remote
<1>6. MadeInv'
  BY DEF BondTypes, MadeInv, AcceptMakes, AcceptInserts, Site
<1> QED
  BY <1>3, <1>4, <1>5, <1>6

(* A reader takes the next packet of its link; unless it drops it, it now  *)
(* holds it.                                                               *)
LEMMA ReadKeeps ==
  ASSUME IndInv, NEW site \in Site, NEW path \in Path, ReadPacket(site, path)
  PROVE  IndInv'
<1> USE DEF IndInv
<1>1. UNCHANGED <<vars, remote, accepted>>
  BY DEF ReadPacket
<1>2. \A s \in Site : PeerSent(s)' = PeerSent(s)
  BY <1>1 DEF vars, remote, PeerSent
<1>3. PICK i \in Coming(site, path) :
        /\ taken' = [taken EXCEPT ![site] = @ \union {i}]
        /\ holds' = holds \/ holds' = [holds EXCEPT ![site][path] = {PeerSent(site)[i].packet}]
        /\ made' = made \/ (~InFlowMap(site) /\ made' = [made EXCEPT ![site] = @ + 1])
  BY DEF ReadPacket
<1>4. /\ i \in DOMAIN PeerSent(site) /\ i \in Nat /\ i \notin taken[site]
      /\ PeerSent(site)[i].path = path /\ PeerSent(site)[i].packet \in Packet
  <2>1. \A j \in DOMAIN PeerSent(site) : j \in Nat /\ PeerSent(site)[j].packet \in Packet
    BY NearSentFacts, FarSentFacts DEF PeerSent, Site
  <2> QED
    BY <2>1 DEF Coming
<1>5. BondTypes'
  BY <1>1, <1>3, <1>4 DEF BondTypes
<1>6. TakenInv'
  <2>1. ASSUME NEW s \in Site
        PROVE  taken'[s] \subseteq DOMAIN PeerSent(s) /\ taken[s] \subseteq taken'[s]
    BY <1>3, <1>4 DEF TakenInv, BondTypes
  <2>2. ASSUME NEW s \in Site, NEW other \in Path, NEW p \in holds'[s][other]
        PROVE  \E j \in taken'[s] : PeerSent(s)[j].packet = p /\ PeerSent(s)[j].path = other
    <3>1. CASE p \in holds[s][other]
      BY <2>1, <3>1 DEF TakenInv
    <3>2. CASE p \notin holds[s][other]
      <4>1. s = site /\ other = path /\ p = PeerSent(site)[i].packet
        BY <1>3, <3>2 DEF BondTypes
      <4>2. i \in taken'[site]
        BY <1>3 DEF BondTypes
      <4> QED
        BY <1>4, <4>1, <4>2
    <3> QED
      BY <3>1, <3>2
  <2> QED
    BY <1>2, <2>1, <2>2 DEF TakenInv
<1>7. PeerSent(site)[i].packet \in StillComing(site)
  BY <1>4 DEF StillComing, Untaken
<1>8. ASSUME NEW s \in Site
      PROVE  StillComing(s)' \subseteq StillComing(s)
  <2>1. Untaken(s)' \subseteq Untaken(s)
    BY <1>2, <1>3 DEF Untaken, BondTypes
  <2>2. ASSUME NEW other \in Path
        PROVE  holds'[s][other] \subseteq StillComing(s)
    <3>1. holds[s][other] \subseteq StillComing(s)
      BY DEF StillComing, Path
    <3>2. \/ holds'[s][other] = holds[s][other]
          \/ s = site /\ holds'[s][other] = {PeerSent(site)[i].packet}
      BY <1>3 DEF BondTypes
    <3> QED
      BY <1>7, <3>1, <3>2
  <2>3. StillComing(s)' = Untaken(s)' \union holds'[s]["ter"] \union holds'[s]["sat"]
    BY DEF StillComing
  <2>4. Untaken(s) \subseteq StillComing(s)
    BY DEF StillComing
  <2> QED
    BY <2>1, <2>2, <2>3, <2>4 DEF Path
<1>9. NearInv' /\ FarInv'
  BY <1>1, <1>8, NearVars, FarVars, NearKeeps, FarKeeps DEF Site, vars, remote
<1>10. MadeInv'
  <2>1. inMap \in BOOLEAN /\ rInMap \in BOOLEAN
    BY DEF NearInv, FarInv, Near!FlowInv, Far!FlowInv, Near!StreamTypes, Far!StreamTypes
  <2>2. IF site = "local" THEN inMap ELSE rInMap
    BY <1>7, <2>1, NothingComesToEndedFlow DEF Site
  <2>3. made["remote"] \in Nat /\ made["local"] \in Nat
    BY DEF BondTypes, Site
  <2>4. site = "remote" => made' = made \/ made["remote"] = 0
    BY <1>3, <2>2, <2>3 DEF InFlowMap
  <2>5. site = "local" /\ PromptAccept => made' = made
    BY <1>3, <2>2 DEF InFlowMap, ReadPacket
  <2> QED
    BY <1>1, <1>3, <2>3, <2>4, <2>5 DEF MadeInv, BondTypes, Site
<1> QED
  BY <1>5, <1>6, <1>9, <1>10

(* A reader writes the packet it holds to the flow.                        *)
LEMMA WriteKeeps ==
  ASSUME IndInv, NEW site \in Site, NEW path \in Path, WritePacket(site, path)
  PROVE  IndInv'
<1> USE DEF IndInv
<1>1. PICK packet \in holds[site][path] :
        \/ site = "local" /\ WriteToFlow(packet) /\ UNCHANGED remote
        \/ site = "remote" /\ Remote!WriteToFlow(packet) /\ UNCHANGED vars
  BY DEF WritePacket
<1>2. /\ UNCHANGED <<accepted, made, taken>>
      /\ holds' = [holds EXCEPT ![site][path] = {}]
  BY DEF WritePacket
<1>3. sent' = sent /\ rSent' = rSent
  BY <1>1 DEF WriteToFlow, Remote!WriteToFlow, vars, remote
<1>4. \A s \in Site : PeerSent(s)' = PeerSent(s) /\ Untaken(s)' = Untaken(s)
  BY <1>2, <1>3 DEF PeerSent, Untaken
<1>5. ASSUME NEW s \in Site, NEW other \in Path
      PROVE  /\ holds'[s][other] \subseteq holds[s][other]
             /\ s = site /\ other = path => holds'[s][other] = {}
  BY <1>2 DEF BondTypes
<1>6. BondTypes' /\ TakenInv' /\ MadeInv'
  BY <1>2, <1>4, <1>5 DEF BondTypes, TakenInv, MadeInv
<1>7. \A s \in Site : StillComing(s)' \subseteq StillComing(s)
  BY <1>4, <1>5 DEF StillComing, Path
<1>8. packet \in StillComing(site) /\ packet \notin StillComing(site)'
  <2>1. packet \notin Untaken(site)'
    BY <1>4, HeldOnce
  <2>2. ASSUME NEW other \in Path
        PROVE  packet \notin holds'[site][other]
    BY <1>5, HeldOnce
  <2> QED
    BY <2>1, <2>2 DEF StillComing, Path
<1>9. NearInv'
  <2>1. \/ UNCHANGED Near!vars
        \/ \E p \in StillComing("local") : p \notin StillComing("local")' /\ Near!WriteToFlow(p)
    BY <1>1, <1>8, NearVars, NearWriteToFlow
  <2> QED
    BY <1>3, <1>7, <2>1, NearKeeps DEF Site
<1>10. FarInv'
  <2>1. \/ UNCHANGED Far!vars
        \/ \E p \in StillComing("remote") : p \notin StillComing("remote")' /\ Far!WriteToFlow(p)
    BY <1>1, <1>8, FarVars, FarWriteToFlow
  <2> QED
    BY <1>3, <1>7, <2>1, FarKeeps DEF Site
<1> QED
  BY <1>6, <1>9, <1>10

(* A flow steps; what it hands over is on its way to the other.            *)
LEMMA NearStepKeeps ==
  ASSUME IndInv, LocalDoes(FlowStep)
  PROVE  IndInv'
<1> USE DEF IndInv
<1>1. Near!FlowStep /\ [Near!FlowNext]_Near!vars
  BY NearFlowStep DEF LocalDoes, Near!FlowNext
<1>2. UNCHANGED <<remote, accepted, made, taken, holds>>
  BY DEF LocalDoes, bonds
<1>3. UNCHANGED Far!vars /\ rSent' = rSent
  BY <1>2, FarVars DEF remote
<1>4. BondTypes' /\ MadeInv'
  BY <1>2 DEF BondTypes, MadeInv
<1>5. PeerSent("local")' = PeerSent("local") /\ StillComing("local")' = StillComing("local")
  BY <1>2, <1>3 DEF PeerSent, StillComing, Untaken
<1>6. NearInv'
  BY <1>1, <1>3, <1>5, NearKeeps
<1>7. \/ sent' = sent
      \/ \E packet \in Packet, path \in Path :
           /\ sent' = Append(sent, [packet |-> packet, path |-> path])
           /\ Near!SentPackets' = Near!SentPackets \union {packet}
           /\ \A p \in Near!SentPackets : p.id < packet.id /\ ~Near!IsClose(p)
  BY <1>1, NearSentFacts, Near!SentGrows, NoPeer, NearPackets, FlowAssumption, TunnelAssumption DEF Path
<1>8. CASE sent' = sent
  <2>1. PeerSent("remote")' = PeerSent("remote") /\ StillComing("remote")' = StillComing("remote")
    BY <1>2, <1>8 DEF PeerSent, StillComing, Untaken
  <2>2. FarInv'
    BY <1>3, <1>8, <2>1, FarKeeps
  <2>3. TakenInv'
    BY <1>2, <1>5, <2>1 DEF TakenInv, Site
  <2> QED
    BY <1>4, <1>6, <2>2, <2>3
<1>9. ASSUME NEW packet \in Packet, NEW path \in Path,
             sent' = Append(sent, [packet |-> packet, path |-> path]),
             Near!SentPackets' = Near!SentPackets \union {packet},
             \A p \in Near!SentPackets : p.id < packet.id /\ ~Near!IsClose(p)
      PROVE  IndInv'
  <2>1. /\ PeerSent("remote") = sent /\ PeerSent("remote")' = sent'
        /\ taken["remote"] \subseteq DOMAIN sent
    BY DEF PeerSent, TakenInv, Site
  <2>2. /\ Len(sent) \in Nat /\ DOMAIN sent = 1..Len(sent)
        /\ DOMAIN sent' = 1..(Len(sent) + 1)
        /\ \A i \in 1..Len(sent) : sent'[i] = sent[i]
        /\ sent'[Len(sent) + 1] = [packet |-> packet, path |-> path]
    BY <1>9, NearSentFacts, AppendProperties, LenProperties DEF Near!StreamTypes
  <2>3. Untaken("remote")' = Untaken("remote") \union {packet}
    <3>1. Len(sent) + 1 \notin taken["remote"]
      BY <2>1, <2>2
    <3>2. DOMAIN sent' \ taken["remote"] = (DOMAIN sent \ taken["remote"]) \union {Len(sent) + 1}
      BY <2>2, <3>1
    <3>3. /\ Untaken("remote") = {sent[i].packet : i \in DOMAIN sent \ taken["remote"]}
          /\ Untaken("remote")' = {sent'[i].packet : i \in DOMAIN sent' \ taken["remote"]}
      BY <1>2, <2>1 DEF Untaken
    <3>4. \A i \in DOMAIN sent \ taken["remote"] : sent'[i].packet = sent[i].packet
      BY <2>2
    <3> QED
      BY <2>2, <3>2, <3>3, <3>4
  <2>4. StillComing("remote")' = StillComing("remote") \union {packet}
    BY <1>2, <2>3 DEF StillComing
  <2>5. \A p \in Near!SentPackets : p.id < packet.id /\ ~Far!IsClose(p)
    BY <1>9, NearSentFacts, NearPackets
  <2>6. FarInv'
    BY <1>3, <1>6, <1>9, <2>4, <2>5, FarGrows
  <2>7. /\ taken["remote"] \subseteq DOMAIN sent'
        /\ \A i \in taken["remote"] : sent'[i] = sent[i]
    BY <2>1, <2>2
  <2>8. TakenInv'
    BY <1>2, <1>5, <2>1, <2>7 DEF TakenInv, Site
  <2> QED
    BY <1>4, <1>6, <2>6, <2>8
<1> QED
  BY <1>7, <1>8, <1>9

(* A flow steps; what it hands over is on its way to the other.            *)
LEMMA FarStepKeeps ==
  ASSUME IndInv, RemoteDoes(Remote!FlowStep)
  PROVE  IndInv'
<1> USE DEF IndInv
<1>1. Far!FlowStep /\ [Far!FlowNext]_Far!vars
  BY FarFlowStep DEF RemoteDoes, Far!FlowNext
<1>2. UNCHANGED <<vars, accepted, made, taken, holds>>
  BY DEF RemoteDoes, bonds
<1>3. UNCHANGED Near!vars /\ sent' = sent
  BY <1>2, NearVars DEF vars
<1>4. BondTypes' /\ MadeInv'
  BY <1>2 DEF BondTypes, MadeInv
<1>5. PeerSent("remote")' = PeerSent("remote") /\ StillComing("remote")' = StillComing("remote")
  BY <1>2, <1>3 DEF PeerSent, StillComing, Untaken
<1>6. FarInv'
  BY <1>1, <1>3, <1>5, FarKeeps
<1>7. \/ rSent' = rSent
      \/ \E packet \in Packet, path \in Path :
           /\ rSent' = Append(rSent, [packet |-> packet, path |-> path])
           /\ Far!SentPackets' = Far!SentPackets \union {packet}
           /\ \A p \in Far!SentPackets : p.id < packet.id /\ ~Far!IsClose(p)
  BY <1>1, FarSentFacts, Far!SentGrows, NoPeer, NearPackets, FlowAssumption, TunnelAssumption DEF Path
<1>8. CASE rSent' = rSent
  <2>1. PeerSent("local")' = PeerSent("local") /\ StillComing("local")' = StillComing("local")
    BY <1>2, <1>8 DEF PeerSent, StillComing, Untaken
  <2>2. NearInv'
    BY <1>3, <1>8, <2>1, NearKeeps
  <2>3. TakenInv'
    BY <1>2, <1>5, <2>1 DEF TakenInv, Site
  <2> QED
    BY <1>4, <1>6, <2>2, <2>3
<1>9. ASSUME NEW packet \in Packet, NEW path \in Path,
             rSent' = Append(rSent, [packet |-> packet, path |-> path]),
             Far!SentPackets' = Far!SentPackets \union {packet},
             \A p \in Far!SentPackets : p.id < packet.id /\ ~Far!IsClose(p)
      PROVE  IndInv'
  <2>1. /\ PeerSent("local") = rSent /\ PeerSent("local")' = rSent'
        /\ taken["local"] \subseteq DOMAIN rSent
    BY DEF PeerSent, TakenInv, Site
  <2>2. /\ Len(rSent) \in Nat /\ DOMAIN rSent = 1..Len(rSent)
        /\ DOMAIN rSent' = 1..(Len(rSent) + 1)
        /\ \A i \in 1..Len(rSent) : rSent'[i] = rSent[i]
        /\ rSent'[Len(rSent) + 1] = [packet |-> packet, path |-> path]
    BY <1>9, FarSentFacts, AppendProperties, LenProperties DEF Far!StreamTypes
  <2>3. Untaken("local")' = Untaken("local") \union {packet}
    <3>1. Len(rSent) + 1 \notin taken["local"]
      BY <2>1, <2>2
    <3>2. DOMAIN rSent' \ taken["local"] = (DOMAIN rSent \ taken["local"]) \union {Len(rSent) + 1}
      BY <2>2, <3>1
    <3>3. /\ Untaken("local") = {rSent[i].packet : i \in DOMAIN rSent \ taken["local"]}
          /\ Untaken("local")' = {rSent'[i].packet : i \in DOMAIN rSent' \ taken["local"]}
      BY <1>2, <2>1 DEF Untaken
    <3>4. \A i \in DOMAIN rSent \ taken["local"] : rSent'[i].packet = rSent[i].packet
      BY <2>2
    <3> QED
      BY <2>2, <3>2, <3>3, <3>4
  <2>4. StillComing("local")' = StillComing("local") \union {packet}
    BY <1>2, <2>3 DEF StillComing
  <2>5. \A p \in Far!SentPackets : p.id < packet.id /\ ~Near!IsClose(p)
    BY <1>9, FarSentFacts, NearPackets
  <2>6. NearInv'
    BY <1>3, <1>6, <1>9, <2>4, <2>5, NearGrows
  <2>7. /\ taken["local"] \subseteq DOMAIN rSent'
        /\ \A i \in taken["local"] : rSent'[i] = rSent[i]
    BY <2>1, <2>2
  <2>8. TakenInv'
    BY <1>2, <1>5, <2>1, <2>7 DEF TakenInv, Site
  <2> QED
    BY <1>4, <1>6, <2>6, <2>8
<1> QED
  BY <1>7, <1>8, <1>9

LEMMA Inductive == IndInv /\ [TunnelNext]_allVars => IndInv'
<1> SUFFICES ASSUME IndInv, [TunnelNext]_allVars
             PROVE  IndInv'
  OBVIOUS
<1>1. CASE UNCHANGED allVars
  <2>1. UNCHANGED <<vars, remote, accepted, made, taken, holds>>
    BY <1>1 DEF allVars, bonds
  <2>2. \A site \in Site : PeerSent(site)' = PeerSent(site) /\ StillComing(site)' = StillComing(site)
    BY <2>1 DEF vars, remote, PeerSent, StillComing, Untaken
  <2>3. BondTypes' /\ TakenInv' /\ MadeInv'
    BY <2>1, <2>2 DEF IndInv, BondTypes, TakenInv, MadeInv
  <2>4. NearInv' /\ FarInv'
    BY <2>1, <2>2, NearVars, FarVars, NearKeeps, FarKeeps DEF Site, vars, remote, IndInv
  <2> QED
    BY <2>3, <2>4 DEF IndInv
<1>2. CASE AcceptMakes \/ AcceptInserts
  BY <1>2, AcceptKeeps
<1>3. ASSUME NEW site \in Site, NEW path \in Path, ReadPacket(site, path)
      PROVE  IndInv'
  BY <1>3, ReadKeeps
<1>4. ASSUME NEW site \in Site, NEW path \in Path, WritePacket(site, path)
      PROVE  IndInv'
  BY <1>4, WriteKeeps
<1>5. CASE LocalDoes(FlowStep)
  BY <1>5, NearStepKeeps
<1>6. CASE RemoteDoes(Remote!FlowStep)
  BY <1>6, FarStepKeeps
<1> QED
  BY <1>1, <1>2, <1>3, <1>4, <1>5, <1>6 DEF TunnelNext

LEMMA InitiallyIndInv == TunnelInit => IndInv
<1> SUFFICES ASSUME TunnelInit
             PROVE  IndInv
  OBVIOUS
<1>1. Near!Init /\ Far!Init
  BY NearInit, FarInit DEF TunnelInit
<1>2. Near!FlowInv({}, {}) /\ Far!FlowInv({}, {})
  BY <1>1, Near!FlowInvInit, Far!FlowInvInit, NoPeer, FlowAssumption, TunnelAssumption
<1>3. sent = <<>> /\ rSent = <<>> /\ DOMAIN <<>> = {}
  BY EmptySeq DEF TunnelInit, Init, Remote!Init
<1>4. Near!SentPackets = {} /\ Far!SentPackets = {}
  BY <1>3 DEF Near!SentPackets, Far!SentPackets
<1>5. \A site \in Site : DOMAIN PeerSent(site) = {} /\ \A path \in Path : holds[site][path] = {}
  BY <1>3 DEF PeerSent, TunnelInit
<1>6. \A site \in Site : StillComing(site) = {}
  BY <1>5 DEF StillComing, Untaken, Path
<1>7. NearInv /\ FarInv
  BY <1>2, <1>4, <1>6 DEF NearInv, FarInv, Site
<1>8. BondTypes /\ TakenInv /\ MadeInv
  BY <1>5 DEF BondTypes, TakenInv, MadeInv, TunnelInit, Site, Path
<1> QED
  BY <1>7, <1>8 DEF IndInv

(* Both flows keep the invariant of one flow, each with what the other     *)
(* sent as the packets of its peer.                                        *)
THEOREM IndInvHolds == TunnelSpec => []IndInv
<1> QED
  BY InitiallyIndInv, Inductive, PTL DEF TunnelSpec

----------------------------------------------------------------------------
(* What follows from it.                                                   *)

(* The types of both flows, the readers and the accept loop hold, however  *)
(* the threads of both sites and the two links run.                        *)
THEOREM TypeCorrect == TunnelSpec => []TypeOK
<1>1. IndInv => Near!FlowTypeOK /\ Far!FlowTypeOK
  BY Near!TypesSplit, Far!TypesSplit, NoPeer, FlowAssumption, TunnelAssumption
  DEF IndInv, NearInv, FarInv, Near!FlowInv, Far!FlowInv
<1>2. Near!FlowTypeOK => FlowTypeOK
  BY DEF Near!FlowTypeOK, FlowTypeOK, Near!Looper, Near!Reader, Near!Writer, Near!Bonder,
     Near!Packet, Looper, Reader, Writer, Bonder, Packet
<1>3. Far!FlowTypeOK => Remote!FlowTypeOK
  BY DEF Far!FlowTypeOK, Remote!FlowTypeOK, Far!Looper, Far!Reader, Far!Writer, Far!Bonder,
     Far!Packet, Remote!Looper, Remote!Reader, Remote!Writer, Remote!Bonder, Remote!Packet
<1>4. IndInv => TypeOK
  BY <1>1, <1>2, <1>3 DEF TypeOK, IndInv, BondTypes
<1> QED
  BY <1>4, IndInvHolds, PTL

(* WriteToFlow (Bond.cpp:216) inserts no packet whose id the queue of the  *)
(* flow already holds or passed, and the two readers of a bond never hold  *)
(* two packets of one id.                                                  *)
THEOREM ReadersInsertFresh == TunnelSpec => []InsertsAreFresh
<1>1. ASSUME IndInv
      PROVE  InsertsAreFresh
  <2>1. /\ Near!IncomingFresh(Far!SentPackets, StillComing("local"))
        /\ Far!IncomingFresh(Near!SentPackets, StillComing("remote"))
    BY <1>1 DEF IndInv, NearInv, FarInv, Near!FlowInv, Far!FlowInv
  <2>2. \A site \in Site, path \in Path : holds[site][path] \subseteq StillComing(site)
    BY DEF StillComing, Path
  <2>3. \A path \in Path : \A packet \in holds["local"][path] : Fresh(toConnection, packet)
    BY <2>1, <2>2, NearPackets DEF Near!IncomingFresh, Site
  <2>4. \A path \in Path : \A packet \in holds["remote"][path] : Fresh(rToConnection, packet)
    BY <2>1, <2>2, NearPackets DEF Far!IncomingFresh, Site
  <2>5. \A site \in Site : \A p \in holds[site]["ter"], q \in holds[site]["sat"] : p.id # q.id
    BY <1>1, HeldOnce DEF IndInv, Path
  <2> QED
    BY <2>3, <2>4, <2>5 DEF InsertsAreFresh
<1> QED
  BY <1>1, IndInvHolds, PTL

(* No connection gets a second flow and no packet is written to a flow     *)
(* that is being destroyed, if Accept inserts the flow before an answer of *)
(* the peer can arrive.                                                    *)
THEOREM PacketsFindTheirFlow == ASSUME PromptAccept PROVE TunnelSpec => []PacketsMeetTheirFlow
<1>1. ASSUME IndInv
      PROVE  PacketsMeetTheirFlow
  <2>1. \A site \in Site : made[site] <= 1
    BY <1>1, PromptAccept DEF IndInv, MadeInv, Site
  <2>2. \A site \in Site, path \in Path : holds[site][path] # {} => StillComing(site) # {}
    BY DEF StillComing, Path
  <2>3. /\ \A path \in Path : holds["local"][path] # {} => deleter = "none"
        /\ \A path \in Path : holds["remote"][path] # {} => rDeleter = "none"
    BY <1>1, <2>2, NothingComesToEndedFlow DEF IndInv, Site
  <2> QED
    BY <2>1, <2>3 DEF PacketsMeetTheirFlow
<1> QED
  BY <1>1, IndInvHolds, PTL

(* A flow that shuts its connection down before its own endpoint ended has *)
(* not closed yet, so its peer, which closed, did so at the end of the     *)
(* stream, and everything before was delivered.                            *)
LEMMA NearClosesLast ==
  ASSUME NearInv, FarInv
  PROVE  pc[Writer] = "shutdown" /\ running[Reader] /\ endpoint # "reset" =>
           Len(output) = rReceived
<1> SUFFICES ASSUME pc[Writer] = "shutdown", running[Reader], endpoint # "reset"
             PROVE  Len(output) = rReceived
  OBVIOUS
<1> USE DEF Reader, Writer, Bonder, Near!Reader, Near!Writer, Near!Bonder, Far!Reader, Far!Writer, Far!Bonder,
            Near!Looper, Far!Looper
<1> DEFINE last == Len(rSent)
<1>1. /\ Near!ClosingInv /\ Near!LooperInv /\ Near!SentInv /\ Near!StreamTypes /\ Near!LooperTypes
      /\ Near!IncomingFresh(Far!SentPackets, StillComing("local"))
      /\ Near!DeliveryInv(Far!SentPackets)
      /\ Far!LooperTypes /\ Far!LooperInv /\ Far!SentInv /\ Far!ReadInv
      /\ \E coming : Far!IncomingFresh(Near!SentPackets, coming)
  BY DEF NearInv, FarInv, Near!FlowInv, Far!FlowInv
<1>2. pc[Bonder] \notin Near!Closing /\ pc[Bonder] # "done"
  BY <1>1 DEF Near!ClosingInv, Near!ReaderEnded, Near!Closing
<1>3. \A p \in Near!SentPackets : p.size # 0
  BY <1>1, <1>2 DEF Near!SentInv, Near!SentPackets, Near!IsClose
<1>4. ~Far!WriterEnded
  BY <1>1, <1>3 DEF Far!WriterEnded, Far!LooperInv, Far!IncomingFresh, Far!Closing, Far!IsClose
<1>5. /\ flowPacket[Writer] \in Far!SentPackets /\ flowPacket[Writer].size = 0
      /\ flowPacket[Writer].id + 1 = toConnection.currentId
  BY <1>1 DEF Near!LooperInv, Near!IncomingFresh, Near!Closing, Near!IsClose
<1>6. /\ last \in Nat /\ last # 0 /\ rSent[last].packet = flowPacket[Writer]
      /\ flowPacket[Writer].id = last - 1
      /\ \A i \in 1..last : rSent[i].packet.id = i - 1 /\ rSent[i].packet \in Far!SentPackets
  <2>1. /\ last \in Nat /\ DOMAIN rSent = 1..last
        /\ \A i \in 1..last : rSent[i].packet.id = i - 1
        /\ Far!SentPackets = {rSent[i].packet : i \in 1..last}
    BY FarSentFacts
  <2>2. PICK i \in 1..last : rSent[i].packet = flowPacket[Writer]
    BY <1>5, <2>1
  <2>3. i = last
    BY <1>1, <1>5, <2>1, <2>2 DEF Far!SentInv, Far!OutgoingWellFormed, Far!IsClose
  <2> QED
    BY <2>1, <2>2, <2>3
<1>7. rSent[last].packet.from = IF last = 1 THEN 0
        ELSE rSent[last - 1].packet.from + rSent[last - 1].packet.size
  <2>1. rPc[Bonder] = "done"
    BY <1>1, <1>5, FarSentFacts DEF Far!SentInv, Far!IsClose
  <2> QED
    BY <1>1, <1>4, <2>1 DEF Far!SentInv
<1>8. rSent[last].packet.from = rReceived
  BY <1>1, <1>5, <1>6, FarSentFacts DEF Far!ReadInv, Far!EndsAtMost, Far!IsClose
<1>9. Near!EndpointReads
  BY <1>1, <1>2 DEF Near!EndpointReads, Near!ClosingInv, Near!BonderEnded, Near!Closing, Near!StreamTypes
<1>10. Near!Passed = last - 1 /\ Near!InWrite = 0
  <2>1. Near!Passed = toConnection.currentId - 1 /\ Near!InWrite = 0
    BY DEF Near!Passed, Near!InWrite, Near!Closing
  <2> QED
    BY <1>5, <1>6, <2>1
<1>11. Len(output) \in Nat
  BY <1>1, LenProperties DEF Near!StreamTypes
<1>12. /\ last - 1 = 0 => Len(output) + 0 = 0
       /\ \A p \in Far!SentPackets : p.id + 1 = last - 1 => p.from + p.size = Len(output) + 0
  BY <1>1, <1>9, <1>10 DEF Near!DeliveryInv
<1>13. CASE last = 1
  BY <1>7, <1>8, <1>11, <1>12, <1>13
<1>14. CASE last # 1
  <2>1. last - 1 \in 1..last
    <3>1. last \in Nat /\ last # 0
      BY <1>6
    <3> HIDE DEF last
    <3> QED
      BY <1>14, <3>1
  <2>2. rSent[last - 1].packet \in Far!SentPackets /\ rSent[last - 1].packet.id = last - 1 - 1
    BY <1>6, <2>1
  <2>3. last - 1 - 1 + 1 = last - 1
    BY <1>6
  <2> HIDE DEF last
  <2> QED
    BY <1>7, <1>8, <1>11, <1>12, <1>14, <2>2, <2>3
<1> QED
  BY <1>13, <1>14

(* A flow that shuts its connection down before its own endpoint ended has *)
(* not closed yet, so its peer, which closed, did so at the end of the     *)
(* stream, and everything before was delivered.                            *)
LEMMA FarClosesLast ==
  ASSUME FarInv, NearInv
  PROVE  rPc[Writer] = "shutdown" /\ rRunning[Reader] /\ rEndpoint # "reset" =>
           Len(rOutput) = received
<1> SUFFICES ASSUME rPc[Writer] = "shutdown", rRunning[Reader], rEndpoint # "reset"
             PROVE  Len(rOutput) = received
  OBVIOUS
<1> USE DEF Reader, Writer, Bonder, Far!Reader, Far!Writer, Far!Bonder, Near!Reader, Near!Writer, Near!Bonder,
            Far!Looper, Near!Looper
<1> DEFINE last == Len(sent)
<1>1. /\ Far!ClosingInv /\ Far!LooperInv /\ Far!SentInv /\ Far!StreamTypes /\ Far!LooperTypes
      /\ Far!IncomingFresh(Near!SentPackets, StillComing("remote"))
      /\ Far!DeliveryInv(Near!SentPackets)
      /\ Near!LooperTypes /\ Near!LooperInv /\ Near!SentInv /\ Near!ReadInv
      /\ \E coming : Near!IncomingFresh(Far!SentPackets, coming)
  BY DEF FarInv, NearInv, Far!FlowInv, Near!FlowInv
<1>2. rPc[Bonder] \notin Far!Closing /\ rPc[Bonder] # "done"
  BY <1>1 DEF Far!ClosingInv, Far!ReaderEnded, Far!Closing
<1>3. \A p \in Far!SentPackets : p.size # 0
  BY <1>1, <1>2 DEF Far!SentInv, Far!SentPackets, Far!IsClose
<1>4. ~Near!WriterEnded
  BY <1>1, <1>3 DEF Near!WriterEnded, Near!LooperInv, Near!IncomingFresh, Near!Closing, Near!IsClose
<1>5. /\ rFlowPacket[Writer] \in Near!SentPackets /\ rFlowPacket[Writer].size = 0
      /\ rFlowPacket[Writer].id + 1 = rToConnection.currentId
  BY <1>1 DEF Far!LooperInv, Far!IncomingFresh, Far!Closing, Far!IsClose
<1>6. /\ last \in Nat /\ last # 0 /\ sent[last].packet = rFlowPacket[Writer]
      /\ rFlowPacket[Writer].id = last - 1
      /\ \A i \in 1..last : sent[i].packet.id = i - 1 /\ sent[i].packet \in Near!SentPackets
  <2>1. /\ last \in Nat /\ DOMAIN sent = 1..last
        /\ \A i \in 1..last : sent[i].packet.id = i - 1
        /\ Near!SentPackets = {sent[i].packet : i \in 1..last}
    BY NearSentFacts
  <2>2. PICK i \in 1..last : sent[i].packet = rFlowPacket[Writer]
    BY <1>5, <2>1
  <2>3. i = last
    BY <1>1, <1>5, <2>1, <2>2 DEF Near!SentInv, Near!OutgoingWellFormed, Near!IsClose
  <2> QED
    BY <2>1, <2>2, <2>3
<1>7. sent[last].packet.from = IF last = 1 THEN 0
        ELSE sent[last - 1].packet.from + sent[last - 1].packet.size
  <2>1. pc[Bonder] = "done"
    BY <1>1, <1>5, NearSentFacts DEF Near!SentInv, Near!IsClose
  <2> QED
    BY <1>1, <1>4, <2>1 DEF Near!SentInv
<1>8. sent[last].packet.from = received
  BY <1>1, <1>5, <1>6, NearSentFacts DEF Near!ReadInv, Near!EndsAtMost, Near!IsClose
<1>9. Far!EndpointReads
  BY <1>1, <1>2 DEF Far!EndpointReads, Far!ClosingInv, Far!BonderEnded, Far!Closing, Far!StreamTypes
<1>10. Far!Passed = last - 1 /\ Far!InWrite = 0
  <2>1. Far!Passed = rToConnection.currentId - 1 /\ Far!InWrite = 0
    BY DEF Far!Passed, Far!InWrite, Far!Closing
  <2> QED
    BY <1>5, <1>6, <2>1
<1>11. Len(rOutput) \in Nat
  BY <1>1, LenProperties DEF Far!StreamTypes
<1>12. /\ last - 1 = 0 => Len(rOutput) + 0 = 0
       /\ \A p \in Near!SentPackets : p.id + 1 = last - 1 => p.from + p.size = Len(rOutput) + 0
  BY <1>1, <1>9, <1>10 DEF Far!DeliveryInv
<1>13. CASE last = 1
  BY <1>7, <1>8, <1>11, <1>12, <1>13
<1>14. CASE last # 1
  <2>1. last - 1 \in 1..last
    <3>1. last \in Nat /\ last # 0
      BY <1>6
    <3> HIDE DEF last
    <3> QED
      BY <1>14, <3>1
  <2>2. sent[last - 1].packet \in Near!SentPackets /\ sent[last - 1].packet.id = last - 1 - 1
    BY <1>6, <2>1
  <2>3. last - 1 - 1 + 1 = last - 1
    BY <1>6
  <2> HIDE DEF last
  <2> QED
    BY <1>7, <1>8, <1>11, <1>12, <1>14, <2>2, <2>3
<1> QED
  BY <1>13, <1>14

(* A flow that shuts its connection down because its peer ended wrote all  *)
(* that the peer read to its endpoint before (Flow.cpp:116).               *)
THEOREM ClosesAfterAllData == TunnelSpec => []CloseComesLast
<1>1. IndInv => CloseComesLast
  BY NearClosesLast, FarClosesLast DEF IndInv, CloseComesLast
<1> QED
  BY <1>1, IndInvHolds, PTL

(* What one end sees in a step of its flow: a byte it wrote, or the bytes  *)
(* of one packet delivered to it, which the peer read from the other end.  *)
LEMMA NearSees ==
  ASSUME NearInv, FarInv, Near!FlowStep
  PROVE  \/ written' \in {written, written + 1} /\ output' = output
         \/ /\ written' = written
            /\ \E last \in Len(output)..(rWritten - 1) :
                 output' = output \o [i \in 1..(last + 1 - Len(output)) |-> Len(output) + i - 1]
<1>1. PICK packets, coming : packets = Far!SentPackets /\ coming = StillComing("local")
  OBVIOUS
<1>2. /\ Near!WellNumbered(packets) /\ Near!LooperTypes /\ Near!QueueTypes /\ Near!StreamTypes
      /\ Near!IncomingFresh(packets, coming) /\ Near!DeliveryInv(packets)
  BY <1>1, FarSentFacts DEF NearInv, Near!FlowInv
<1>3. \/ written' \in {written, written + 1} /\ output' = output
      \/ /\ written' = written
         /\ \E p \in packets : /\ p.size # 0 /\ p.from = Len(output)
                               /\ output' = output \o Near!Bytes(p)
  BY <1>2, Near!EndpointSees, NoPeer, FlowAssumption, TunnelAssumption
<1>4. ASSUME NEW p \in packets, p.size # 0, p.from = Len(output),
             output' = output \o Near!Bytes(p)
      PROVE  \E last \in Len(output)..(rWritten - 1) :
               output' = output \o [i \in 1..(last + 1 - Len(output)) |-> Len(output) + i - 1]
  <2> DEFINE last == p.from + p.size - 1
  <2>1. p.size \in Nat /\ Len(output) \in Nat
    BY <1>1, <1>2, FarSentFacts, LenProperties DEF Packet, Near!StreamTypes
  <2>2. p.from + p.size <= rReceived /\ rReceived \in 0..rWritten /\ rWritten \in Nat
    BY <1>1, FarSentFacts DEF FarInv, Far!FlowInv, Far!ReadInv, Far!EndsAtMost, Far!StreamTypes
  <2>3. last \in Len(output)..(rWritten - 1) /\ last + 1 - Len(output) = p.size
    <3>1. \A a, b, c, d \in Nat : b # 0 /\ a + b <= c /\ c <= d =>
            a + b - 1 \in a..(d - 1) /\ a + b - 1 + 1 - a = b
      OBVIOUS
    <3>2. rReceived \in Nat /\ rReceived <= rWritten
      BY <2>2
    <3> QED
      BY <1>4, <2>1, <2>2, <3>1, <3>2
  <2>4. Near!Bytes(p) = [i \in 1..(last + 1 - Len(output)) |-> Len(output) + i - 1]
    BY <1>4, <2>3 DEF Near!Bytes
  <2> HIDE DEF last
  <2> QED
    BY <1>4, <2>3, <2>4
<1> QED
  BY <1>3, <1>4

(* What one end sees in a step of its flow: a byte it wrote, or the bytes  *)
(* of one packet delivered to it, which the peer read from the other end.  *)
LEMMA FarSees ==
  ASSUME FarInv, NearInv, Far!FlowStep
  PROVE  \/ rWritten' \in {rWritten, rWritten + 1} /\ rOutput' = rOutput
         \/ /\ rWritten' = rWritten
            /\ \E last \in Len(rOutput)..(written - 1) :
                 rOutput' = rOutput \o [i \in 1..(last + 1 - Len(rOutput)) |-> Len(rOutput) + i - 1]
<1>1. PICK packets, coming : packets = Near!SentPackets /\ coming = StillComing("remote")
  OBVIOUS
<1>2. /\ Far!WellNumbered(packets) /\ Far!LooperTypes /\ Far!QueueTypes /\ Far!StreamTypes
      /\ Far!IncomingFresh(packets, coming) /\ Far!DeliveryInv(packets)
  BY <1>1, NearSentFacts DEF FarInv, Far!FlowInv
<1>3. \/ rWritten' \in {rWritten, rWritten + 1} /\ rOutput' = rOutput
      \/ /\ rWritten' = rWritten
         /\ \E p \in packets : /\ p.size # 0 /\ p.from = Len(rOutput)
                               /\ rOutput' = rOutput \o Far!Bytes(p)
  BY <1>2, Far!EndpointSees, NoPeer, FlowAssumption, TunnelAssumption
<1>4. ASSUME NEW p \in packets, p.size # 0, p.from = Len(rOutput),
             rOutput' = rOutput \o Far!Bytes(p)
      PROVE  \E last \in Len(rOutput)..(written - 1) :
               rOutput' = rOutput \o [i \in 1..(last + 1 - Len(rOutput)) |-> Len(rOutput) + i - 1]
  <2> DEFINE last == p.from + p.size - 1
  <2>1. p.size \in Nat /\ Len(rOutput) \in Nat
    BY <1>1, <1>2, NearSentFacts, LenProperties DEF Packet, Far!StreamTypes
  <2>2. p.from + p.size <= received /\ received \in 0..written /\ written \in Nat
    BY <1>1, NearSentFacts DEF NearInv, Near!FlowInv, Near!ReadInv, Near!EndsAtMost, Near!StreamTypes
  <2>3. last \in Len(rOutput)..(written - 1) /\ last + 1 - Len(rOutput) = p.size
    <3>1. \A a, b, c, d \in Nat : b # 0 /\ a + b <= c /\ c <= d =>
            a + b - 1 \in a..(d - 1) /\ a + b - 1 + 1 - a = b
      OBVIOUS
    <3>2. received \in Nat /\ received <= written
      BY <2>2
    <3> QED
      BY <1>4, <2>1, <2>2, <3>1, <3>2
  <2>4. Far!Bytes(p) = [i \in 1..(last + 1 - Len(rOutput)) |-> Len(rOutput) + i - 1]
    BY <1>4, <2>3 DEF Far!Bytes
  <2> HIDE DEF last
  <2> QED
    BY <1>4, <2>3, <2>4
<1> QED
  BY <1>3, <1>4

(* Every step of the tunnel is one of the two pipes, or changes nothing    *)
(* that the endpoints see.                                                 *)
LEMMA PipesStep ==
  ASSUME IndInv, [TunnelNext]_allVars
  PROVE  [Pipes!PipesNext]_<<[near |-> written, far |-> rWritten],
                             [near |-> output, far |-> rOutput]>>
<1> DEFINE wrote == [near |-> written, far |-> rWritten]
           got == [near |-> output, far |-> rOutput]
<1> USE DEF Pipes!End, Pipes!Other
<1>1. CASE UNCHANGED <<written, rWritten, output, rOutput>>
  BY <1>1
<1>2. CASE LocalDoes(FlowStep)
  <2>1. Near!FlowStep /\ rWritten' = rWritten /\ rOutput' = rOutput
    BY <1>2, NearFlowStep DEF LocalDoes, remote
  <2>2. CASE written' \in {written, written + 1} /\ output' = output
    <3>1. CASE written' = written
      BY <2>1, <2>2, <3>1
    <3>2. CASE written' = written + 1
      <4>1. wrote' = [wrote EXCEPT !["near"] = @ + 1] /\ got' = got
        BY <2>1, <2>2, <3>2
      <4> QED
        BY <4>1 DEF Pipes!PipesNext, Pipes!Write
    <3> QED
      BY <2>2, <3>1, <3>2
  <2>3. ASSUME written' = written, NEW last \in Len(output)..(rWritten - 1),
               output' = output \o [i \in 1..(last + 1 - Len(output)) |-> Len(output) + i - 1]
        PROVE  Pipes!PipesNext
    <3> DEFINE Longer(s) == s \o [i \in 1..(last + 1 - Len(s)) |-> Len(s) + i - 1]
    <3>1. wrote' = wrote /\ got' = [got EXCEPT !["near"] = Longer(@)]
      <4>1. output' = Longer(output)
        BY <2>3
      <4>2. got["near"] = output
        OBVIOUS
      <4> HIDE DEF Longer
      <4>3. Longer(got["near"]) = output'
        BY <4>1, <4>2
      <4>4. got' = [got EXCEPT !["near"] = output']
        BY <2>1
      <4> QED
        BY <2>1, <2>3, <4>3, <4>4
    <3>2. last \in Len(got["near"])..(wrote[Pipes!Other("near")] - 1)
      BY <2>3
    <3>3. Pipes!Deliver("near")
      BY <3>1, <3>2 DEF Pipes!Deliver
    <3> QED
      BY <3>3 DEF Pipes!PipesNext
  <2> QED
    BY <2>1, <2>2, <2>3, NearSees DEF IndInv
<1>3. CASE RemoteDoes(Remote!FlowStep)
  <2>1. Far!FlowStep /\ written' = written /\ output' = output
    BY <1>3, FarFlowStep DEF RemoteDoes, vars, peer
  <2>2. CASE rWritten' \in {rWritten, rWritten + 1} /\ rOutput' = rOutput
    <3>1. CASE rWritten' = rWritten
      BY <2>1, <2>2, <3>1
    <3>2. CASE rWritten' = rWritten + 1
      <4>1. wrote' = [wrote EXCEPT !["far"] = @ + 1] /\ got' = got
        BY <2>1, <2>2, <3>2
      <4> QED
        BY <4>1 DEF Pipes!PipesNext, Pipes!Write
    <3> QED
      BY <2>2, <3>1, <3>2
  <2>3. ASSUME rWritten' = rWritten, NEW last \in Len(rOutput)..(written - 1),
               rOutput' = rOutput \o [i \in 1..(last + 1 - Len(rOutput)) |-> Len(rOutput) + i - 1]
        PROVE  Pipes!PipesNext
    <3> DEFINE Longer(s) == s \o [i \in 1..(last + 1 - Len(s)) |-> Len(s) + i - 1]
    <3>1. wrote' = wrote /\ got' = [got EXCEPT !["far"] = Longer(@)]
      <4>1. rOutput' = Longer(rOutput)
        BY <2>3
      <4>2. got["far"] = rOutput
        OBVIOUS
      <4> HIDE DEF Longer
      <4>3. Longer(got["far"]) = rOutput'
        BY <4>1, <4>2
      <4>4. got' = [got EXCEPT !["far"] = rOutput']
        BY <2>1
      <4> QED
        BY <2>1, <2>3, <4>3, <4>4
    <3>2. last \in Len(got["far"])..(wrote[Pipes!Other("far")] - 1)
      BY <2>3
    <3>3. Pipes!Deliver("far")
      BY <3>1, <3>2 DEF Pipes!Deliver
    <3> QED
      BY <3>3 DEF Pipes!PipesNext
  <2> QED
    BY <2>1, <2>2, <2>3, FarSees DEF IndInv
<1>4. CASE UNCHANGED allVars \/ AcceptMakes \/ AcceptInserts
  BY <1>1, <1>4 DEF allVars, vars, remote, peer, AcceptMakes, AcceptInserts
<1>5. ASSUME NEW site \in Site, NEW path \in Path,
             ReadPacket(site, path) \/ WritePacket(site, path)
      PROVE  UNCHANGED <<written, rWritten, output, rOutput>>
  BY <1>5 DEF ReadPacket, WritePacket, WriteToFlow, Remote!WriteToFlow, vars, remote, peer,
     Remote!peer
<1> QED
  BY <1>1, <1>2, <1>3, <1>4, <1>5 DEF TunnelNext

(* The two endpoints see two byte pipes: each gets what the other wrote,   *)
(* in order, without a hole and no more than was written, for every size   *)
(* of the packets, every limit of the backlogs and every way the packets   *)
(* take.                                                                   *)
THEOREM TunnelImplementsPipes == TunnelSpec => ImplementsPipes
<1>1. TunnelInit => Pipes!PipesInit
  BY DEF TunnelInit, Init, Remote!Init, Pipes!PipesInit
<1>2. IndInv /\ [TunnelNext]_allVars =>
        [Pipes!PipesNext]_<<[near |-> written, far |-> rWritten],
                            [near |-> output, far |-> rOutput]>>
  BY PipesStep
<1> QED
  BY <1>1, <1>2, IndInvHolds, PTL DEF TunnelSpec, ImplementsPipes, Pipes!PipesSpec

============================================================================
