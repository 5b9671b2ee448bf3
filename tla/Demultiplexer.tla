--------------------------- MODULE Demultiplexer ---------------------------
(***************************************************************************)
(* Two sites and many connections: the readers of both bonds share the     *)
(* FlowMap of their site, connect to destinations while they hold its      *)
(* mutex, and answer a refused connection on ter while they still hold it. *)
(*                                                                         *)
(* Of a flow only its place in the half-close protocol is kept (Flow and   *)
(* Tunnel have the rest): it ends when it has popped its close packet, got *)
(* that of its peer and all data before it.  Accept inserts a flow before  *)
(* an answer arrives (see Tunnel).                                         *)
(*                                                                         *)
(* The answer to a refused connection leaves bytes on ter that are no      *)
(* packet.  A site that reads them is lost: it takes no more steps, and    *)
(* nothing is claimed of what comes then.                                  *)
(***************************************************************************)
EXTENDS Naturals, Sequences

CONSTANTS
  Key,        \* the connections, by source and destination
  Refused,    \* those whose destination refuses
  TerLimit,   \* fill level of ter at which SendToTer waits
  LocalData,  \* bounds on the data packets that each flow of the local site
  RemoteData  \* and of the remote site sends

ASSUME DemultiplexerAssumption ==
  /\ Refused \subseteq Key /\ "none" \notin Key
  /\ TerLimit \in Nat /\ LocalData \in Nat /\ RemoteData \in Nat

Site == {"local", "remote"}
Path == {"ter", "sat"}
MaxData(site) == IF site = "local" THEN LocalData ELSE RemoteData
Other(site) == IF site = "local" THEN "remote" ELSE "local"
Packet == [key : Key, close : BOOLEAN]
NoPacket == [key |-> "none", close |-> TRUE]
(* The payload of a packet whose header was sent with size 0.              *)
Leftover == [key |-> "none", close |-> FALSE]

VARIABLES
  flow,     \* each flow: "none", "open", "closing" (close packet popped), "ended"
  made,     \* how many flows a site made for a key
  unsent,   \* the keys whose close packet was popped and is not on ter yet
  gotClose, \* the keys a site's flow has a close packet for
  data,     \* how many data packets each flow has sent
  link,     \* what each site has sent on a path and the other has not read
  pc,       \* where the reader of each path stands
  packet,   \* the packet it has, or NoPacket
  mutex,    \* who holds the mutex of the FlowMap: a reader, or "free"
  lost      \* the sites that took a Leftover for a packet

flows   == <<flow, made, unsent, gotClose, data>>
readers == <<pc, packet, mutex, lost>>
vars    == <<flows, link, readers>>

Init ==
  /\ flow = [site \in Site |-> [key \in Key |-> "none"]]
  /\ made = [site \in Site |-> [key \in Key |-> 0]]
  /\ unsent = [site \in Site |-> {}]
  /\ gotClose = [site \in Site |-> {}]
  /\ data = [site \in Site |-> [key \in Key |-> 0]]
  /\ link = [site \in Site |-> [path \in Path |-> <<>>]]
  /\ pc = [site \in Site |-> [path \in Path |-> "recv"]]
  /\ packet = [site \in Site |-> [path \in Path |-> NoPacket]]
  /\ mutex = [site \in Site |-> "free"]
  /\ lost = {}

----------------------------------------------------------------------------
(* The flows of a site.                                                    *)

(* Insert: the key is new, or has the flow it had.                         *)
InFlowMap(site, key) == flow[site][key] \in {"open", "closing"}

MakeFlow(site, key) ==
  /\ flow' = [flow EXCEPT ![site][key] = "open"]
  /\ made' = [made EXCEPT ![site][key] = @ + 1]

(* Proxy::Accept.                                                          *)
Accept(key) ==
  /\ flow["local"][key] = "none"
  /\ mutex["local"] = "free"
  /\ MakeFlow("local", key)
  /\ UNCHANGED <<unsent, gotClose, data, link, readers>>

(* SendToTer waits for room; the limit of sat is never reached here.       *)
HasRoom(site, path) == path = "sat" \/ Len(link[site]["ter"]) <= TerLimit
Send(site, path, key, close) ==
  /\ HasRoom(site, path)
  /\ link' = [link EXCEPT ![site][path] = Append(@, [key |-> key, close |-> close])]

SendData(site, path, key) ==
  /\ flow[site][key] = "open"
  /\ data[site][key] < MaxData(site)
  /\ Send(site, path, key, FALSE)
  /\ data' = [data EXCEPT ![site][key] = @ + 1]
  /\ UNCHANGED <<flow, made, unsent, gotClose, readers>>

(* SendToBond pops the close packet, and may detach the deleter at once.   *)
Close(site, key) ==
  /\ flow[site][key] = "open"
  /\ flow' = [flow EXCEPT ![site][key] = "closing"]
  /\ unsent' = [unsent EXCEPT ![site] = @ \cup {key}]
  /\ UNCHANGED <<made, gotClose, data, link, readers>>

(* The close packet always takes ter.                                      *)
SendClose(site, key) ==
  /\ key \in unsent[site]
  /\ Send(site, "ter", key, TRUE)
  /\ unsent' = [unsent EXCEPT ![site] = @ \ {key}]
  /\ UNCHANGED <<flow, made, gotClose, data, readers>>

(* Is there data for the flow that its writer has not got yet?             *)
DataComing(site, key) ==
  \E path \in Path :
    \/ \E i \in DOMAIN link[Other(site)][path] :
         link[Other(site)][path][i] = [key |-> key, close |-> FALSE]
    \/ packet[site][path] = [key |-> key, close |-> FALSE]

(* Faulty: a flow ends after its own close packet.                         *)
FlowEndsAlone(site, key) ==
  /\ flow[site][key] = "closing"
  /\ mutex[site] = "free"
  /\ flow' = [flow EXCEPT ![site][key] = "ended"]
  /\ UNCHANGED <<made, unsent, gotClose, data, link, readers>>

(* Faulty: the close packet of its peer overtakes the data.                *)
FlowEndsEarly(site, key) ==
  /\ flow[site][key] = "closing"
  /\ key \in gotClose[site]
  /\ mutex[site] = "free"
  /\ flow' = [flow EXCEPT ![site][key] = "ended"]
  /\ UNCHANGED <<made, unsent, gotClose, data, link, readers>>

(* ~Flow takes the mutex to erase the flow, and may do so before the close *)
(* packet is sent.                                                         *)
FlowEnds(site, key) ==
  /\ flow[site][key] = "closing"
  /\ key \in gotClose[site]
  /\ ~DataComing(site, key)
  /\ mutex[site] = "free"
  /\ flow' = [flow EXCEPT ![site][key] = "ended"]
  /\ UNCHANGED <<made, unsent, gotClose, data, link, readers>>

----------------------------------------------------------------------------
(* Bond::RecvFromConnection, once a packet is complete.                    *)
ReaderGoes(site, path, from, to) ==
  /\ pc[site][path] = from
  /\ pc' = [pc EXCEPT ![site][path] = to]

(* What a reader takes for the next packet is none.                        *)
AtLeftover(site, path) ==
  link[Other(site)][path] # <<>> /\ Head(link[Other(site)][path]) = Leftover

RecvPacket(site, path) ==
  /\ link[Other(site)][path] # <<>> /\ ~AtLeftover(site, path)
  /\ ReaderGoes(site, path, "recv", "lock")
  /\ packet' = [packet EXCEPT ![site][path] = Head(link[Other(site)][path])]
  /\ link' = [link EXCEPT ![Other(site)][path] = Tail(@)]
  /\ UNCHANGED <<flows, mutex, lost>>

(* The bytes are read as a header: the assertion on its type fails, or     *)
(* worse.                                                                  *)
RecvLeftover(site, path) ==
  /\ pc[site][path] = "recv" /\ AtLeftover(site, path)
  /\ lost' = lost \cup {site}
  /\ UNCHANGED <<flows, link, pc, packet, mutex>>

(* The buffer of the packet is deleted, or handed to the flow.             *)
Forget(site, path) == packet' = [packet EXCEPT ![site][path] = NoPacket]

(* Faulty: connect after the mutex was released.                           *)
FindUnlocked(site, path) ==
  LET p == packet[site][path]
  IN  /\ pc[site][path] = "lock"
      /\ mutex[site] = "free"
      /\ \/ InFlowMap(site, p.key) /\ ReaderGoes(site, path, "lock", "write")
         \/ ~InFlowMap(site, p.key) /\ ~p.close /\ ReaderGoes(site, path, "lock", "connect")
      /\ UNCHANGED <<flows, link, packet, mutex, lost>>

(* Find the flow of the packet.  A close packet for none is dropped, other *)
(* packets make the reader connect, with the mutex held.                   *)
Find(site, path) ==
  LET p == packet[site][path]
  IN  /\ pc[site][path] = "lock"
      /\ mutex[site] = "free"
      /\ \/ /\ InFlowMap(site, p.key)
            /\ ReaderGoes(site, path, "lock", "write")
            /\ UNCHANGED <<packet, mutex>>
         \/ /\ ~InFlowMap(site, p.key) /\ p.close
            /\ ReaderGoes(site, path, "lock", "recv")
            /\ Forget(site, path)
            /\ UNCHANGED mutex
         \/ /\ ~InFlowMap(site, p.key) /\ ~p.close
            /\ ReaderGoes(site, path, "lock", "connect")
            /\ mutex' = [mutex EXCEPT ![site] = path]
            /\ UNCHANGED packet
      /\ UNCHANGED <<flows, link, lost>>


(* Make the connection and the flow, and insert it; or be refused.         *)
Connect(site, path) ==
  /\ \/ /\ packet[site][path].key \notin Refused
        /\ ReaderGoes(site, path, "connect", "write")
        /\ MakeFlow(site, packet[site][path].key)
        /\ mutex' = [mutex EXCEPT ![site] = "free"]
     \/ /\ packet[site][path].key \in Refused
        /\ ReaderGoes(site, path, "connect", "answer")
        /\ UNCHANGED <<flow, made, mutex>>
  /\ UNCHANGED <<unsent, gotClose, data, link, packet, lost>>

(* SendToTer(flowPacket) in the catch: its header says size 0 now, but the *)
(* buffer was not resized and is sent with the payload.  Then the mutex is *)
(* released.                                                               *)
Answer(site, path) ==
  /\ ReaderGoes(site, path, "answer", "recv")
  /\ HasRoom(site, "ter")
  /\ link' = [link EXCEPT ![site]["ter"] =
       Append(Append(@, [key |-> packet[site][path].key, close |-> TRUE]), Leftover)]
  /\ mutex' = [mutex EXCEPT ![site] = "free"]
  /\ Forget(site, path)
  /\ UNCHANGED <<flows, lost>>

(* WriteToFlow, without the mutex.                                         *)
WriteToFlow(site, path) ==
  /\ ReaderGoes(site, path, "write", "recv")
  /\ gotClose' = IF packet[site][path].close
                 THEN [gotClose EXCEPT ![site] = @ \cup {packet[site][path].key}] ELSE gotClose
  /\ Forget(site, path)
  /\ UNCHANGED <<flow, made, unsent, data, link, mutex, lost>>

----------------------------------------------------------------------------
FlowStep(site, key) ==
  \/ \E path \in Path : SendData(site, path, key)
  \/ Close(site, key) \/ SendClose(site, key)
  \/ FlowEnds(site, key)
ReaderStep(site, path) ==
  \/ RecvPacket(site, path) \/ Find(site, path) \/ Connect(site, path)
  \/ Answer(site, path) \/ WriteToFlow(site, path)

Goes(site) == site \notin lost

Next ==
  \/ \E key \in Key : Goes("local") /\ Accept(key)
  \/ \E site \in Site, key \in Key : Goes(site) /\ FlowStep(site, key)
  \/ \E site \in Site, path \in Path :
       Goes(site) /\ (ReaderStep(site, path) \/ RecvLeftover(site, path))

Spec == Init /\ [][Next]_vars

(* Every reader runs, and std::mutex is handed on: there are finitely many *)
(* packets, so that nobody is passed over for ever.  The endpoint of a flow*)
(* that got the close packet of its peer is shut down, and so ends its     *)
(* stream too; what was popped is sent.                                    *)
FairSpec ==
  /\ Spec
  /\ \A site \in Site, path \in Path : WF_vars(Goes(site) /\ ReaderStep(site, path))
  /\ \A site \in Site, key \in Key :
       /\ WF_vars(Goes(site) /\ key \in gotClose[site] /\ Close(site, key))
       /\ WF_vars(Goes(site) /\ SendClose(site, key))
       /\ WF_vars(Goes(site) /\ FlowEnds(site, key))

----------------------------------------------------------------------------
(* The types of the flows, the links and the readers.                      *)
TypeOK ==
  /\ flow \in [Site -> [Key -> {"none", "open", "closing", "ended"}]]
  /\ made \in [Site -> [Key -> Nat]]
  /\ unsent \in [Site -> SUBSET Key] /\ gotClose \in [Site -> SUBSET Key]
  /\ data \in [Site -> [Key -> Nat]] /\ \A site \in Site, key \in Key : data[site][key] <= MaxData(site)
  /\ link \in [Site -> [Path -> Seq(Packet \cup {Leftover})]]
  /\ pc \in [Site -> [Path -> {"recv", "lock", "connect", "answer", "write"}]]
  /\ packet \in [Site -> [Path -> Packet \cup {NoPacket}]]
  /\ mutex \in [Site -> Path \cup {"free"}]
  /\ lost \subseteq Site

(* The two readers of a site may both have a packet of a connection that   *)
(* has no flow yet (Bond.cpp:186-201): one of them makes it.  No packet    *)
(* that comes late makes another.                                          *)
OneFlowPerKey == \A site \in Site, key \in Key : made[site][key] <= 1

(* The local site never connects, so only one site can wait for room on    *)
(* ter with the mutex of its FlowMap held (Bond.cpp:208), and the two never*)
(* wait for each other.                                                    *)
OneSiteAnswers ==
  \A path \in Path : pc["local"][path] \notin {"connect", "answer"}

(* The flow that a reader found under the mutex is there when it writes to *)
(* it without (Bond.cpp:180, 216), though it ends on its own, and though a *)
(* refused connection gets an answer for each data packet: the site is lost*)
(* before it reads the second.                                             *)
WritesToLivingFlow ==
  \A site \in Site, path \in Path :
    pc[site][path] = "write" => InFlowMap(site, packet[site][path].key)


----------------------------------------------------------------------------
(* "assert(packet->header()->type() == packet::TYPE::FLOW)" (Bond.cpp:94): *)
(* what a reader takes for a packet is one.                                *)
ReadsPackets == lost = {}
=============================================================================
