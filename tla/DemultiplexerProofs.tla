------------------------ MODULE DemultiplexerProofs ------------------------
(***************************************************************************)
(* Proofs about Demultiplexer, for any set of connections, any of them     *)
(* refused, any number of data packets and any limit of ter.               *)
(*                                                                         *)
(* The invariant says which packets can be on their way to a flow, given   *)
(* how far the flow of the other site is, and that who read the answer to  *)
(* a refused connection has what is left over of it before him.  What a step does to the packets *)
(* on their way, and to a flow, is said once (ArrivalsChange, FlowChanges).*)
(***************************************************************************)
EXTENDS Demultiplexer, SequenceTheorems, TLAPS

DataPacket(key)  == [key |-> key, close |-> FALSE]
ClosePacket(key) == [key |-> key, close |-> TRUE]

(* The packet is on a link to the site or in the hands of its reader.      *)
Arriving(site, p) ==
  \E path \in Path :
    \/ \E i \in DOMAIN link[Other(site)][path] : link[Other(site)][path][i] = p
    \/ packet[site][path] = p

(* A reader that left recv has a packet.                                   *)
ReadersHavePackets ==
  \A site \in Site, path \in Path : pc[site][path] # "recv" => packet[site][path] \in Packet

(* Who connects or answers is at the remote site, holds the mutex and has  *)
(* data for a connection that has no flow.                                 *)
ConnectingInv ==
  \A site \in Site, path \in Path :
    pc[site][path] \in {"connect", "answer"} =>
      /\ site = "remote"
      /\ mutex[site] = path
      /\ ~packet[site][path].close
      /\ flow[site][packet[site][path].key] = "none"
      /\ pc[site][path] = "answer" => packet[site][path].key \in Refused

(* A reader writes to a flow that was made.                                *)
WritingInv ==
  \A site \in Site, path \in Path :
    pc[site][path] = "write" => flow[site][packet[site][path].key] # "none"

(* A flow is made once, unless it was not made.                            *)
MadeInv == \A site \in Site, key \in Key : made[site][key] = IF flow[site][key] = "none" THEN 0 ELSE 1

(* Before the local flow there is nothing, and before the remote flow there*)
(* is no answer; a refused connection has no remote flow.                  *)
BeginInv ==
  \A key \in Key :
    /\ Arriving("remote", DataPacket(key)) => flow["local"][key] # "none"
    /\ Arriving("local", DataPacket(key)) => flow["remote"][key] # "none"
    /\ flow["remote"][key] # "none" => flow["local"][key] # "none" /\ key \notin Refused

(* A close packet is sent by a flow that closes, or is the answer to a     *)
(* refused connection.                                                     *)
CloseInv ==
  \A site \in Site, key \in Key :
    Arriving(site, ClosePacket(key)) \/ key \in gotClose[site] =>
      \/ flow[Other(site)][key] \in {"closing", "ended"}
      \/ site = "local" /\ key \in Refused

(* A close packet that is not sent yet is the only one.                    *)
UnsentInv ==
  \A site \in Site, key \in Key :
    key \in unsent[site] =>
      /\ flow[site][key] \in {"closing", "ended"}
      /\ ~Arriving(Other(site), ClosePacket(key)) /\ key \notin gotClose[Other(site)]

(* A flow ends after the close packet and all data of its peer.            *)
EndInv ==
  \A site \in Site, key \in Key :
    flow[site][key] = "ended" => key \in gotClose[site] /\ ~Arriving(site, DataPacket(key))

(* Close packets take ter.                                                 *)
ClosesTakeTer ==
  \A site \in Site, key \in Key :
    /\ \A i \in DOMAIN link[site]["sat"] : link[site]["sat"][i] # ClosePacket(key)
    /\ packet[site]["sat"] # ClosePacket(key)

(* Of a connection there is one close packet: on ter, with the reader of   *)
(* ter, or with the flow.                                                  *)
AtMostOne(key, ter, held, gotten) ==
  /\ \A i, j \in DOMAIN ter : ter[i] = ClosePacket(key) /\ ter[j] = ClosePacket(key) => i = j
  /\ held = ClosePacket(key) \/ key \in gotten => \A i \in DOMAIN ter : ter[i] # ClosePacket(key)
  /\ held = ClosePacket(key) => key \notin gotten

(* A flow gets one close packet, unless its connection is refused.         *)
CloseOnce ==
  \A site \in Site, key \in Key :
    site = "remote" \/ key \notin Refused =>
      AtMostOne(key, link[Other(site)]["ter"], packet[site]["ter"], gotClose[site])

(* After each answer there is a leftover: on ter, and at its head once the *)
(* answer was read.                                                        *)
LeftAfter(key, ter, held, gotten) ==
  /\ \A i \in DOMAIN ter : ter[i] = ClosePacket(key) => i + 1 \in DOMAIN ter /\ ter[i + 1] = Leftover
  /\ held = ClosePacket(key) \/ key \in gotten => ter # <<>> /\ ter[1] = Leftover
  /\ held = ClosePacket(key) => key \notin gotten

AnswerInv ==
  \A key \in Refused :
    LeftAfter(key, link["remote"]["ter"], packet["local"]["ter"], gotClose["local"])

IndInv ==
  /\ TypeOK /\ ReadersHavePackets /\ ConnectingInv /\ WritingInv /\ MadeInv
  /\ BeginInv /\ CloseInv /\ UnsentInv /\ EndInv /\ ClosesTakeTer /\ CloseOnce /\ AnswerInv
----------------------------------------------------------------------------
(* A table of tables, one entry of which is replaced.                      *)
LEMMA EntryReplaced ==
  ASSUME NEW A, NEW B, NEW C, NEW f \in [A -> [B -> C]], NEW a \in A, NEW b \in B, NEW c \in C
  PROVE  [f EXCEPT ![a][b] = c] \in [A -> [B -> C]]
  OBVIOUS

(* The head of a link that is not at a leftover is a packet.               *)
LEMMA HeadIsPacket ==
  ASSUME TypeOK, NEW site \in Site, NEW path \in Path,
         link[Other(site)][path] # <<>>, ~AtLeftover(site, path)
  PROVE  Head(link[Other(site)][path]) \in Packet
<1>1. link[Other(site)][path] \in Seq(Packet \cup {Leftover})
  BY DEF TypeOK, Other, Site
<1>2. Head(link[Other(site)][path]) \in Packet \cup {Leftover}
  BY <1>1, HeadTailProperties
<1> QED
  BY <1>2 DEF AtLeftover

(* The types are kept by every step.                                       *)
LEMMA TypeStep ==
  ASSUME TypeOK, ReadersHavePackets, [Next]_vars
  PROVE  TypeOK'
<1> USE DemultiplexerAssumption
<1> DEFINE Stages == {"none", "open", "closing", "ended"}
           Labels == {"recv", "lock", "connect", "answer", "write"}
           Packets == Seq(Packet \cup {Leftover})
<1>1. ASSUME NEW site \in Site, NEW path \in Path, NEW key \in Key, NEW close \in BOOLEAN,
             Send(site, path, key, close)
      PROVE  link' \in [Site -> [Path -> Packets]]
  <2>1. [key |-> key, close |-> close] \in Packet
    BY Zenon DEF Packet
  <2>2. Append(link[site][path], [key |-> key, close |-> close]) \in Packets
    BY <2>1, AppendProperties DEF TypeOK
  <2> QED
    BY <1>1, <2>2, EntryReplaced DEF Send, TypeOK
<1>2. ASSUME NEW site \in Site, NEW path \in Path, NEW from, NEW to \in Labels,
             ReaderGoes(site, path, from, to)
      PROVE  pc' \in [Site -> [Path -> Labels]]
  BY <1>2, EntryReplaced DEF ReaderGoes, TypeOK
<1>3. ASSUME NEW site \in Site, NEW path \in Path, Forget(site, path)
      PROVE  packet' \in [Site -> [Path -> Packet \cup {NoPacket}]]
  BY <1>3, EntryReplaced DEF Forget, TypeOK
<1>4. ASSUME NEW site \in Site, NEW key \in Key, MakeFlow(site, key)
      PROVE  flow' \in [Site -> [Key -> Stages]] /\ made' \in [Site -> [Key -> Nat]]
  BY <1>4, EntryReplaced DEF MakeFlow, TypeOK
<1>5. ASSUME NEW site \in Site, NEW path \in Path, pc[site][path] # "recv"
      PROVE  packet[site][path].key \in Key
  BY <1>5 DEF ReadersHavePackets, Packet
<1>6. ASSUME NEW key \in Key, Accept(key) PROVE TypeOK'
  BY <1>4, <1>6 DEF Accept, TypeOK, readers, Site
<1>7. ASSUME NEW site \in Site, NEW path \in Path, NEW key \in Key, SendData(site, path, key)
      PROVE  TypeOK'
  <2>1. data' = [data EXCEPT ![site][key] = data[site][key] + 1]
        /\ data[site][key] < MaxData(site)
    BY <1>7 DEF SendData
  <2>2. data[site][key] \in Nat /\ MaxData(site) \in Nat
    BY DEF TypeOK, MaxData
  <2>3. data' \in [Site -> [Key -> Nat]]
    BY <2>1, <2>2, EntryReplaced DEF TypeOK
  <2>4. \A s \in Site, k \in Key : data'[s][k] <= MaxData(s)
    BY <2>1, <2>2 DEF TypeOK
  <2> QED
    BY <1>1, <1>7, <2>3, <2>4 DEF SendData, TypeOK, readers, MaxData
<1>8. ASSUME NEW site \in Site, NEW key \in Key, Close(site, key) \/ SendClose(site, key)
      PROVE  TypeOK'
  <2>1. unsent' \in [Site -> SUBSET Key]
    <3>1. unsent \in [Site -> SUBSET Key]
      BY DEF TypeOK
    <3>2. /\ unsent[site] \cup {key} \in SUBSET Key
          /\ unsent[site] \ {key} \in SUBSET Key
      BY <3>1
    <3>3. \/ unsent' = [unsent EXCEPT ![site] = unsent[site] \cup {key}]
          \/ unsent' = [unsent EXCEPT ![site] = unsent[site] \ {key}]
      BY <1>8 DEF Close, SendClose
    <3> QED
      BY <3>1, <3>2, <3>3
  <2>2. CASE Close(site, key)
    <3>1. flow' \in [Site -> [Key -> Stages]]
      BY <2>2, EntryReplaced DEF Close, TypeOK
    <3> QED
      BY <2>1, <2>2, <3>1 DEF Close, TypeOK, readers, MaxData
  <2>3. CASE SendClose(site, key)
    BY <1>1, <2>1, <2>3 DEF SendClose, TypeOK, readers, Path, MaxData
  <2> QED
    BY <1>8, <2>2, <2>3
<1>9. ASSUME NEW site \in Site, NEW key \in Key, FlowEnds(site, key) PROVE TypeOK'
  <2>1. flow' \in [Site -> [Key -> Stages]]
    BY <1>9, EntryReplaced DEF FlowEnds, TypeOK
  <2> QED
    BY <1>9, <2>1 DEF FlowEnds, TypeOK, readers, MaxData
<1>10. ASSUME NEW site \in Site, NEW path \in Path, RecvPacket(site, path) PROVE TypeOK'
  <2>1. link[Other(site)][path] \in Packets /\ link[Other(site)][path] # <<>>
        /\ Other(site) \in Site
    BY <1>10 DEF RecvPacket, TypeOK, Other, Site
  <2>2. Head(link[Other(site)][path]) \in Packet /\ Tail(link[Other(site)][path]) \in Packets
    BY <1>10, <2>1, HeadIsPacket DEF RecvPacket
  <2>3. link' \in [Site -> [Path -> Packets]]
    BY <1>10, <2>1, <2>2, EntryReplaced DEF RecvPacket, TypeOK
  <2>4. packet' \in [Site -> [Path -> Packet \cup {NoPacket}]]
    BY <1>10, <2>2, EntryReplaced DEF RecvPacket, TypeOK
  <2> QED
    BY <1>2, <1>10, <2>3, <2>4 DEF RecvPacket, TypeOK, flows, MaxData
<1>11. ASSUME NEW site \in Site, NEW path \in Path, Find(site, path) PROVE TypeOK'
  <2>1. pc' \in [Site -> [Path -> Labels]]
    BY <1>2, <1>11 DEF Find
  <2>2. packet' \in [Site -> [Path -> Packet \cup {NoPacket}]]
    BY <1>3, <1>11 DEF Find, TypeOK
  <2>3. mutex' \in [Site -> Path \cup {"free"}]
    BY <1>11 DEF Find, TypeOK
  <2>4. UNCHANGED <<flows, link, lost>>
    BY <1>11 DEF Find
  <2> QED
    BY <2>1, <2>2, <2>3, <2>4 DEF TypeOK, flows, MaxData
<1>12. ASSUME NEW site \in Site, NEW path \in Path, Connect(site, path) PROVE TypeOK'
  <2>1. packet[site][path].key \in Key
    BY <1>5, <1>12 DEF Connect, ReaderGoes
  <2> QED
    BY <1>2, <1>4, <1>12, <2>1 DEF Connect, TypeOK, MaxData
<1>13. ASSUME NEW site \in Site, NEW path \in Path, Answer(site, path) PROVE TypeOK'
  <2>1. packet[site][path].key \in Key
    BY <1>5, <1>13 DEF Answer, ReaderGoes
  <2>2. link' \in [Site -> [Path -> Packets]]
    <3> DEFINE answer == [key |-> packet[site][path].key, close |-> TRUE]
               ter    == link[site]["ter"]
    <3>1. answer \in Packet /\ "ter" \in Path
      BY <2>1, Zenon DEF Packet, Path
    <3>2. ter \in Packets
      BY <3>1 DEF TypeOK
    <3>3. Append(ter, answer) \in Packets
      BY <3>1, <3>2, AppendProperties
    <3>4. Append(Append(ter, answer), Leftover) \in Packets
      BY <3>3, AppendProperties
    <3> HIDE DEF answer, ter, Packets
    <3>5. link' = [link EXCEPT ![site]["ter"] = Append(Append(ter, answer), Leftover)]
      BY <1>13 DEF Answer, answer, ter
    <3> QED
      BY <3>1, <3>4, <3>5, EntryReplaced DEF TypeOK, Packets
  <2> QED
    BY <1>2, <1>3, <1>13, <2>2 DEF Answer, TypeOK, flows, MaxData
<1>14. ASSUME NEW site \in Site, NEW path \in Path, WriteToFlow(site, path) PROVE TypeOK'
  <2>1. packet[site][path].key \in Key
    BY <1>5, <1>14 DEF WriteToFlow, ReaderGoes
  <2>2. gotClose' \in [Site -> SUBSET Key]
    BY <1>14, <2>1 DEF WriteToFlow, TypeOK
  <2> QED
    BY <1>2, <1>3, <1>14, <2>2 DEF WriteToFlow, TypeOK, MaxData
<1>15. CASE UNCHANGED vars
  BY <1>15 DEF vars, flows, readers, TypeOK, MaxData
<1>16. ASSUME NEW site \in Site, NEW path \in Path, RecvLeftover(site, path) PROVE TypeOK'
  BY <1>16 DEF RecvLeftover, TypeOK, flows, MaxData
<1> QED
  BY <1>6, <1>7, <1>8, <1>9, <1>10, <1>11, <1>12, <1>13, <1>14, <1>15, <1>16
     DEF Next, FlowStep, ReaderStep

----------------------------------------------------------------------------
(* What a step does to the packets on their way: new is only what the flow *)
(* of the other site sends, and the answer to a refused connection.        *)
LEMMA ArrivalsChange ==
  ASSUME TypeOK, ReadersHavePackets, [Next]_vars, NEW site \in Site, NEW p \in Packet,
         Arriving(site, p)', ~Arriving(site, p)
  PROVE  \/ ~p.close /\ flow[Other(site)][p.key] = "open" /\ flow' = flow
         \/ p.close /\ p.key \in unsent[Other(site)] \ unsent'[Other(site)]
         \/ p.close /\ \E path \in Path : /\ pc[Other(site)][path] = "answer"
                                         /\ packet[Other(site)][path].key = p.key
<1> DEFINE o == Other(site)
<1> USE DemultiplexerAssumption DEF TypeOK, Site, Path, Other
<1>1. p # NoPacket /\ p # Leftover
  BY DEF NoPacket, Leftover, Packet
<1>2. ASSUME link' = link, packet' = packet PROVE FALSE
  BY <1>2 DEF Arriving
<1>3. ASSUME NEW s \in Site, NEW path \in Path, link' = link, Forget(s, path) PROVE FALSE
  BY <1>1, <1>3 DEF Arriving, Forget
<1>4. ASSUME NEW s \in Site, NEW path \in Path, NEW key \in Key, NEW close \in BOOLEAN,
             Send(s, path, key, close),
             \A r \in Site, q \in Path : packet'[r][q] \in {packet[r][q], NoPacket}
      PROVE  s = o /\ p = [key |-> key, close |-> close]
  <2>1. link' = [link EXCEPT ![s][path] = Append(link[s][path], [key |-> key, close |-> close])]
    BY <1>4 DEF Send
  <2>2. PICK q \in Path : \/ \E i \in DOMAIN link'[o][q] : link'[o][q][i] = p
                         \/ packet'[site][q] = p
    BY DEF Arriving
  <2>3. packet'[site][q] # p
    BY <1>1, <1>4 DEF Arriving
  <2>4. PICK i \in DOMAIN link'[o][q] : link'[o][q][i] = p
    BY <2>2, <2>3
  <2>5. \A j \in DOMAIN link[o][q] : link[o][q][j] # p
    BY DEF Arriving
  <2>6. s = o /\ path = q
    BY <2>1, <2>4, <2>5
  <2>7. link'[o][q] = Append(link[o][q], [key |-> key, close |-> close])
    BY <2>1, <2>6
  <2> QED
    <3> DEFINE sends == [key |-> key, close |-> close]
               packets == link[o][q]
    <3>5. sends \in Packet
      BY Zenon DEF Packet
    <3>1. packets \in Seq(Packet \cup {Leftover}) /\ sends \in Packet \cup {Leftover}
      BY <3>5
    <3>2. /\ DOMAIN link'[o][q] = 1..(Len(packets) + 1)
          /\ DOMAIN packets = 1..Len(packets)
          /\ \A j \in 1..Len(packets) : link'[o][q][j] = packets[j]
          /\ link'[o][q][Len(packets) + 1] = sends
          /\ Len(packets) \in Nat
      BY <2>7, <3>1, AppendProperties, LenProperties
    <3>3. i \notin 1..Len(packets)
      BY <2>4, <2>5, <3>2
    <3>4. i = Len(packets) + 1
      BY <3>2, <3>3
    <3> QED
      BY <2>4, <2>6, <3>2, <3>4
<1>5. ASSUME NEW s \in Site, NEW path \in Path, RecvPacket(s, path) PROVE FALSE
  <2>1. link' = [link EXCEPT ![Other(s)][path] = Tail(link[Other(s)][path])]
        /\ packet' = [packet EXCEPT ![s][path] = Head(link[Other(s)][path])]
        /\ link[Other(s)][path] # <<>>
    BY <1>5 DEF RecvPacket
  <2>2. link[Other(s)][path] \in Seq(Packet \cup {Leftover}) /\ Other(s) \in Site
    OBVIOUS
  <2>3. /\ 1 \in DOMAIN link[Other(s)][path]
        /\ Head(link[Other(s)][path]) = link[Other(s)][path][1]
        /\ \A i \in DOMAIN Tail(link[Other(s)][path]) :
             /\ i + 1 \in DOMAIN link[Other(s)][path]
             /\ Tail(link[Other(s)][path])[i] = link[Other(s)][path][i + 1]
    BY <2>1, <2>2, HeadTailProperties, LenProperties, EmptySeq
  <2>4. PICK q \in Path : \/ \E i \in DOMAIN link'[o][q] : link'[o][q][i] = p
                         \/ packet'[site][q] = p
    BY DEF Arriving
  <2>5. CASE packet'[site][q] = p
    <3>1. s = site /\ q = path
      BY <2>1, <2>5 DEF Arriving
    <3> QED
      BY <2>1, <2>3, <2>5, <3>1 DEF Arriving
  <2>6. CASE \E i \in DOMAIN link'[o][q] : link'[o][q][i] = p
    <3>1. s = site /\ q = path
      BY <2>1, <2>6 DEF Arriving
    <3> QED
      BY <2>1, <2>3, <2>6, <3>1 DEF Arriving
  <2> QED
    BY <2>4, <2>5, <2>6
<1>6. ASSUME NEW s \in Site, NEW path \in Path, NEW key \in Key, SendData(s, path, key)
      PROVE  ~p.close /\ flow[o][p.key] = "open" /\ flow' = flow
  <2>1. s = o /\ p = [key |-> key, close |-> FALSE]
    BY <1>4, <1>6 DEF SendData, readers
  <2> QED
    BY <1>6, <2>1 DEF SendData
<1>7. ASSUME NEW s \in Site, NEW key \in Key, SendClose(s, key)
      PROVE  p.close /\ p.key \in unsent[o] \ unsent'[o]
  <2>1. s = o /\ p = [key |-> key, close |-> TRUE]
    BY <1>4, <1>7 DEF SendClose, readers
  <2> QED
    BY <1>7, <2>1 DEF SendClose
<1>8. ASSUME NEW s \in Site, NEW path \in Path, Answer(s, path)
      PROVE  p.close /\ pc[o][path] = "answer" /\ packet[o][path].key = p.key
  <2> DEFINE answer == [key |-> packet[s][path].key, close |-> TRUE]
             ter    == link[s]["ter"]
  <2>1. link' = [link EXCEPT ![s]["ter"] = Append(Append(ter, answer), Leftover)]
        /\ \A r \in Site, q \in Path : packet'[r][q] \in {packet[r][q], NoPacket}
    BY <1>8 DEF Answer, Forget
  <2>2. s = o /\ p = answer
    <3>1. PICK q \in Path : \/ \E i \in DOMAIN link'[o][q] : link'[o][q][i] = p
                           \/ packet'[site][q] = p
      BY DEF Arriving
    <3>2. packet'[site][q] # p
      BY <1>1, <2>1 DEF Arriving
    <3>3. PICK i \in DOMAIN link'[o][q] : link'[o][q][i] = p
      BY <3>1, <3>2
    <3>4. \A j \in DOMAIN link[o][q] : link[o][q][j] # p
      BY DEF Arriving
    <3>5. s = o /\ q = "ter"
      BY <2>1, <3>3, <3>4
    <3>6. ter \in Seq(Packet \cup {Leftover}) /\ answer \in Packet \cup {Leftover}
      <4>1. packet[s][path].key \in Key
        BY <1>8 DEF Answer, ReaderGoes, ReadersHavePackets, Packet
      <4>2. answer \in Packet
        BY <4>1 DEF Packet
      <4>3. ter \in Seq(Packet \cup {Leftover})
        BY <1>8
      <4> QED
        BY <4>2, <4>3
    <3>7. Append(ter, answer) \in Seq(Packet \cup {Leftover})
      BY <3>6, AppendProperties
    <3>8. link'[o][q] = Append(Append(ter, answer), Leftover)
      BY <2>1, <3>5
    <3> HIDE DEF answer
    <3>9. /\ DOMAIN link'[o][q] = 1..(Len(ter) + 2) /\ Len(ter) \in Nat
          /\ DOMAIN ter = 1..Len(ter)
          /\ \A j \in 1..Len(ter) : link'[o][q][j] = ter[j]
          /\ link'[o][q][Len(ter) + 1] = answer
          /\ link'[o][q][Len(ter) + 2] = Leftover
      BY <3>6, <3>7, <3>8, AppendProperties, LenProperties
    <3>10. i = Len(ter) + 1
      <4>1. i \in 1..(Len(ter) + 2) /\ i # Len(ter) + 2
        BY <1>1, <3>3, <3>9
      <4>2. i \notin 1..Len(ter)
        BY <3>3, <3>4, <3>5, <3>9
      <4>3. \A n \in Nat : \A j \in 1..(n + 2) : j # n + 2 /\ j \notin 1..n => j = n + 1
        OBVIOUS
      <4> QED
        BY <3>9, <4>1, <4>2, <4>3, Zenon
    <3> QED
      BY <3>3, <3>5, <3>9, <3>10
  <2> QED
    BY <1>8, <2>2 DEF Answer, ReaderGoes
<1>9. ASSUME NEW s \in Site, NEW path \in Path, Find(s, path) PROVE FALSE
  BY <1>2, <1>3, <1>9 DEF Find
<1>10. ASSUME NEW s \in Site, NEW path \in Path, WriteToFlow(s, path) PROVE FALSE
  BY <1>3, <1>10 DEF WriteToFlow
<1>11. ASSUME NEW s \in Site, NEW path \in Path, Connect(s, path) PROVE FALSE
  BY <1>2, <1>11 DEF Connect
<1>12. ASSUME NEW key \in Key, Accept(key) PROVE FALSE
  BY <1>2, <1>12 DEF Accept, readers
<1>13. ASSUME NEW s \in Site, NEW key \in Key, Close(s, key) \/ FlowEnds(s, key) PROVE FALSE
  BY <1>2, <1>13 DEF Close, FlowEnds, readers
<1>14. CASE UNCHANGED vars \/ \E s \in Site, path \in Path : RecvLeftover(s, path)
  BY <1>2, <1>14 DEF vars, readers, RecvLeftover
<1> QED
  BY <1>5, <1>6, <1>7, <1>8, <1>9, <1>10, <1>11, <1>12, <1>13, <1>14
     DEF Next, FlowStep, ReaderStep

(* What a step does to a flow.                                             *)
LEMMA FlowChanges ==
  ASSUME TypeOK, ReadersHavePackets, ConnectingInv, [Next]_vars,
         NEW site \in Site, NEW key \in Key
  PROVE  \/ flow'[site][key] = flow[site][key] /\ made'[site][key] = made[site][key]
         \/ /\ flow[site][key] = "none" /\ flow'[site][key] = "open"
            /\ made'[site][key] = made[site][key] + 1
            /\ site = "remote" => key \notin Refused /\ Arriving(site, DataPacket(key))
         \/ /\ flow[site][key] = "open" /\ flow'[site][key] = "closing"
            /\ made'[site][key] = made[site][key]
         \/ /\ flow[site][key] = "closing" /\ flow'[site][key] = "ended"
            /\ made'[site][key] = made[site][key]
            /\ key \in gotClose[site] /\ ~Arriving(site, DataPacket(key))
<1> DEFINE Stays  == flow'[site][key] = flow[site][key] /\ made'[site][key] = made[site][key]
           Begins == /\ flow[site][key] = "none" /\ flow'[site][key] = "open"
                     /\ made'[site][key] = made[site][key] + 1
                     /\ site = "remote" => key \notin Refused /\ Arriving(site, DataPacket(key))
           Closes == /\ flow[site][key] = "open" /\ flow'[site][key] = "closing"
                     /\ made'[site][key] = made[site][key]
           Ends   == /\ flow[site][key] = "closing" /\ flow'[site][key] = "ended"
                     /\ made'[site][key] = made[site][key]
                     /\ key \in gotClose[site] /\ ~Arriving(site, DataPacket(key))
<1> USE DemultiplexerAssumption DEF TypeOK, Site, Path, Packet
<1>1. ASSUME flow' = flow, made' = made PROVE Stays
  BY <1>1
<1>2. ASSUME NEW k \in Key, Accept(k) PROVE Stays \/ Begins
  BY <1>2 DEF Accept, MakeFlow
<1>3. ASSUME NEW s \in Site, NEW k \in Key, Close(s, k) PROVE Stays \/ Closes
  BY <1>3 DEF Close
<1>4. ASSUME NEW s \in Site, NEW k \in Key, FlowEnds(s, k) PROVE Stays \/ Ends
  BY <1>4 DEF FlowEnds, DataComing, Arriving, DataPacket
<1>5. ASSUME NEW s \in Site, NEW path \in Path, Connect(s, path) PROVE Stays \/ Begins
  <2>1. /\ packet[s][path] \in Packet /\ ~packet[s][path].close
        /\ flow[s][packet[s][path].key] = "none"
    BY <1>5 DEF Connect, ReaderGoes, ConnectingInv, ReadersHavePackets
  <2>2. packet[s][path] = DataPacket(packet[s][path].key) /\ packet[s][path].key \in Key
    BY <2>1 DEF DataPacket
  <2>3. CASE packet[s][path].key \in Refused
    BY <1>1, <1>5, <2>3 DEF Connect
  <2>4. CASE packet[s][path].key \notin Refused
    <3>1. flow' = [flow EXCEPT ![s][packet[s][path].key] = "open"]
          /\ made' = [made EXCEPT ![s][packet[s][path].key] = @ + 1]
      BY <1>5, <2>4 DEF Connect, MakeFlow
    <3>2. CASE site = s /\ key = packet[s][path].key
      BY <2>1, <2>2, <2>4, <3>1, <3>2 DEF Arriving
    <3>3. CASE site # s \/ key # packet[s][path].key
      BY <2>2, <3>1, <3>3
    <3> QED
      BY <3>2, <3>3
  <2> QED
    BY <2>3, <2>4
<1>6. CASE UNCHANGED vars \/ \E s \in Site, path \in Path : RecvLeftover(s, path)
  BY <1>1, <1>6 DEF vars, flows, RecvLeftover
<1>7. ASSUME NEW s \in Site, NEW path \in Path, ReaderStep(s, path) PROVE Stays \/ Begins
  BY <1>1, <1>5, <1>7 DEF ReaderStep, RecvPacket, Find, Answer, WriteToFlow, flows
<1>8. ASSUME NEW s \in Site, NEW k \in Key, FlowStep(s, k) PROVE Stays \/ Closes \/ Ends
  BY <1>1, <1>3, <1>4, <1>8 DEF FlowStep, SendData, SendClose
<1> QED
  BY <1>2, <1>6, <1>7, <1>8 DEF Next

(* What a step does to the close packets a flow has.                       *)
LEMMA GotCloseChanges ==
  ASSUME TypeOK, ReadersHavePackets, [Next]_vars, NEW site \in Site, NEW key \in Key
  PROVE  /\ key \in gotClose[site] => key \in gotClose'[site]
         /\ key \in gotClose'[site] => key \in gotClose[site] \/ Arriving(site, ClosePacket(key))
<1> USE DemultiplexerAssumption DEF TypeOK, Site, Path, Packet
<1>1. ASSUME NEW s \in Site, NEW path \in Path, WriteToFlow(s, path)
      PROVE  /\ key \in gotClose[site] => key \in gotClose'[site]
             /\ key \in gotClose'[site] => key \in gotClose[site] \/ Arriving(site, ClosePacket(key))
  <2>1. packet[s][path] \in Packet
    BY <1>1 DEF WriteToFlow, ReaderGoes, ReadersHavePackets
  <2>2. packet[s][path].close => packet[s][path] = ClosePacket(packet[s][path].key)
    BY <2>1 DEF ClosePacket
  <2>3. CASE ~packet[s][path].close
    BY <1>1, <2>3 DEF WriteToFlow
  <2>4. CASE packet[s][path].close
    <3>1. gotClose' = [gotClose EXCEPT ![s] = gotClose[s] \cup {packet[s][path].key}]
      BY <1>1, <2>4 DEF WriteToFlow
    <3>2. key \in gotClose'[site] => key \in gotClose[site] \/ (site = s /\ key = packet[s][path].key)
      BY <3>1
    <3>3. site = s /\ key = packet[s][path].key => Arriving(site, ClosePacket(key))
      BY <2>2, <2>4 DEF Arriving
    <3> QED
      BY <3>1, <3>2, <3>3
  <2> QED
    BY <2>3, <2>4
<1>2. ASSUME gotClose' = gotClose
      PROVE  /\ key \in gotClose[site] => key \in gotClose'[site]
             /\ key \in gotClose'[site] => key \in gotClose[site] \/ Arriving(site, ClosePacket(key))
  BY <1>2
<1>3. gotClose' = gotClose \/ \E s \in Site, path \in Path : WriteToFlow(s, path)
  <2>1. ASSUME NEW k \in Key, Accept(k) PROVE gotClose' = gotClose
    BY <2>1 DEF Accept
  <2>2. ASSUME NEW s \in Site, NEW k \in Key, FlowStep(s, k) PROVE gotClose' = gotClose
    BY <2>2 DEF FlowStep, SendData, Close, SendClose, FlowEnds
  <2>3. ASSUME NEW s \in Site, NEW path \in Path, ReaderStep(s, path)
        PROVE  gotClose' = gotClose \/ WriteToFlow(s, path)
    BY <2>3 DEF ReaderStep, RecvPacket, Find, Connect, Answer, flows
  <2>4. ASSUME NEW s \in Site, NEW path \in Path, RecvLeftover(s, path) PROVE gotClose' = gotClose
    BY <2>4 DEF RecvLeftover, flows
  <2>5. CASE UNCHANGED vars
    BY <2>5 DEF vars, flows
  <2> QED
    BY Zenon, <2>1, <2>2, <2>3, <2>4, <2>5 DEF Next
<1> QED
  BY <1>1, <1>2, <1>3

----------------------------------------------------------------------------
(* The invariants, each with what its step needs.                          *)

LEMMA MadeStep ==
  ASSUME TypeOK, ReadersHavePackets, ConnectingInv, MadeInv, [Next]_vars
  PROVE  MadeInv'
<1> SUFFICES ASSUME NEW site \in Site, NEW key \in Key
             PROVE  made'[site][key] = IF flow'[site][key] = "none" THEN 0 ELSE 1
  BY DEF MadeInv
<1> QED
  BY FlowChanges DEF MadeInv

LEMMA BeginStep ==
  ASSUME TypeOK, ReadersHavePackets, ConnectingInv, BeginInv, [Next]_vars
  PROVE  BeginInv'
<1> SUFFICES ASSUME NEW key \in Key
             PROVE  /\ Arriving("remote", DataPacket(key))' => flow'["local"][key] # "none"
                    /\ Arriving("local", DataPacket(key))' => flow'["remote"][key] # "none"
                    /\ flow'["remote"][key] # "none" =>
                         flow'["local"][key] # "none" /\ key \notin Refused
  BY DEF BeginInv, DataPacket
<1>1. DataPacket(key) \in Packet /\ ~DataPacket(key).close /\ DataPacket(key).key = key
  BY Zenon DEF DataPacket, Packet
<1>2. ASSUME NEW site \in Site, flow[site][key] # "none" PROVE flow'[site][key] # "none"
  BY <1>2, FlowChanges
<1>3. ASSUME NEW site \in Site, Arriving(site, DataPacket(key))'
      PROVE  flow'[Other(site)][key] # "none"
  <2>1. Other(site) \in Site
    BY DEF Other, Site
  <2>2. CASE Arriving(site, DataPacket(key))
    <3>1. flow[Other(site)][key] # "none"
      BY <2>2 DEF BeginInv, Other, Site
    <3> QED
      BY <1>2, <2>1, <3>1
  <2>3. CASE ~Arriving(site, DataPacket(key))
    <3>1. flow[Other(site)][key] = "open"
      BY <1>1, <1>3, <2>3, ArrivalsChange DEF DataPacket
    <3> QED
      BY <1>2, <2>1, <3>1
  <2> QED
    BY <2>2, <2>3
<1>4. ASSUME flow'["remote"][key] # "none"
      PROVE  flow'["local"][key] # "none" /\ key \notin Refused
  <2>1. flow["remote"][key] # "none" \/ (key \notin Refused /\ Arriving("remote", DataPacket(key)))
    BY <1>4, FlowChanges DEF Site
  <2>2. flow["local"][key] # "none" /\ key \notin Refused
    BY <2>1 DEF BeginInv
  <2> QED
    BY <1>2, <2>2 DEF Site
<1> QED
  BY <1>3, <1>4 DEF Site, Other, DataPacket

LEMMA CloseStep ==
  ASSUME TypeOK, ReadersHavePackets, ConnectingInv, CloseInv, UnsentInv, [Next]_vars
  PROVE  CloseInv'
<1> SUFFICES ASSUME NEW site \in Site, NEW key \in Key,
                    Arriving(site, ClosePacket(key))' \/ key \in gotClose'[site]
             PROVE  \/ flow'[Other(site)][key] \in {"closing", "ended"}
                    \/ site = "local" /\ key \in Refused
  BY DEF CloseInv, ClosePacket, Other
<1>1. ClosePacket(key) \in Packet /\ ClosePacket(key).close /\ ClosePacket(key).key = key
  BY Zenon DEF ClosePacket, Packet
<1>2. Other(site) \in Site
  BY DEF Other, Site
<1>3. CASE Arriving(site, ClosePacket(key)) \/ key \in gotClose[site]
  <2>1. \/ flow[Other(site)][key] \in {"closing", "ended"}
        \/ site = "local" /\ key \in Refused
    BY <1>3 DEF CloseInv
  <2> QED
    BY <1>2, <2>1, FlowChanges
<1>4. CASE ~Arriving(site, ClosePacket(key)) /\ key \notin gotClose[site]
  <2>1. Arriving(site, ClosePacket(key))'
    BY <1>4, GotCloseChanges
  <2>2. \/ key \in unsent[Other(site)]
        \/ \E path \in Path : /\ pc[Other(site)][path] = "answer"
                              /\ packet[Other(site)][path].key = key
    BY <1>1, <1>4, <2>1, ArrivalsChange DEF ClosePacket
  <2>3. ASSUME key \in unsent[Other(site)] PROVE flow'[Other(site)][key] \in {"closing", "ended"}
    BY <1>2, <2>3, FlowChanges DEF UnsentInv
  <2> QED
    BY <1>2, <2>2, <2>3 DEF ConnectingInv, Other, Site
<1> QED
  BY <1>3, <1>4

LEMMA UnsentStep ==
  ASSUME TypeOK, ReadersHavePackets, ConnectingInv, BeginInv, CloseInv, UnsentInv, [Next]_vars
  PROVE  UnsentInv'
<1> SUFFICES ASSUME NEW site \in Site, NEW key \in Key, key \in unsent'[site]
             PROVE  /\ flow'[site][key] \in {"closing", "ended"}
                    /\ ~Arriving(Other(site), ClosePacket(key))' /\ key \notin gotClose'[Other(site)]
  BY DEF UnsentInv, ClosePacket, Other
<1>1. ClosePacket(key) \in Packet /\ ClosePacket(key).close /\ ClosePacket(key).key = key
  BY Zenon DEF ClosePacket, Packet
<1>2. Other(site) \in Site /\ Other(Other(site)) = site
  BY DEF Other, Site
<1>3. key \in unsent[site] \/ Close(site, key)
  <2>1. ASSUME NEW s \in Site, NEW k \in Key, Close(s, k) PROVE key \in unsent[site] \/ Close(site, key)
    BY <2>1 DEF Close, TypeOK
  <2>2. ASSUME NEW s \in Site, NEW k \in Key, SendClose(s, k) PROVE key \in unsent[site]
    BY <2>2 DEF SendClose, TypeOK
  <2>3. CASE unsent' = unsent
    BY <2>3
  <2> QED
    <3>1. ASSUME NEW s \in Site, NEW path \in Path, ReaderStep(s, path) \/ RecvLeftover(s, path)
          PROVE  unsent' = unsent
      BY <3>1 DEF ReaderStep, RecvPacket, RecvLeftover, Find, Connect, Answer, WriteToFlow, flows
    <3>2. ASSUME NEW s \in Site, NEW k \in Key, FlowStep(s, k)
          PROVE  unsent' = unsent \/ Close(s, k) \/ SendClose(s, k)
      BY <3>2 DEF FlowStep, SendData, FlowEnds
    <3>3. ASSUME NEW k \in Key, Accept(k) PROVE unsent' = unsent
      BY <3>3 DEF Accept
    <3>4. CASE UNCHANGED vars
      BY <2>3, <3>4 DEF vars, flows
    <3> QED
      BY Zenon, <2>1, <2>2, <2>3, <3>1, <3>2, <3>3, <3>4 DEF Next
<1>4. flow'[site][key] \in {"closing", "ended"}
  <2>1. CASE key \in unsent[site]
    BY <2>1, FlowChanges DEF UnsentInv
  <2>2. CASE Close(site, key)
    BY <2>2 DEF Close, TypeOK
  <2> QED
    BY <1>3, <2>1, <2>2
<1>5. /\ flow[site][key] # "none"
      /\ ~Arriving(Other(site), ClosePacket(key)) /\ key \notin gotClose[Other(site)]
  <2>1. CASE key \in unsent[site]
    BY <2>1 DEF UnsentInv
  <2>2. CASE Close(site, key)
    <3>1. flow[site][key] = "open"
      BY <2>2 DEF Close
    <3>2. ~(Other(site) = "local" /\ key \in Refused)
      BY <3>1 DEF BeginInv, Other, Site
    <3> QED
      BY <1>2, <3>1, <3>2 DEF CloseInv
  <2> QED
    BY <1>3, <2>1, <2>2
<1>6. ASSUME Arriving(Other(site), ClosePacket(key))' PROVE FALSE
  <2>1. \/ key \in unsent[site] \ unsent'[site]
        \/ \E path \in Path : pc[site][path] = "answer" /\ packet[site][path].key = key
    BY <1>1, <1>2, <1>5, <1>6, ArrivalsChange
  <2> QED
    BY <1>5, <2>1 DEF ConnectingInv
<1> QED
  BY <1>2, <1>4, <1>5, <1>6, GotCloseChanges

LEMMA EndStep ==
  ASSUME TypeOK, ReadersHavePackets, ConnectingInv, BeginInv, CloseInv, EndInv, [Next]_vars
  PROVE  EndInv'
<1> SUFFICES ASSUME NEW site \in Site, NEW key \in Key, flow'[site][key] = "ended"
             PROVE  key \in gotClose'[site] /\ ~Arriving(site, DataPacket(key))'
  BY DEF EndInv, DataPacket
<1>1. DataPacket(key) \in Packet /\ ~DataPacket(key).close /\ DataPacket(key).key = key
  BY Zenon DEF DataPacket, Packet
<1>2. key \in gotClose[site] /\ ~Arriving(site, DataPacket(key))
  BY FlowChanges DEF EndInv
<1>3. ASSUME Arriving(site, DataPacket(key))' PROVE FALSE
  <2>1. flow[Other(site)][key] = "open"
    BY <1>1, <1>2, <1>3, ArrivalsChange DEF DataPacket
  <2>2. site = "local" /\ key \in Refused
    BY <1>2, <2>1 DEF CloseInv
  <2> QED
    BY <2>1, <2>2 DEF BeginInv, Other
<1> QED
  BY <1>2, <1>3, GotCloseChanges DEF DataPacket

(* A reader leaves the other readers alone.                                *)
LEMMA OtherReaders ==
  ASSUME TypeOK, NEW s \in Site, NEW q \in Path, ReaderStep(s, q),
         NEW site \in Site, NEW path \in Path, ~(site = s /\ path = q)
  PROVE  pc'[site][path] = pc[site][path] /\ packet'[site][path] = packet[site][path]
<1>1. ASSUME NEW from, NEW to, ReaderGoes(s, q, from, to) PROVE pc'[site][path] = pc[site][path]
  BY <1>1 DEF ReaderGoes, TypeOK
<1>2. ASSUME Forget(s, q) PROVE packet'[site][path] = packet[site][path]
  BY <1>2 DEF Forget, TypeOK
<1>3. CASE RecvPacket(s, q)
  <2>1. packet' = [packet EXCEPT ![s][q] = Head(link[Other(s)][q])]
    BY <1>3 DEF RecvPacket
  <2> QED
    BY <1>1, <1>3, <2>1 DEF RecvPacket, TypeOK
<1>4. CASE Find(s, q)
  BY <1>1, <1>2, <1>4 DEF Find
<1>5. CASE Connect(s, q)
  BY <1>1, <1>5 DEF Connect
<1>6. CASE Answer(s, q)
  BY <1>1, <1>2, <1>6 DEF Answer
<1>7. CASE WriteToFlow(s, q)
  BY <1>1, <1>2, <1>7 DEF WriteToFlow
<1> QED
  BY <1>3, <1>4, <1>5, <1>6, <1>7 DEF ReaderStep

(* Where a reader stands after its step.                                   *)
LEMMA ReaderLands ==
  ASSUME TypeOK, NEW site \in Site, NEW path \in Path, NEW from, NEW to,
         ReaderGoes(site, path, from, to)
  PROVE  pc[site][path] = from /\ pc'[site][path] = to
  BY DEF ReaderGoes, TypeOK

(* A reader gets a packet before it leaves recv, and gives it away when it *)
(* returns.                                                                *)
LEMMA PacketsStep ==
  ASSUME TypeOK, ReadersHavePackets, [Next]_vars
  PROVE  ReadersHavePackets'
<1> SUFFICES ASSUME NEW site \in Site, NEW path \in Path, pc'[site][path] # "recv"
             PROVE  packet'[site][path] \in Packet
  BY DEF ReadersHavePackets
<1>1. CASE pc'[site][path] = pc[site][path] /\ packet'[site][path] = packet[site][path]
  BY <1>1 DEF ReadersHavePackets
<1>2. CASE RecvPacket(site, path)
  <2>2. Head(link[Other(site)][path]) \in Packet
    BY <1>2, HeadIsPacket DEF RecvPacket
  <2>3. packet' = [packet EXCEPT ![site][path] = Head(link[Other(site)][path])]
    BY <1>2 DEF RecvPacket
  <2> QED
    BY <2>2, <2>3 DEF TypeOK
<1>3. CASE Find(site, path)
  <2>1. packet[site][path] \in Packet
    BY <1>3 DEF Find, ReadersHavePackets
  <2>2. pc' # [pc EXCEPT ![site][path] = "recv"]
    BY DEF TypeOK
  <2>3. packet' = packet
    BY <1>3, <2>2 DEF Find, ReaderGoes
  <2> QED
    BY <2>1, <2>3
<1>4. CASE Connect(site, path)
  BY <1>4 DEF Connect, ReaderGoes, ReadersHavePackets
<1>5. CASE Answer(site, path) \/ WriteToFlow(site, path)
  <2>1. pc'[site][path] = "recv"
    BY <1>5, ReaderLands DEF Answer, WriteToFlow
  <2> QED
    BY <2>1
<1>6. ASSUME NEW s \in Site, NEW q \in Path, ReaderStep(s, q)
      PROVE  packet'[site][path] \in Packet
  <2>1. CASE s = site /\ q = path
    BY <1>2, <1>3, <1>4, <1>5, <1>6, <2>1 DEF ReaderStep
  <2>2. CASE ~(s = site /\ q = path)
    BY <1>1, <1>6, <2>2, OtherReaders
  <2> QED
    BY <2>1, <2>2
<1> QED
  BY <1>1, <1>6 DEF Next, FlowStep, Accept, SendData, Close, SendClose, FlowEnds, RecvLeftover,
     readers, vars

(* Data that finds no flow is for a connection that had none: it cannot    *)
(* come to the local site, and not after the end of its flow.              *)
LEMMA ConnectingStep ==
  ASSUME TypeOK, ReadersHavePackets, ConnectingInv, BeginInv, EndInv, [Next]_vars
  PROVE  ConnectingInv'
<1> SUFFICES ASSUME NEW site \in Site, NEW path \in Path,
                    pc'[site][path] \in {"connect", "answer"}
             PROVE  /\ site = "remote"
                    /\ mutex'[site] = path
                    /\ ~packet'[site][path].close
                    /\ flow'[site][packet'[site][path].key] = "none"
                    /\ pc'[site][path] = "answer" => packet'[site][path].key \in Refused
  BY DEF ConnectingInv
<1> DEFINE key  == packet[site][path].key
           Goal == /\ site = "remote" /\ mutex'[site] = path
                   /\ ~packet'[site][path].close
                   /\ flow'[site][packet'[site][path].key] = "none"
                   /\ pc'[site][path] = "answer" => packet'[site][path].key \in Refused
           Same == pc'[site][path] = pc[site][path] /\ packet'[site][path] = packet[site][path]
<1>1. ASSUME Same, mutex'[site] = mutex[site], flow[site][key] = "none" => flow'[site][key] = "none"
      PROVE  Goal
  BY <1>1 DEF ConnectingInv
<1>2. CASE Find(site, path)
  <2>1. pc'[site][path] = "connect" /\ packet' = packet /\ flow' = flow
        /\ mutex' = [mutex EXCEPT ![site] = path]
        /\ ~InFlowMap(site, key) /\ ~packet[site][path].close
    BY <1>2 DEF Find, ReaderGoes, TypeOK, flows
  <2>2. key \in Key /\ packet[site][path] = DataPacket(key)
    BY <1>2, <2>1 DEF Find, ReaderGoes, ReadersHavePackets, Packet, DataPacket
  <2>3. Arriving(site, DataPacket(key))
    BY <2>2 DEF Arriving
  <2>4. flow[site][key] = "none"
    BY <2>1, <2>2, <2>3 DEF EndInv, InFlowMap, TypeOK
  <2>5. site = "remote"
    BY <2>2, <2>3, <2>4 DEF BeginInv, Site
  <2> QED
    BY <2>1, <2>4, <2>5 DEF TypeOK
<1>3. CASE Connect(site, path)
  <2>1. pc'[site][path] = "answer" /\ key \in Refused
    BY <1>3 DEF Connect, ReaderGoes, TypeOK
  <2> QED
    BY <1>3, <2>1 DEF Connect, ReaderGoes, ConnectingInv
<1>4. CASE Answer(site, path) \/ WriteToFlow(site, path) \/ RecvPacket(site, path)
  <2>1. pc'[site][path] \in {"recv", "lock"}
    BY <1>4, ReaderLands DEF Answer, WriteToFlow, RecvPacket
  <2> QED
    BY <2>1
<1>5. ASSUME NEW s \in Site, NEW q \in Path, ReaderStep(s, q), ~(site = s /\ path = q)
      PROVE  Goal
  <2>1. Same
    BY <1>5, OtherReaders
  <2>2. mutex[site] = path
    BY <2>1 DEF ConnectingInv
  <2>3. CASE s = site
    <3>1. q # path /\ pc[s][q] \notin {"connect", "answer"}
      BY <1>5, <2>2, <2>3 DEF ConnectingInv
    <3>2. ~Connect(s, q) /\ ~Answer(s, q)
      BY <3>1 DEF Connect, Answer, ReaderGoes
    <3>3. path # "free"
      BY DEF Path
    <3>4. ~Find(s, q)
      BY <2>2, <2>3, <3>3 DEF Find
    <3>5. mutex' = mutex /\ flow' = flow
      BY <1>5, <3>2, <3>4 DEF ReaderStep, RecvPacket, WriteToFlow, flows
    <3> QED
      BY <1>1, <2>1, <3>5
  <2>4. CASE s # site
    <3>1. mutex'[site] = mutex[site]
      BY <1>5, <2>4 DEF ReaderStep, RecvPacket, Find, Connect, Answer, WriteToFlow, TypeOK
    <3>2. flow'[site] = flow[site]
      BY <1>5, <2>4 DEF ReaderStep, RecvPacket, Find, Connect, Answer, WriteToFlow, MakeFlow,
         flows, TypeOK
    <3> QED
      BY <1>1, <2>1, <3>1, <3>2
  <2> QED
    BY <2>3, <2>4
<1>6. ASSUME NEW s \in Site, NEW k \in Key, FlowStep(s, k) PROVE Goal
  <2>1. Same /\ mutex' = mutex
    BY <1>6 DEF FlowStep, SendData, Close, SendClose, FlowEnds, readers
  <2>2. key \in Key
    BY <2>1 DEF ReadersHavePackets, Packet
  <2>3. flow[site][key] = "none"
    BY <2>1 DEF ConnectingInv
  <2>4. ASSUME NEW to, flow' = [flow EXCEPT ![s][k] = to], flow[s][k] \in {"open", "closing"}
        PROVE  flow'[site][key] = "none"
    BY <2>2, <2>3, <2>4 DEF TypeOK
  <2>5. flow'[site][key] = "none"
    BY <1>6, <2>3, <2>4 DEF FlowStep, SendData, Close, SendClose, FlowEnds
  <2> QED
    BY <1>1, <2>1, <2>5
<1>7. ASSUME NEW k \in Key, Accept(k) PROVE Goal
  <2>1. Same /\ mutex' = mutex /\ flow'["remote"] = flow["remote"]
    BY <1>7 DEF Accept, MakeFlow, TypeOK, readers
  <2>2. site = "remote"
    BY <2>1 DEF ConnectingInv
  <2> QED
    BY <1>1, <2>1, <2>2
<1>8. CASE UNCHANGED vars \/ \E s \in Site, q \in Path : RecvLeftover(s, q)
  BY <1>1, <1>8 DEF vars, flows, readers, RecvLeftover
<1> QED
  BY <1>2, <1>3, <1>4, <1>5, <1>6, <1>7, <1>8 DEF Next, ReaderStep

(* A flow that was found or made is never unmade.                          *)
LEMMA WritingStep ==
  ASSUME TypeOK, ReadersHavePackets, ConnectingInv, WritingInv, [Next]_vars
  PROVE  WritingInv'
<1> SUFFICES ASSUME NEW site \in Site, NEW path \in Path, pc'[site][path] = "write"
             PROVE  flow'[site][packet'[site][path].key] # "none"
  BY DEF WritingInv
<1>1. ASSUME NEW key \in Key, flow[site][key] # "none" PROVE flow'[site][key] # "none"
  BY <1>1, FlowChanges
<1>2. CASE pc[site][path] = "write" /\ packet'[site][path] = packet[site][path]
  <2>1. packet[site][path].key \in Key
    BY <1>2 DEF ReadersHavePackets, Packet
  <2> QED
    BY <1>1, <1>2, <2>1 DEF WritingInv
<1>3. CASE Find(site, path)
  BY <1>3 DEF Find, ReaderGoes, InFlowMap, TypeOK, flows
<1>4. CASE Connect(site, path)
  <2>1. packet[site][path].key \in Key
    BY <1>4 DEF Connect, ReaderGoes, ReadersHavePackets, Packet
  <2> QED
    BY <1>4, <2>1 DEF Connect, ReaderGoes, MakeFlow, TypeOK
<1>5. CASE RecvPacket(site, path) \/ Answer(site, path) \/ WriteToFlow(site, path)
  <2>1. pc'[site][path] \in {"recv", "lock"}
    BY <1>5, ReaderLands DEF Answer, WriteToFlow, RecvPacket
  <2> QED
    BY <2>1
<1>6. ASSUME NEW s \in Site, NEW q \in Path, ReaderStep(s, q)
      PROVE  flow'[site][packet'[site][path].key] # "none"
  <2>1. CASE s = site /\ q = path
    BY <1>3, <1>4, <1>5, <1>6, <2>1 DEF ReaderStep
  <2>2. CASE ~(s = site /\ q = path)
    BY <1>2, <1>6, <2>2, OtherReaders
  <2> QED
    BY <2>1, <2>2
<1>7. CASE pc' = pc /\ packet' = packet
  BY <1>2, <1>7
<1> QED
  BY <1>6, <1>7 DEF Next, FlowStep, Accept, SendData, Close, SendClose, FlowEnds, RecvLeftover,
     readers, vars

----------------------------------------------------------------------------
(* Close packets take ter.                                                 *)

LEMMA TerStep ==
  ASSUME TypeOK, ReadersHavePackets, ClosesTakeTer, [Next]_vars
  PROVE  ClosesTakeTer'
<1> SUFFICES ASSUME NEW site \in Site, NEW key \in Key
             PROVE  /\ \A i \in DOMAIN link'[site]["sat"] : link'[site]["sat"][i] # ClosePacket(key)
                    /\ packet'[site]["sat"] # ClosePacket(key)
  BY DEF ClosesTakeTer, ClosePacket
<1> DEFINE sat  == link[site]["sat"]
           Goal == /\ \A i \in DOMAIN link'[site]["sat"] : link'[site]["sat"][i] # ClosePacket(key)
                   /\ packet'[site]["sat"] # ClosePacket(key)
<1>1. NoPacket # ClosePacket(key) /\ DataPacket(key) # ClosePacket(key) /\ "sat" \in Path /\ "ter" # "sat"
  BY DemultiplexerAssumption DEF NoPacket, ClosePacket, DataPacket, Path
<1>2. /\ \A i \in DOMAIN sat : sat[i] # ClosePacket(key)
      /\ packet[site]["sat"] # ClosePacket(key)
  BY DEF ClosesTakeTer, ClosePacket
<1>3. sat \in Seq(Packet \cup {Leftover})
  BY <1>1 DEF TypeOK
<1>4. ASSUME NEW s \in Site, NEW k \in Key, Send(s, "ter", k, TRUE)
      PROVE  link'[site]["sat"] = sat
  BY <1>1, <1>4 DEF Send, TypeOK
<1>5. ASSUME NEW s \in Site, NEW path \in Path, Forget(s, path)
      PROVE  packet'[site]["sat"] # ClosePacket(key)
  BY <1>1, <1>2, <1>5 DEF Forget, TypeOK
<1>6. ASSUME NEW s \in Site, NEW path \in Path, NEW k \in Key, SendData(s, path, k)
      PROVE  Goal
  <2> DEFINE sends == [key |-> k, close |-> FALSE]
  <2>1. sends \in Packet /\ sends # ClosePacket(key)
    BY Zenon DEF Packet, ClosePacket
  <2>2. link'[site]["sat"] = sat \/ link'[site]["sat"] = Append(sat, sends)
    BY <1>1, <1>6 DEF SendData, Send, TypeOK
  <2>3. \A i \in DOMAIN Append(sat, sends) : Append(sat, sends)[i] # ClosePacket(key)
    BY <1>2, <1>3, <2>1, AppendProperties, LenProperties
  <2>4. packet' = packet
    BY <1>6 DEF SendData, readers
  <2> QED
    BY <1>2, <2>2, <2>3, <2>4
<1>7. ASSUME NEW s \in Site, NEW path \in Path, RecvPacket(s, path) PROVE Goal
  <2>1. link' = [link EXCEPT ![Other(s)][path] = Tail(link[Other(s)][path])]
        /\ packet' = [packet EXCEPT ![s][path] = Head(link[Other(s)][path])]
        /\ link[Other(s)][path] # <<>> /\ Other(s) \in Site
    BY <1>7 DEF RecvPacket, Other, Site
  <2>2. link'[site]["sat"] = sat \/ (sat # <<>> /\ link'[site]["sat"] = Tail(sat))
    BY <1>1, <2>1 DEF TypeOK
  <2>3. sat # <<>> => \A i \in DOMAIN Tail(sat) : Tail(sat)[i] # ClosePacket(key)
    BY <1>2, <1>3, HeadTailProperties, LenProperties, EmptySeq
  <2>4. ASSUME s = site, path = "sat" PROVE packet'[site]["sat"] # ClosePacket(key)
    <3> DEFINE comes == link[Other(site)]["sat"]
    <3>1. \A i \in DOMAIN comes : comes[i] # ClosePacket(key)
      BY <2>1, <2>4 DEF ClosesTakeTer, ClosePacket
    <3>2. comes \in Seq(Packet \cup {Leftover}) /\ comes # <<>>
      BY <1>1, <2>1, <2>4 DEF TypeOK
    <3>3. Head(comes) # ClosePacket(key)
      BY <3>1, <3>2, HeadTailProperties, LenProperties, EmptySeq
    <3> QED
      BY <1>1, <2>1, <2>4, <3>3 DEF TypeOK
  <2>5. ~(s = site /\ path = "sat") => packet'[site]["sat"] = packet[site]["sat"]
    BY <1>1, <2>1 DEF TypeOK
  <2> QED
    BY <1>2, <2>2, <2>3, <2>4, <2>5
<1>8. ASSUME NEW s \in Site, NEW k \in Key, SendClose(s, k) PROVE Goal
  BY <1>2, <1>4, <1>8 DEF SendClose, readers
<1>9. ASSUME NEW s \in Site, NEW path \in Path, Answer(s, path) PROVE Goal
  <2>1. link'[site]["sat"] = sat
    BY <1>1, <1>9 DEF Answer, TypeOK
  <2> QED
    BY <1>2, <1>5, <1>9, <2>1 DEF Answer
<1>10. CASE link' = link /\ (packet' = packet \/ \E s \in Site, path \in Path : Forget(s, path))
  BY <1>2, <1>5, <1>10
<1> QED
  BY <1>6, <1>7, <1>8, <1>9, <1>10 DEF Next, FlowStep, ReaderStep, Accept, Close, FlowEnds, Find,
     Connect, WriteToFlow, RecvLeftover, readers, vars

----------------------------------------------------------------------------
(* Of a connection there is one close packet.  First what happens to the   *)
(* packets on ter, whoever does it.                                        *)

LEMMA NoPacketIsNoClose ==
  ASSUME NEW key \in Key
  PROVE  NoPacket # ClosePacket(key)
  BY DemultiplexerAssumption DEF NoPacket, ClosePacket

LEMMA LeftoverIsNoClose ==
  ASSUME NEW key \in Key
  PROVE  Leftover # ClosePacket(key)
  BY DEF Leftover, ClosePacket

LEMMA AnotherIsSent ==
  ASSUME NEW key, NEW ter \in Seq(Packet \cup {Leftover}), NEW held, NEW got,
         NEW p \in Packet \cup {Leftover}, p # ClosePacket(key), AtMostOne(key, ter, held, got)
  PROVE  AtMostOne(key, Append(ter, p), held, got)
  BY AppendProperties, LenProperties DEF AtMostOne

LEMMA CloseIsSent ==
  ASSUME NEW key, NEW ter \in Seq(Packet \cup {Leftover}), NEW held, NEW got,
         ClosePacket(key) \in Packet, held # ClosePacket(key), key \notin got,
         \A i \in DOMAIN ter : ter[i] # ClosePacket(key)
  PROVE  AtMostOne(key, Append(ter, ClosePacket(key)), held, got)
  BY AppendProperties, LenProperties DEF AtMostOne

LEMMA TerIsRead ==
  ASSUME NEW key, NEW ter \in Seq(Packet \cup {Leftover}), NEW held, NEW got,
         ter # <<>>, AtMostOne(key, ter, held, got)
  PROVE  AtMostOne(key, Tail(ter), Head(ter), got)
<1>1. /\ Len(ter) \in Nat /\ DOMAIN ter = 1..Len(ter) /\ Head(ter) = ter[1] /\ 1 \in DOMAIN ter
      /\ DOMAIN Tail(ter) = 1..(Len(ter) - 1)
      /\ \A i \in DOMAIN Tail(ter) : i + 1 \in DOMAIN ter /\ Tail(ter)[i] = ter[i + 1]
  BY HeadTailProperties, LenProperties, EmptySeq
<1>2. \A i, j \in DOMAIN Tail(ter) : Tail(ter)[i] = ClosePacket(key) /\ Tail(ter)[j] = ClosePacket(key) => i = j
  BY <1>1 DEF AtMostOne
<1>3. Head(ter) = ClosePacket(key) => key \notin got /\ \A i \in DOMAIN Tail(ter) : Tail(ter)[i] # ClosePacket(key)
  BY <1>1 DEF AtMostOne
<1>4. key \in got => \A i \in DOMAIN Tail(ter) : Tail(ter)[i] # ClosePacket(key)
  BY <1>1 DEF AtMostOne
<1> QED
  BY <1>2, <1>3, <1>4 DEF AtMostOne

LEMMA PacketIsGiven ==
  ASSUME NEW key \in Key, NEW ter, NEW held, NEW got, NEW gets,
         AtMostOne(key, ter, held, got), key \in gets => key \in got \/ held = ClosePacket(key)
  PROVE  AtMostOne(key, ter, NoPacket, gets)
  BY NoPacketIsNoClose DEF AtMostOne

LEMMA OnceStep ==
  ASSUME TypeOK, ReadersHavePackets, ConnectingInv, UnsentInv, ClosesTakeTer, CloseOnce, [Next]_vars
  PROVE  CloseOnce'
<1> SUFFICES ASSUME NEW site \in Site, NEW key \in Key, site = "remote" \/ key \notin Refused
             PROVE  AtMostOne(key, link'[Other(site)]["ter"], packet'[site]["ter"],
                              gotClose'[site])
  BY DEF CloseOnce, AtMostOne, ClosePacket, Other
<1> DEFINE o    == Other(site)
           ter  == link[o]["ter"]
           held == packet[site]["ter"]
           got  == gotClose[site]
           Goal == AtMostOne(key, link'[o]["ter"], packet'[site]["ter"], gotClose'[site])
<1>1. o \in Site /\ "ter" \in Path /\ "sat" \in Path
      /\ ter \in Seq(Packet \cup {Leftover}) /\ Other(o) = site
  BY DEF Other, Site, Path, TypeOK
<1>2. AtMostOne(key, ter, held, got)
  BY DEF CloseOnce
<1>3. \A k \in Key : ClosePacket(k) \in Packet /\ DataPacket(k) \in Packet /\ DataPacket(k) # ClosePacket(key)
                     /\ (k # key => ClosePacket(k) # ClosePacket(key))
  BY Zenon DEF Packet, ClosePacket, DataPacket
<1>4. ASSUME NEW s \in Site, NEW path \in Path, NEW p \in Packet \cup {Leftover}, p # ClosePacket(key),
             link' = [link EXCEPT ![s][path] = Append(link[s][path], p)]
      PROVE  AtMostOne(key, link'[o]["ter"], held, got)
  <2>1. link'[o]["ter"] = ter \/ link'[o]["ter"] = Append(ter, p)
    BY <1>1, <1>4 DEF TypeOK
  <2>2. AtMostOne(key, Append(ter, p), held, got)
    BY <1>1, <1>2, <1>4, AnotherIsSent
  <2> QED
    BY <1>2, <2>1, <2>2
<1>5. ASSUME NEW s \in Site, NEW path \in Path, NEW k \in Key, SendData(s, path, k) PROVE Goal
  <2>1. link' = [link EXCEPT ![s][path] = Append(link[s][path], DataPacket(k))]
        /\ packet' = packet /\ gotClose' = gotClose
    BY <1>5 DEF SendData, Send, DataPacket, readers
  <2> QED
    BY <1>3, <1>4, <2>1
<1>6. ASSUME NEW s \in Site, NEW k \in Key, SendClose(s, k) PROVE Goal
  <2>1. link' = [link EXCEPT ![s]["ter"] = Append(link[s]["ter"], ClosePacket(k))]
        /\ packet' = packet /\ gotClose' = gotClose /\ k \in unsent[s]
    BY <1>6 DEF SendClose, Send, ClosePacket, readers
  <2>2. CASE k # key
    BY <1>1, <1>3, <1>4, <2>1, <2>2
  <2>3. CASE k = key /\ s # o
    <3>1. link'[o]["ter"] = ter
      BY <1>1, <2>1, <2>3 DEF TypeOK
    <3> QED
      BY <1>2, <2>1, <3>1
  <2>4. CASE k = key /\ s = o
    <3>1. ~Arriving(site, ClosePacket(key)) /\ key \notin got
      BY <1>1, <2>1, <2>4 DEF UnsentInv
    <3>2. held # ClosePacket(key) /\ \A i \in DOMAIN ter : ter[i] # ClosePacket(key)
      BY <1>1, <3>1 DEF Arriving
    <3>3. link'[o]["ter"] = Append(ter, ClosePacket(key))
      BY <1>1, <2>1, <2>4 DEF TypeOK
    <3> QED
      BY <1>1, <1>3, <2>1, <3>1, <3>2, <3>3, CloseIsSent
  <2> QED
    BY <2>2, <2>3, <2>4
<1>7. ASSUME NEW s \in Site, NEW path \in Path, Forget(s, path)
      PROVE  packet'[site]["ter"] = held \/ packet'[site]["ter"] = NoPacket
  BY <1>1, <1>7 DEF Forget, TypeOK
<1>8. ASSUME NEW s \in Site, NEW path \in Path, Answer(s, path) PROVE Goal
  <2> DEFINE k == packet[s][path].key
  <2>1. link' = [link EXCEPT ![s]["ter"] = Append(Append(link[s]["ter"], ClosePacket(k)), Leftover)]
        /\ gotClose' = gotClose
    BY <1>8 DEF Answer, ClosePacket, flows
  <2>2. k \in Key /\ s = "remote" /\ k \in Refused
    BY <1>8 DEF Answer, ReaderGoes, ReadersHavePackets, ConnectingInv, Packet
  <2>3. AtMostOne(key, link'[o]["ter"], held, got)
    <3>1. CASE s # o
      <4>1. link'[o]["ter"] = ter
        BY <1>1, <2>1, <3>1 DEF TypeOK
      <4> QED
        BY <1>2, <4>1
    <3>2. CASE s = o
      <4>1. k # key
        BY <2>2, <3>2 DEF Other
      <4>2. ClosePacket(k) \in Packet \cup {Leftover} /\ ClosePacket(k) # ClosePacket(key)
            /\ Leftover # ClosePacket(key)
        BY <1>3, <2>2, <4>1, LeftoverIsNoClose
      <4>3. Append(ter, ClosePacket(k)) \in Seq(Packet \cup {Leftover})
        BY <1>1, <4>2, AppendProperties
      <4>4. AtMostOne(key, Append(ter, ClosePacket(k)), held, got)
        BY <1>1, <1>2, <4>2, AnotherIsSent
      <4>5. AtMostOne(key, Append(Append(ter, ClosePacket(k)), Leftover), held, got)
        BY <4>2, <4>3, <4>4, AnotherIsSent
      <4>6. link'[o]["ter"] = Append(Append(ter, ClosePacket(k)), Leftover)
        BY <1>1, <2>1, <3>2 DEF TypeOK
      <4> QED
        BY <4>5, <4>6
    <3> QED
      BY <3>1, <3>2
  <2>4. packet'[site]["ter"] = held \/ packet'[site]["ter"] = NoPacket
    BY <1>7, <1>8 DEF Answer
  <2> QED
    BY <2>1, <2>3, <2>4, PacketIsGiven
<1>9. ASSUME NEW s \in Site, NEW path \in Path, RecvPacket(s, path) PROVE Goal
  <2>1. link' = [link EXCEPT ![Other(s)][path] = Tail(link[Other(s)][path])]
        /\ packet' = [packet EXCEPT ![s][path] = Head(link[Other(s)][path])]
        /\ link[Other(s)][path] # <<>> /\ gotClose' = gotClose /\ Other(s) \in Site
    BY <1>9 DEF RecvPacket, Other, Site, flows
  <2>2. CASE s = site /\ path = "ter"
    <3>1. link'[o]["ter"] = Tail(ter) /\ packet'[site]["ter"] = Head(ter) /\ ter # <<>>
      BY <1>1, <2>1, <2>2 DEF TypeOK
    <3> QED
      BY <1>1, <1>2, <2>1, <3>1, TerIsRead
  <2>3. CASE ~(s = site /\ path = "ter")
    <3>1. link'[o]["ter"] = ter
      BY <1>1, <2>1, <2>3 DEF TypeOK, Other, Site
    <3>2. packet'[site]["ter"] = held
      BY <1>1, <2>1, <2>3 DEF TypeOK
    <3> QED
      BY <1>2, <2>1, <3>1, <3>2
  <2> QED
    BY <2>2, <2>3
<1>10. ASSUME NEW s \in Site, NEW path \in Path, WriteToFlow(s, path) PROVE Goal
  <2> DEFINE gets == gotClose'[site]
  <2>1. packet[s][path] \in Packet /\ link' = link /\ Forget(s, path)
    BY <1>10 DEF WriteToFlow, ReaderGoes, ReadersHavePackets
  <2>2. packet'[site]["ter"] = held \/ packet'[site]["ter"] = NoPacket
    BY <1>7, <2>1
  <2>3. key \in gets => key \in got \/ (s = site /\ packet[s][path] = ClosePacket(key))
    BY <1>10, <2>1 DEF WriteToFlow, TypeOK, Packet, ClosePacket
  <2>4. key \in gets => key \in got \/ (s = site /\ path = "ter" /\ held = ClosePacket(key))
    BY <2>3 DEF ClosesTakeTer, Path
  <2>5. s = site /\ path = "ter" => packet'[site]["ter"] = NoPacket
    BY <2>1 DEF Forget, TypeOK
  <2>6. CASE packet'[site]["ter"] = NoPacket
    BY <1>2, <2>1, <2>4, <2>6, PacketIsGiven
  <2>7. CASE packet'[site]["ter"] = held /\ ~(s = site /\ path = "ter")
    <3>1. key \in gets => key \in got
      BY <2>4, <2>7
    <3> QED
      BY <1>2, <2>1, <2>7, <3>1 DEF AtMostOne
  <2> QED
    BY <2>2, <2>5, <2>6, <2>7
<1>11. ASSUME NEW s \in Site, NEW path \in Path, Find(s, path) PROVE Goal
  <2>1. link' = link /\ gotClose' = gotClose /\ (packet' = packet \/ Forget(s, path))
    BY <1>11 DEF Find, flows
  <2>2. packet'[site]["ter"] = held \/ packet'[site]["ter"] = NoPacket
    BY <1>7, <2>1
  <2> QED
    BY <1>2, <2>1, <2>2, PacketIsGiven
<1>12. CASE link' = link /\ gotClose' = gotClose /\ packet' = packet
  BY <1>2, <1>12
<1> QED
  BY <1>5, <1>6, <1>8, <1>9, <1>10, <1>11, <1>12 DEF Next, FlowStep, ReaderStep, Accept, Close,
     FlowEnds, Connect, RecvLeftover, readers, flows, vars

----------------------------------------------------------------------------
(* What is left over of an answer comes right after it.                    *)

LEMMA AnotherAfter ==
  ASSUME NEW key, NEW ter \in Seq(Packet \cup {Leftover}), NEW held, NEW got,
         NEW p \in Packet \cup {Leftover}, p # ClosePacket(key), LeftAfter(key, ter, held, got)
  PROVE  LeftAfter(key, Append(ter, p), held, got)
<1>1. /\ Len(ter) \in Nat /\ DOMAIN ter = 1..Len(ter) /\ DOMAIN Append(ter, p) = 1..(Len(ter) + 1)
      /\ \A i \in 1..Len(ter) : Append(ter, p)[i] = ter[i]
      /\ Append(ter, p)[Len(ter) + 1] = p
  BY AppendProperties, LenProperties
<1>2. ter # <<>> => 1 \in DOMAIN ter
  BY <1>1, EmptySeq
<1>3. Append(ter, p) # <<>>
  BY AppendProperties
<1> QED
  BY <1>1, <1>2, <1>3 DEF LeftAfter

LEMMA AnswerAfter ==
  ASSUME NEW key, NEW ter \in Seq(Packet \cup {Leftover}), NEW held, NEW got,
         ClosePacket(key) \in Packet, Leftover # ClosePacket(key), LeftAfter(key, ter, held, got)
  PROVE  LeftAfter(key, Append(Append(ter, ClosePacket(key)), Leftover), held, got)
<1> DEFINE once  == Append(ter, ClosePacket(key))
           twice == Append(once, Leftover)
<1>1. /\ Len(ter) \in Nat /\ DOMAIN ter = 1..Len(ter) /\ DOMAIN once = 1..(Len(ter) + 1)
      /\ \A i \in 1..Len(ter) : once[i] = ter[i]
      /\ once[Len(ter) + 1] = ClosePacket(key)
      /\ once \in Seq(Packet \cup {Leftover}) /\ Len(once) = Len(ter) + 1
  BY AppendProperties, LenProperties
<1> HIDE DEF once
<1>2. /\ DOMAIN twice = 1..(Len(ter) + 2) /\ twice # <<>>
      /\ \A i \in 1..(Len(ter) + 1) : twice[i] = once[i]
      /\ twice[Len(ter) + 2] = Leftover
  BY <1>1, AppendProperties, LenProperties
<1> HIDE DEF twice
<1>3. ter # <<>> => 1 \in DOMAIN ter
  BY <1>1, EmptySeq
<1>4. \A i \in DOMAIN twice : twice[i] = ClosePacket(key) => i + 1 \in DOMAIN twice /\ twice[i + 1] = Leftover
  BY <1>1, <1>2 DEF LeftAfter
<1>5. ter # <<>> => twice[1] = ter[1]
  BY <1>1, <1>2, <1>3
<1>6. LeftAfter(key, twice, held, got)
  BY <1>2, <1>4, <1>5 DEF LeftAfter
<1> QED
  BY <1>6 DEF twice, once

(* Who reads from ter reads no leftover, and so no second answer.          *)
LEMMA AnswerIsRead ==
  ASSUME NEW key, NEW ter \in Seq(Packet \cup {Leftover}), NEW held, NEW got,
         ter # <<>>, Head(ter) # Leftover, LeftAfter(key, ter, held, got)
  PROVE  LeftAfter(key, Tail(ter), Head(ter), got)
<1>1. /\ Len(ter) \in Nat /\ DOMAIN ter = 1..Len(ter) /\ Head(ter) = ter[1] /\ 1 \in DOMAIN ter
      /\ DOMAIN Tail(ter) = 1..(Len(ter) - 1) /\ Tail(ter) \in Seq(Packet \cup {Leftover})
      /\ \A i \in DOMAIN Tail(ter) : i + 1 \in DOMAIN ter /\ Tail(ter)[i] = ter[i + 1]
  BY HeadTailProperties, LenProperties, EmptySeq
<1>2. key \notin got
  BY <1>1 DEF LeftAfter
<1>3. \A i \in DOMAIN Tail(ter) : Tail(ter)[i] = ClosePacket(key) =>
        i + 1 \in DOMAIN Tail(ter) /\ Tail(ter)[i + 1] = Leftover
  BY <1>1 DEF LeftAfter
<1>4. ASSUME Head(ter) = ClosePacket(key) PROVE Tail(ter) # <<>> /\ Tail(ter)[1] = Leftover
  <2>1. 2 \in DOMAIN ter /\ ter[2] = Leftover
    BY <1>1, <1>4 DEF LeftAfter
  <2>2. 1 \in DOMAIN Tail(ter)
    BY <1>1, <2>1
  <2> QED
    BY <1>1, <2>1, <2>2
<1> QED
  BY <1>2, <1>3, <1>4 DEF LeftAfter

LEMMA AnswerIsGiven ==
  ASSUME NEW key \in Key, NEW ter, NEW held, NEW got, NEW gets,
         LeftAfter(key, ter, held, got), key \in gets => key \in got \/ held = ClosePacket(key)
  PROVE  LeftAfter(key, ter, NoPacket, gets)
  BY NoPacketIsNoClose DEF LeftAfter

LEMMA AnswerStep ==
  ASSUME TypeOK, ReadersHavePackets, ConnectingInv, BeginInv, UnsentInv, ClosesTakeTer, AnswerInv,
         [Next]_vars
  PROVE  AnswerInv'
<1> SUFFICES ASSUME NEW key \in Refused
             PROVE  LeftAfter(key, link'["remote"]["ter"], packet'["local"]["ter"],
                              gotClose'["local"])
  BY DEF AnswerInv, LeftAfter, ClosePacket
<1> DEFINE ter  == link["remote"]["ter"]
           held == packet["local"]["ter"]
           got  == gotClose["local"]
           Goal == LeftAfter(key, link'["remote"]["ter"], packet'["local"]["ter"], gotClose'["local"])
<1>1. /\ key \in Key /\ "local" \in Site /\ "remote" \in Site /\ "ter" \in Path
      /\ ter \in Seq(Packet \cup {Leftover}) /\ Leftover # ClosePacket(key)
  BY DemultiplexerAssumption, LeftoverIsNoClose DEF Site, Path, TypeOK
<1>2. LeftAfter(key, ter, held, got)
  BY DEF AnswerInv
<1>3. \A k \in Key : ClosePacket(k) \in Packet /\ DataPacket(k) \in Packet
                     /\ DataPacket(k) # ClosePacket(key) /\ (k # key => ClosePacket(k) # ClosePacket(key))
  BY Zenon DEF Packet, ClosePacket, DataPacket
<1>4. ASSUME NEW s \in Site, NEW path \in Path, NEW p \in Packet \cup {Leftover}, p # ClosePacket(key),
             link' = [link EXCEPT ![s][path] = Append(link[s][path], p)]
      PROVE  LeftAfter(key, link'["remote"]["ter"], held, got)
  <2>1. link'["remote"]["ter"] = ter \/ link'["remote"]["ter"] = Append(ter, p)
    BY <1>1, <1>4 DEF TypeOK
  <2>2. LeftAfter(key, Append(ter, p), held, got)
    BY <1>1, <1>2, <1>4, AnotherAfter
  <2> QED
    BY <1>2, <2>1, <2>2
<1>5. ASSUME NEW s \in Site, NEW path \in Path, NEW k \in Key, SendData(s, path, k) PROVE Goal
  <2>1. link' = [link EXCEPT ![s][path] = Append(link[s][path], DataPacket(k))]
        /\ packet' = packet /\ gotClose' = gotClose
    BY <1>5 DEF SendData, Send, DataPacket, readers
  <2> QED
    BY <1>3, <1>4, <2>1
<1>6. ASSUME NEW s \in Site, NEW k \in Key, SendClose(s, k) PROVE Goal
  <2>1. link' = [link EXCEPT ![s]["ter"] = Append(link[s]["ter"], ClosePacket(k))]
        /\ packet' = packet /\ gotClose' = gotClose /\ k \in unsent[s]
    BY <1>6 DEF SendClose, Send, ClosePacket, readers
  <2>2. CASE s = "remote"
    <3>1. k # key
      BY <1>1, <2>1, <2>2 DEF UnsentInv, BeginInv
    <3> QED
      BY <1>1, <1>3, <1>4, <2>1, <3>1
  <2>3. CASE s # "remote"
    <3>1. link'["remote"]["ter"] = ter
      BY <1>1, <2>1, <2>3 DEF TypeOK
    <3> QED
      BY <1>2, <2>1, <3>1
  <2> QED
    BY <2>2, <2>3
<1>7. ASSUME NEW s \in Site, NEW path \in Path, Forget(s, path)
      PROVE  packet'["local"]["ter"] = held \/ packet'["local"]["ter"] = NoPacket
  BY <1>1, <1>7 DEF Forget, TypeOK
<1>8. ASSUME NEW s \in Site, NEW path \in Path, Answer(s, path) PROVE Goal
  <2> DEFINE k == packet[s][path].key
  <2>1. link' = [link EXCEPT ![s]["ter"] = Append(Append(link[s]["ter"], ClosePacket(k)), Leftover)]
        /\ gotClose' = gotClose
    BY <1>8 DEF Answer, ClosePacket, flows
  <2>2. k \in Key /\ s = "remote"
    BY <1>8 DEF Answer, ReaderGoes, ReadersHavePackets, ConnectingInv, Packet
  <2>3. link'["remote"]["ter"] = Append(Append(ter, ClosePacket(k)), Leftover)
    BY <1>1, <2>1, <2>2 DEF TypeOK
  <2>4. LeftAfter(key, Append(Append(ter, ClosePacket(k)), Leftover), held, got)
    <3>1. CASE k = key
      BY <1>1, <1>2, <1>3, <3>1, AnswerAfter
    <3>2. CASE k # key
      <4>1. ClosePacket(k) \in Packet /\ ClosePacket(k) # ClosePacket(key)
        BY <1>3, <2>2, <3>2
      <4>2. Append(ter, ClosePacket(k)) \in Seq(Packet \cup {Leftover})
        BY <1>1, <4>1, AppendProperties
      <4>3. LeftAfter(key, Append(ter, ClosePacket(k)), held, got)
        BY <1>1, <1>2, <4>1, AnotherAfter
      <4> QED
        BY <1>1, <4>2, <4>3, AnotherAfter
    <3> QED
      BY <3>1, <3>2
  <2>5. packet'["local"]["ter"] = held \/ packet'["local"]["ter"] = NoPacket
    BY <1>7, <1>8 DEF Answer
  <2> QED
    BY <1>1, <2>1, <2>3, <2>4, <2>5, AnswerIsGiven
<1>9. ASSUME NEW s \in Site, NEW path \in Path, RecvPacket(s, path) PROVE Goal
  <2>1. /\ link' = [link EXCEPT ![Other(s)][path] = Tail(link[Other(s)][path])]
        /\ packet' = [packet EXCEPT ![s][path] = Head(link[Other(s)][path])]
        /\ link[Other(s)][path] # <<>> /\ Head(link[Other(s)][path]) # Leftover
        /\ gotClose' = gotClose /\ Other(s) \in Site
    BY <1>9 DEF RecvPacket, AtLeftover, Other, Site, flows
  <2>2. CASE s = "local" /\ path = "ter"
    <3>1. /\ link'["remote"]["ter"] = Tail(ter) /\ packet'["local"]["ter"] = Head(ter)
          /\ ter # <<>> /\ Head(ter) # Leftover
      BY <1>1, <2>1, <2>2 DEF TypeOK, Other
    <3> QED
      BY <1>1, <1>2, <2>1, <3>1, AnswerIsRead
  <2>3. CASE ~(s = "local" /\ path = "ter")
    <3>1. link'["remote"]["ter"] = ter /\ packet'["local"]["ter"] = held
      BY <1>1, <2>1, <2>3 DEF TypeOK, Other, Site
    <3> QED
      BY <1>2, <2>1, <3>1
  <2> QED
    BY <2>2, <2>3
<1>10. ASSUME NEW s \in Site, NEW path \in Path, WriteToFlow(s, path) PROVE Goal
  <2> DEFINE gets == gotClose'["local"]
  <2>1. packet[s][path] \in Packet /\ link' = link /\ Forget(s, path)
    BY <1>10 DEF WriteToFlow, ReaderGoes, ReadersHavePackets
  <2>2. key \in gets => key \in got \/ (s = "local" /\ packet[s][path] = ClosePacket(key))
    <3>1. \/ gotClose' = gotClose
          \/ /\ packet[s][path].close
             /\ gotClose' = [gotClose EXCEPT ![s] = gotClose[s] \cup {packet[s][path].key}]
      BY <1>10 DEF WriteToFlow
    <3>2. packet[s][path].close => packet[s][path] = ClosePacket(packet[s][path].key)
      BY <2>1 DEF Packet, ClosePacket
    <3>3. CASE gotClose' = gotClose
      BY <1>1, <3>3
    <3>4. CASE /\ packet[s][path].close
               /\ gotClose' = [gotClose EXCEPT ![s] = gotClose[s] \cup {packet[s][path].key}]
      <4>1. key \in gets => key \in got \/ (s = "local" /\ key = packet[s][path].key)
        BY <1>1, <3>4 DEF TypeOK
      <4> QED
        BY <3>2, <3>4, <4>1
    <3> QED
      BY <3>1, <3>3, <3>4
  <2>3. key \in gets => key \in got \/ (s = "local" /\ path = "ter" /\ held = ClosePacket(key))
    BY <1>1, <2>2 DEF ClosesTakeTer, Path
  <2>4. CASE s = "local" /\ path = "ter"
    <3>1. packet'["local"]["ter"] = NoPacket
      BY <1>1, <2>1, <2>4 DEF Forget, TypeOK
    <3> QED
      BY <1>1, <1>2, <2>1, <2>3, <3>1, AnswerIsGiven
  <2>5. CASE ~(s = "local" /\ path = "ter")
    <3>1. packet'["local"]["ter"] = held
      BY <1>1, <2>1, <2>5 DEF Forget, TypeOK
    <3> QED
      BY <1>2, <2>1, <2>3, <2>5, <3>1 DEF LeftAfter
  <2> QED
    BY <2>4, <2>5
<1>11. ASSUME NEW s \in Site, NEW path \in Path, Find(s, path) PROVE Goal
  <2>1. link' = link /\ gotClose' = gotClose /\ (packet' = packet \/ Forget(s, path))
    BY <1>11 DEF Find, flows
  <2>2. packet'["local"]["ter"] = held \/ packet'["local"]["ter"] = NoPacket
    BY <1>7, <2>1
  <2> QED
    BY <1>1, <1>2, <2>1, <2>2, AnswerIsGiven
<1>12. CASE link' = link /\ gotClose' = gotClose /\ packet' = packet
  BY <1>2, <1>12
<1> QED
  BY <1>5, <1>6, <1>8, <1>9, <1>10, <1>11, <1>12 DEF Next, FlowStep, ReaderStep, Accept, Close,
     FlowEnds, Connect, RecvLeftover, readers, flows, vars

----------------------------------------------------------------------------
(* The theorems.                                                           *)

LEMMA InitIndInv == Init => IndInv
<1> SUFFICES ASSUME Init PROVE IndInv
  OBVIOUS
<1>1. \A key \in Key : NoPacket # ClosePacket(key) /\ NoPacket # DataPacket(key)
  BY DemultiplexerAssumption DEF NoPacket, ClosePacket, DataPacket
<1>2. \A site \in Site : Other(site) \in Site
  BY DEF Other, Site
<1>3. DOMAIN <<>> = {}
  OBVIOUS
<1>4. ASSUME NEW site \in Site, NEW key \in Key
      PROVE  flow[site][key] = "none" /\ ~Arriving(site, ClosePacket(key)) /\ ~Arriving(site, DataPacket(key))
  <2>1. \A path \in Path : link[Other(site)][path] = <<>> /\ packet[site][path] = NoPacket
    BY <1>2 DEF Init
  <2> QED
    BY <1>1, <1>3, <2>1 DEF Init, Arriving
<1>5. ReadersHavePackets /\ ConnectingInv /\ WritingInv /\ MadeInv
  BY DEF Init, ReadersHavePackets, ConnectingInv, WritingInv, MadeInv
<1>6. BeginInv /\ CloseInv /\ UnsentInv /\ EndInv
  BY <1>4 DEF Init, BeginInv, CloseInv, UnsentInv, EndInv, Site
<1>7. ClosesTakeTer
  <2>1. \A site \in Site : link[site]["sat"] = <<>> /\ packet[site]["sat"] = NoPacket
    BY DEF Init, Path
  <2> QED
    BY <1>1, <1>3, <2>1 DEF ClosesTakeTer
<1>8. CloseOnce
  <2>1. \A site \in Site : /\ link[Other(site)]["ter"] = <<>> /\ packet[site]["ter"] = NoPacket
                           /\ gotClose[site] = {}
    BY <1>2 DEF Init, Path
  <2> QED
    BY <1>1, <1>3, <2>1 DEF CloseOnce, AtMostOne
<1>9. TypeOK
  BY DemultiplexerAssumption DEF Init, TypeOK, MaxData
<1>10. AnswerInv
  <2>1. link["remote"]["ter"] = <<>> /\ packet["local"]["ter"] = NoPacket /\ gotClose["local"] = {}
    BY DEF Init, Site, Path
  <2> QED
    BY <1>1, <1>3, <2>1, DemultiplexerAssumption DEF AnswerInv, LeftAfter
<1> QED
  BY <1>5, <1>6, <1>7, <1>8, <1>9, <1>10 DEF IndInv

LEMMA AlwaysIndInv == Spec => []IndInv
<1>1. ASSUME IndInv, [Next]_vars PROVE IndInv'
  BY <1>1, TypeStep, PacketsStep, ConnectingStep, WritingStep, MadeStep, BeginStep, CloseStep,
     UnsentStep, EndStep, TerStep, OnceStep, AnswerStep DEF IndInv
<1> QED
  BY <1>1, InitIndInv, PTL DEF Spec

(* The values stay in their types: no reader leaves recv without a packet, *)
(* and a link holds whole packets (Bond.cpp:160-217).                      *)
THEOREM TypeCorrect == Spec => []TypeOK
  BY AlwaysIndInv, PTL DEF IndInv

(* Whichever reader finds the packets of a new connection first (Bond.cpp: *)
(* 186-201), and however late a packet comes, a site makes one flow for it.*)
THEOREM MakesOneFlowPerKey == Spec => []OneFlowPerKey
<1>1. IndInv => OneFlowPerKey
  BY DEF IndInv, MadeInv, OneFlowPerKey
<1> QED
  BY <1>1, AlwaysIndInv, PTL

(* Only the remote site connects, and so only there a reader waits for room*)
(* on ter with the mutex of the FlowMap held (Bond.cpp:208).               *)
THEOREM OnlyRemoteAnswers == Spec => []OneSiteAnswers
<1>1. IndInv => OneSiteAnswers
  BY DEF IndInv, ConnectingInv, OneSiteAnswers, Site
<1> QED
  BY <1>1, AlwaysIndInv, PTL

(* The flow that a reader found under the mutex is still there when it     *)
(* writes to it without (Bond.cpp:180, 216): a flow ends after its close   *)
(* packet and all data.  There is one close packet, or the reader is at the*)
(* leftover of the first answer when it comes to the second.               *)
THEOREM FindsALivingFlow == Spec => []WritesToLivingFlow
<1>1. ASSUME IndInv PROVE WritesToLivingFlow
  <2> SUFFICES ASSUME NEW site \in Site, NEW path \in Path, pc[site][path] = "write"
               PROVE  InFlowMap(site, packet[site][path].key)
    BY DEF WritesToLivingFlow
  <2> DEFINE key == packet[site][path].key
  <2> USE <1>1 DEF IndInv
  <2>1. key \in Key /\ (packet[site][path] = DataPacket(key) \/ packet[site][path] = ClosePacket(key))
    BY DEF ReadersHavePackets, Packet, DataPacket, ClosePacket
  <2>2. flow[site][key] \in {"open", "closing", "ended"}
    BY <2>1 DEF WritingInv, TypeOK
  <2>3. ASSUME flow[site][key] = "ended" PROVE FALSE
    <3>1. key \in gotClose[site] /\ ~Arriving(site, DataPacket(key))
      BY <2>1, <2>3 DEF EndInv, DataPacket
    <3>2. packet[site][path] = ClosePacket(key)
      BY <2>1, <3>1 DEF Arriving
    <3>3. path = "ter"
      BY <2>1, <3>2 DEF ClosesTakeTer, Path
    <3>4. CASE site = "remote" \/ key \notin Refused
      BY <2>1, <3>1, <3>2, <3>3, <3>4 DEF CloseOnce, AtMostOne
    <3>5. CASE site = "local" /\ key \in Refused
      BY <3>1, <3>2, <3>3, <3>5 DEF AnswerInv, LeftAfter
    <3> QED
      BY <3>4, <3>5 DEF Site
  <2> QED
    BY <2>2, <2>3 DEF InFlowMap
<1> QED
  BY <1>1, AlwaysIndInv, PTL
=============================================================================
