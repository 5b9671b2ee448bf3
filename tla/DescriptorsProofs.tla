-------------------------- MODULE DescriptorsProofs --------------------------
(***************************************************************************)
(* Theorems about the objects of a site that hold a descriptor, for every  *)
(* set of links, connections and listeners, every set of numbers and every *)
(* bound on the bytes.                                                     *)
(***************************************************************************)
EXTENDS Descriptors, TLAPS

Alive(c) == stage[c] \notin {"none", "gone"}

(* A flow begins only when the links are open.                             *)
FlowsComeLater ==
  \A c \in FlowConn, l \in Link :
    stage[c] # "none" => stage[l] \in {"open", "unlisted", "gone"}

(* Until a flow begins nobody closes the descriptor of another.            *)
ListenersUndisturbed ==
  (\A c \in FlowConn : stage[c] = "none") =>
    \A o \in Listener : Alive(o) => table[fd[o]] = o

(* A link keeps its number for itself.                                     *)
LinksHoldNumbers ==
  \A l \in Link : Alive(l) =>
    /\ table[fd[l]] = l
    /\ \A c \in Object \ {l} : Alive(c) => fd[c] # fd[l]

LinksAreListed ==
  \A l \in Link : stage[l] \in {"listed", "open", "ending"} => manager[fd[l]] = l

(* While no number was given out between the two closes, no two objects    *)
(* have the same one.                                                      *)
NumbersDiffer ==
  ~reused => \A c, d \in Object : c # d /\ Alive(c) /\ Alive(d) => fd[c] # fd[d]

NumbersHeld ==
  ~reused => \A c \in Object :
    Alive(c) /\ stage[c] \notin {"ending", "unlisted"} => table[fd[c]] = c

ConnectionsAreListed ==
  ~reused => \A c \in Connection :
    stage[c] \in {"listed", "open", "running", "erased"} => manager[fd[c]] = c

(* What the sampler has loaded was counted.                                *)
LoadedWasCounted == sampler = "store" => loaded <= bytes[at]

(* As long as no two flows share the addresses, the running flow is the    *)
(* one in the FlowMap.                                                     *)
RunningFlowIsListed ==
  ~shared => \A c \in FlowConn : stage[c] = "running" => flowMap = c

----------------------------------------------------------------------------
(* The types are kept by every step.                                       *)
LEMMA TypeStep ==
  ASSUME TypeOK, [Next]_vars
  PROVE  TypeOK'
<1> USE DescriptorsAssumption DEF Object, Connection, Nobody
<1>1. ASSUME NEW c \in Object, OpenSocket(c) PROVE TypeOK'
  <2>1. PICK f \in Fd : /\ table[f] = Nobody
                       /\ table' = [table EXCEPT ![f] = c]
                       /\ fd' = [fd EXCEPT ![c] = f]
                       /\ reused' = (reused \/ \E d \in Object :
                                        fd[d] = f /\ stage[d] \in {"ending", "unlisted"})
    BY <1>1 DEF OpenSocket, TakeDescriptor
  <2> QED
    BY <1>1, <2>1 DEF OpenSocket, Step, MayBegin, flowMaps, objects, counts, metrics,
       TypeOK, Stage
<1>2. ASSUME NEW c \in Object, SetSockOpt(c) PROVE TypeOK'
  BY <1>2 DEF SetSockOpt, Step, flowMaps, objects, counts, metrics, TypeOK, Stage
<1>3. ASSUME NEW c \in Object, List(c) PROVE TypeOK'
  BY <1>3 DEF List, Step, InsertIntoManager, flowMaps, objects, counts, metrics, TypeOK,
     Stage
<1>4. ASSUME NEW c \in Object, Connect(c) PROVE TypeOK'
  BY <1>4 DEF Connect, Step, flowMaps, objects, counts, metrics, TypeOK, Stage
<1>5. ASSUME NEW c \in Object, Bind(c) PROVE TypeOK'
  BY <1>5 DEF Bind, Step, flowMaps, objects, counts, metrics, TypeOK, Stage
<1>5a. ASSUME NEW c \in Object, Listen(c) PROVE TypeOK'
  BY <1>5a DEF Listen, Step, flowMaps, objects, counts, metrics, TypeOK, Stage
<1>6. ASSUME NEW c \in Object, Accept(c) PROVE TypeOK'
  <2>1. PICK f \in Fd : /\ table[f] = Nobody
                       /\ table' = [table EXCEPT ![f] = c]
                       /\ fd' = [fd EXCEPT ![c] = f]
                       /\ reused' = (reused \/ \E d \in Object :
                                        fd[d] = f /\ stage[d] \in {"ending", "unlisted"})
    BY <1>6 DEF Accept, TakeDescriptor
  <2> QED
    BY <1>6, <2>1 DEF Accept, Step, flowMaps, objects, counts, metrics, TypeOK, Stage
<1>7. ASSUME NEW c \in Object, AcceptedIsListed(c) PROVE TypeOK'
  BY <1>7 DEF AcceptedIsListed, Step, InsertIntoManager, flowMaps, objects, counts,
     metrics, TypeOK, Stage
<1>8. ASSUME NEW c \in Object, InsertFlow(c) PROVE TypeOK'
  BY <1>8 DEF InsertFlow, Step, flowMaps, objects, counts, metrics, TypeOK, Stage
<1>9. ASSUME NEW c \in Object, EraseFlow(c) PROVE TypeOK'
  BY <1>9 DEF EraseFlow, Step, flowMaps, objects, counts, metrics, TypeOK, Stage
<1>10. ASSUME NEW c \in Object, FlowCloses(c) PROVE TypeOK'
  BY <1>10 DEF FlowCloses, Step, CloseDescriptor, flowMaps, objects, counts, metrics,
     TypeOK, Stage
<1>11. ASSUME NEW c \in Object, Erase(c) PROVE TypeOK'
  BY <1>11 DEF Erase, Step, flowMaps, objects, counts, metrics, TypeOK, Stage
<1>12. ASSUME NEW c \in Object, DeleteListener(c) PROVE TypeOK'
  BY <1>12 DEF DeleteListener, Step, flowMaps, objects, counts, metrics, TypeOK, Stage
<1>13. ASSUME NEW c \in Object, Destroy(c) PROVE TypeOK'
  BY <1>13 DEF Destroy, Step, CloseDescriptor, flowMaps, objects, counts, metrics,
     TypeOK, Stage
<1>14. ASSUME NEW c \in Connection, Recv(c) PROVE TypeOK'
  BY <1>14 DEF Recv, flowMaps, objects, metrics, TypeOK, Stage
<1>15. CASE NextConnection
  BY <1>15 DEF NextConnection, Lost, flowMaps, objects, counts, TypeOK, Stage
<1>16. CASE LoadBytes
  BY <1>16 DEF LoadBytes, Lost, flowMaps, objects, counts, TypeOK, Stage
<1>17. CASE StoreBytes
  BY <1>17 DEF StoreBytes, Lost, flowMaps, objects, counts, TypeOK, Stage
<1>18. CASE FillLevels
  BY <1>18 DEF FillLevels, Lost, flowMaps, objects, counts, TypeOK, Stage
<1>19. CASE UNCHANGED vars
  BY <1>19 DEF vars, flowMaps, objects, counts, metrics, TypeOK, Stage
<1>20. QED
  BY <1>1, <1>2, <1>3, <1>4, <1>5, <1>5a, <1>6, <1>7, <1>8, <1>9, <1>10, <1>11, <1>12, <1>13,
     <1>14, <1>15, <1>16, <1>17, <1>18, <1>19 DEF Next, Construct, Destruct, Sample

(* Whatever leaves the stages in which the tables may name it takes its     *)
(* entry with it.                                                          *)
LEMMA DanglingStep ==
  ASSUME TypeOK, NoDangling, [Next]_vars
  PROVE  NoDangling'
<1> USE DescriptorsAssumption DEF Object, Connection, Nobody
<1>1. ASSUME NEW c \in Object, OpenSocket(c) PROVE NoDangling'
  <2>1. PICK f \in Fd : /\ table[f] = Nobody
                       /\ table' = [table EXCEPT ![f] = c]
                       /\ fd' = [fd EXCEPT ![c] = f]
                       /\ reused' = (reused \/ \E d \in Object :
                                        fd[d] = f /\ stage[d] \in {"ending", "unlisted"})
    BY <1>1 DEF OpenSocket, TakeDescriptor
  <2> QED
    BY <1>1, <2>1 DEF OpenSocket, Step, MayBegin, flowMaps, objects, counts, metrics,
       TypeOK, NoDangling
<1>2. ASSUME NEW c \in Object, SetSockOpt(c) PROVE NoDangling'
  BY <1>2 DEF SetSockOpt, Step, flowMaps, objects, counts, metrics, TypeOK, NoDangling
<1>3. ASSUME NEW c \in Object, List(c) PROVE NoDangling'
  BY <1>3 DEF List, Step, InsertIntoManager, flowMaps, objects, counts, metrics, TypeOK,
     NoDangling
<1>4. ASSUME NEW c \in Object, Connect(c) PROVE NoDangling'
  BY <1>4 DEF Connect, Step, flowMaps, objects, counts, metrics, TypeOK, NoDangling
<1>5. ASSUME NEW c \in Object, Bind(c) PROVE NoDangling'
  BY <1>5 DEF Bind, Step, flowMaps, objects, counts, metrics, TypeOK, NoDangling
<1>5a. ASSUME NEW c \in Object, Listen(c) PROVE NoDangling'
  BY <1>5a DEF Listen, Step, flowMaps, objects, counts, metrics, TypeOK, NoDangling
<1>6. ASSUME NEW c \in Object, Accept(c) PROVE NoDangling'
  <2>1. PICK f \in Fd : /\ table[f] = Nobody
                       /\ table' = [table EXCEPT ![f] = c]
                       /\ fd' = [fd EXCEPT ![c] = f]
                       /\ reused' = (reused \/ \E d \in Object :
                                        fd[d] = f /\ stage[d] \in {"ending", "unlisted"})
    BY <1>6 DEF Accept, TakeDescriptor
  <2> QED
    BY <1>6, <2>1 DEF Accept, Step, flowMaps, objects, counts, metrics, TypeOK, NoDangling
<1>7. ASSUME NEW c \in Object, AcceptedIsListed(c) PROVE NoDangling'
  BY <1>7 DEF AcceptedIsListed, Step, InsertIntoManager, flowMaps, objects, counts,
     metrics, TypeOK, NoDangling
<1>8. ASSUME NEW c \in Object, InsertFlow(c) PROVE NoDangling'
  BY <1>8 DEF InsertFlow, Step, flowMaps, objects, counts, metrics, TypeOK, NoDangling
<1>9. ASSUME NEW c \in Object, EraseFlow(c) PROVE NoDangling'
  BY <1>9 DEF EraseFlow, Step, flowMaps, objects, counts, metrics, TypeOK, NoDangling
<1>10. ASSUME NEW c \in Object, FlowCloses(c) PROVE NoDangling'
  BY <1>10 DEF FlowCloses, Step, CloseDescriptor, flowMaps, objects, counts, metrics,
     TypeOK, NoDangling
<1>11. ASSUME NEW c \in Object, Erase(c) PROVE NoDangling'
  BY <1>11 DEF Erase, Step, flowMaps, objects, counts, metrics, TypeOK, NoDangling
<1>12. ASSUME NEW c \in Object, DeleteListener(c) PROVE NoDangling'
  BY <1>12 DEF DeleteListener, Step, flowMaps, objects, counts, metrics, TypeOK,
     NoDangling
<1>13. ASSUME NEW c \in Object, Destroy(c) PROVE NoDangling'
  BY <1>13 DEF Destroy, Step, CloseDescriptor, flowMaps, objects, counts, metrics,
     TypeOK, NoDangling
<1>14. ASSUME NEW c \in Connection, Recv(c) PROVE NoDangling'
  BY <1>14 DEF Recv, flowMaps, objects, metrics, TypeOK, NoDangling
<1>15. CASE NextConnection
  BY <1>15 DEF NextConnection, Lost, flowMaps, objects, counts, TypeOK, NoDangling
<1>16. CASE LoadBytes
  BY <1>16 DEF LoadBytes, Lost, flowMaps, objects, counts, TypeOK, NoDangling
<1>17. CASE StoreBytes
  BY <1>17 DEF StoreBytes, Lost, flowMaps, objects, counts, TypeOK, NoDangling
<1>18. CASE FillLevels
  BY <1>18 DEF FillLevels, Lost, flowMaps, objects, counts, TypeOK, NoDangling
<1>19. CASE UNCHANGED vars
  BY <1>19 DEF vars, flowMaps, objects, counts, metrics, TypeOK, NoDangling
<1>20. QED
  BY <1>1, <1>2, <1>3, <1>4, <1>5, <1>5a, <1>6, <1>7, <1>8, <1>9, <1>10, <1>11, <1>12, <1>13,
     <1>14, <1>15, <1>16, <1>17, <1>18, <1>19 DEF Next, Construct, Destruct, Sample

(* A socket is closed before its object is gone.                           *)
LEMMA LeakStep ==
  ASSUME TypeOK, NoDescriptorLeak, [Next]_vars
  PROVE  NoDescriptorLeak'
<1> USE DescriptorsAssumption DEF Object, Connection, Nobody
<1>1. ASSUME NEW c \in Object, OpenSocket(c) PROVE NoDescriptorLeak'
  <2>1. PICK f \in Fd : /\ table[f] = Nobody
                       /\ table' = [table EXCEPT ![f] = c]
                       /\ fd' = [fd EXCEPT ![c] = f]
                       /\ reused' = (reused \/ \E d \in Object :
                                        fd[d] = f /\ stage[d] \in {"ending", "unlisted"})
    BY <1>1 DEF OpenSocket, TakeDescriptor
  <2> QED
    BY <1>1, <2>1 DEF OpenSocket, Step, MayBegin, flowMaps, objects, counts, metrics,
       TypeOK, NoDescriptorLeak
<1>2. ASSUME NEW c \in Object, SetSockOpt(c) PROVE NoDescriptorLeak'
  BY <1>2 DEF SetSockOpt, Step, flowMaps, objects, counts, metrics, TypeOK,
     NoDescriptorLeak
<1>3. ASSUME NEW c \in Object, List(c) PROVE NoDescriptorLeak'
  BY <1>3 DEF List, Step, InsertIntoManager, flowMaps, objects, counts, metrics, TypeOK,
     NoDescriptorLeak
<1>4. ASSUME NEW c \in Object, Connect(c) PROVE NoDescriptorLeak'
  BY <1>4 DEF Connect, Step, flowMaps, objects, counts, metrics, TypeOK, NoDescriptorLeak
<1>5. ASSUME NEW c \in Object, Bind(c) PROVE NoDescriptorLeak'
  BY <1>5 DEF Bind, Step, flowMaps, objects, counts, metrics, TypeOK,
     NoDescriptorLeak
<1>5a. ASSUME NEW c \in Object, Listen(c) PROVE NoDescriptorLeak'
  BY <1>5a DEF Listen, Step, flowMaps, objects, counts, metrics, TypeOK,
     NoDescriptorLeak
<1>6. ASSUME NEW c \in Object, Accept(c) PROVE NoDescriptorLeak'
  <2>1. PICK f \in Fd : /\ table[f] = Nobody
                       /\ table' = [table EXCEPT ![f] = c]
                       /\ fd' = [fd EXCEPT ![c] = f]
                       /\ reused' = (reused \/ \E d \in Object :
                                        fd[d] = f /\ stage[d] \in {"ending", "unlisted"})
    BY <1>6 DEF Accept, TakeDescriptor
  <2> QED
    BY <1>6, <2>1 DEF Accept, Step, flowMaps, objects, counts, metrics, TypeOK,
       NoDescriptorLeak
<1>7. ASSUME NEW c \in Object, AcceptedIsListed(c) PROVE NoDescriptorLeak'
  BY <1>7 DEF AcceptedIsListed, Step, InsertIntoManager, flowMaps, objects, counts,
     metrics, TypeOK, NoDescriptorLeak
<1>8. ASSUME NEW c \in Object, InsertFlow(c) PROVE NoDescriptorLeak'
  BY <1>8 DEF InsertFlow, Step, flowMaps, objects, counts, metrics, TypeOK,
     NoDescriptorLeak
<1>9. ASSUME NEW c \in Object, EraseFlow(c) PROVE NoDescriptorLeak'
  BY <1>9 DEF EraseFlow, Step, flowMaps, objects, counts, metrics, TypeOK,
     NoDescriptorLeak
<1>10. ASSUME NEW c \in Object, FlowCloses(c) PROVE NoDescriptorLeak'
  BY <1>10 DEF FlowCloses, Step, CloseDescriptor, flowMaps, objects, counts, metrics,
     TypeOK, NoDescriptorLeak
<1>11. ASSUME NEW c \in Object, Erase(c) PROVE NoDescriptorLeak'
  BY <1>11 DEF Erase, Step, flowMaps, objects, counts, metrics, TypeOK, NoDescriptorLeak
<1>12. ASSUME NEW c \in Object, DeleteListener(c) PROVE NoDescriptorLeak'
  BY <1>12 DEF DeleteListener, Step, flowMaps, objects, counts, metrics, TypeOK,
     NoDescriptorLeak
<1>13. ASSUME NEW c \in Object, Destroy(c) PROVE NoDescriptorLeak'
  BY <1>13 DEF Destroy, Step, CloseDescriptor, flowMaps, objects, counts, metrics,
     TypeOK, NoDescriptorLeak
<1>14. ASSUME NEW c \in Connection, Recv(c) PROVE NoDescriptorLeak'
  BY <1>14 DEF Recv, flowMaps, objects, metrics, TypeOK, NoDescriptorLeak
<1>15. CASE NextConnection
  BY <1>15 DEF NextConnection, Lost, flowMaps, objects, counts, TypeOK, NoDescriptorLeak
<1>16. CASE LoadBytes
  BY <1>16 DEF LoadBytes, Lost, flowMaps, objects, counts, TypeOK, NoDescriptorLeak
<1>17. CASE StoreBytes
  BY <1>17 DEF StoreBytes, Lost, flowMaps, objects, counts, TypeOK, NoDescriptorLeak
<1>18. CASE FillLevels
  BY <1>18 DEF FillLevels, Lost, flowMaps, objects, counts, TypeOK, NoDescriptorLeak
<1>19. CASE UNCHANGED vars
  BY <1>19 DEF vars, flowMaps, objects, counts, metrics, TypeOK, NoDescriptorLeak
<1>20. QED
  BY <1>1, <1>2, <1>3, <1>4, <1>5, <1>5a, <1>6, <1>7, <1>8, <1>9, <1>10, <1>11, <1>12, <1>13,
     <1>14, <1>15, <1>16, <1>17, <1>18, <1>19 DEF Next, Construct, Destruct, Sample

(* The first flow finds all links open, and no link begins after it.       *)
LEMMA FlowsStep ==
  ASSUME TypeOK, FlowsComeLater, [Next]_vars
  PROVE  FlowsComeLater'
<1> USE DescriptorsAssumption DEF Object, Connection, Nobody
<1>1. ASSUME NEW c \in Object, OpenSocket(c) PROVE FlowsComeLater'
  <2>1. PICK f \in Fd : /\ table[f] = Nobody
                       /\ table' = [table EXCEPT ![f] = c]
                       /\ fd' = [fd EXCEPT ![c] = f]
                       /\ reused' = (reused \/ \E d \in Object :
                                        fd[d] = f /\ stage[d] \in {"ending", "unlisted"})
    BY <1>1 DEF OpenSocket, TakeDescriptor
  <2> QED
    BY <1>1, <2>1 DEF OpenSocket, Step, MayBegin, flowMaps, objects, counts, metrics,
       TypeOK, FlowsComeLater
<1>2. ASSUME NEW c \in Object, SetSockOpt(c) PROVE FlowsComeLater'
  BY <1>2 DEF SetSockOpt, Step, flowMaps, objects, counts, metrics, TypeOK, FlowsComeLater
<1>3. ASSUME NEW c \in Object, List(c) PROVE FlowsComeLater'
  BY <1>3 DEF List, Step, InsertIntoManager, flowMaps, objects, counts, metrics, TypeOK,
     FlowsComeLater
<1>4. ASSUME NEW c \in Object, Connect(c) PROVE FlowsComeLater'
  BY <1>4 DEF Connect, Step, flowMaps, objects, counts, metrics, TypeOK, FlowsComeLater
<1>5. ASSUME NEW c \in Object, Bind(c) PROVE FlowsComeLater'
  BY <1>5 DEF Bind, Step, flowMaps, objects, counts, metrics, TypeOK,
     FlowsComeLater
<1>5a. ASSUME NEW c \in Object, Listen(c) PROVE FlowsComeLater'
  BY <1>5a DEF Listen, Step, flowMaps, objects, counts, metrics, TypeOK,
     FlowsComeLater
<1>6. ASSUME NEW c \in Object, Accept(c) PROVE FlowsComeLater'
  <2>1. PICK f \in Fd : /\ table[f] = Nobody
                       /\ table' = [table EXCEPT ![f] = c]
                       /\ fd' = [fd EXCEPT ![c] = f]
                       /\ reused' = (reused \/ \E d \in Object :
                                        fd[d] = f /\ stage[d] \in {"ending", "unlisted"})
    BY <1>6 DEF Accept, TakeDescriptor
  <2> QED
    BY <1>6, <2>1 DEF Accept, Step, flowMaps, objects, counts, metrics, TypeOK,
       FlowsComeLater
<1>7. ASSUME NEW c \in Object, AcceptedIsListed(c) PROVE FlowsComeLater'
  BY <1>7 DEF AcceptedIsListed, Step, InsertIntoManager, flowMaps, objects, counts,
     metrics, TypeOK, FlowsComeLater
<1>8. ASSUME NEW c \in Object, InsertFlow(c) PROVE FlowsComeLater'
  BY <1>8 DEF InsertFlow, Step, flowMaps, objects, counts, metrics, TypeOK, FlowsComeLater
<1>9. ASSUME NEW c \in Object, EraseFlow(c) PROVE FlowsComeLater'
  BY <1>9 DEF EraseFlow, Step, flowMaps, objects, counts, metrics, TypeOK, FlowsComeLater
<1>10. ASSUME NEW c \in Object, FlowCloses(c) PROVE FlowsComeLater'
  BY <1>10 DEF FlowCloses, Step, CloseDescriptor, flowMaps, objects, counts, metrics,
     TypeOK, FlowsComeLater
<1>11. ASSUME NEW c \in Object, Erase(c) PROVE FlowsComeLater'
  BY <1>11 DEF Erase, Step, flowMaps, objects, counts, metrics, TypeOK, FlowsComeLater
<1>12. ASSUME NEW c \in Object, DeleteListener(c) PROVE FlowsComeLater'
  BY <1>12 DEF DeleteListener, Step, flowMaps, objects, counts, metrics, TypeOK,
     FlowsComeLater
<1>13. ASSUME NEW c \in Object, Destroy(c) PROVE FlowsComeLater'
  BY <1>13 DEF Destroy, Step, CloseDescriptor, flowMaps, objects, counts, metrics,
     TypeOK, FlowsComeLater
<1>14. ASSUME NEW c \in Connection, Recv(c) PROVE FlowsComeLater'
  BY <1>14 DEF Recv, flowMaps, objects, metrics, TypeOK, FlowsComeLater
<1>15. CASE NextConnection
  BY <1>15 DEF NextConnection, Lost, flowMaps, objects, counts, TypeOK, FlowsComeLater
<1>16. CASE LoadBytes
  BY <1>16 DEF LoadBytes, Lost, flowMaps, objects, counts, TypeOK, FlowsComeLater
<1>17. CASE StoreBytes
  BY <1>17 DEF StoreBytes, Lost, flowMaps, objects, counts, TypeOK, FlowsComeLater
<1>18. CASE FillLevels
  BY <1>18 DEF FillLevels, Lost, flowMaps, objects, counts, TypeOK, FlowsComeLater
<1>19. CASE UNCHANGED vars
  BY <1>19 DEF vars, flowMaps, objects, counts, metrics, TypeOK, FlowsComeLater
<1>20. QED
  BY <1>1, <1>2, <1>3, <1>4, <1>5, <1>5a, <1>6, <1>7, <1>8, <1>9, <1>10, <1>11, <1>12, <1>13,
     <1>14, <1>15, <1>16, <1>17, <1>18, <1>19 DEF Next, Construct, Destruct, Sample

(* Links and listeners have different numbers and close their own only.    *)
LEMMA ListenersStep ==
  ASSUME TypeOK, FlowsComeLater, LinksHoldNumbers, ListenersUndisturbed, [Next]_vars
  PROVE  ListenersUndisturbed'
<1> USE DescriptorsAssumption DEF Object, Connection, Nobody
<1>1. ASSUME NEW c \in Object, OpenSocket(c) PROVE ListenersUndisturbed'
  <2>1. PICK f \in Fd : /\ table[f] = Nobody
                       /\ table' = [table EXCEPT ![f] = c]
                       /\ fd' = [fd EXCEPT ![c] = f]
                       /\ reused' = (reused \/ \E d \in Object :
                                        fd[d] = f /\ stage[d] \in {"ending", "unlisted"})
    BY <1>1 DEF OpenSocket, TakeDescriptor
  <2> QED
    BY <1>1, <2>1 DEF OpenSocket, Step, MayBegin, flowMaps, objects, counts, metrics,
       TypeOK, FlowsComeLater, LinksHoldNumbers, ListenersUndisturbed, Alive
<1>2. ASSUME NEW c \in Object, SetSockOpt(c) PROVE ListenersUndisturbed'
  BY <1>2 DEF SetSockOpt, Step, flowMaps, objects, counts, metrics, TypeOK,
     FlowsComeLater, LinksHoldNumbers, ListenersUndisturbed, Alive
<1>3. ASSUME NEW c \in Object, List(c) PROVE ListenersUndisturbed'
  BY <1>3 DEF List, Step, InsertIntoManager, flowMaps, objects, counts, metrics, TypeOK,
     FlowsComeLater, LinksHoldNumbers, ListenersUndisturbed, Alive
<1>4. ASSUME NEW c \in Object, Connect(c) PROVE ListenersUndisturbed'
  BY <1>4 DEF Connect, Step, flowMaps, objects, counts, metrics, TypeOK, FlowsComeLater,
     LinksHoldNumbers, ListenersUndisturbed, Alive
<1>5. ASSUME NEW c \in Object, Bind(c) PROVE ListenersUndisturbed'
  BY <1>5 DEF Bind, Step, flowMaps, objects, counts, metrics, TypeOK,
     FlowsComeLater, LinksHoldNumbers, ListenersUndisturbed, Alive
<1>5a. ASSUME NEW c \in Object, Listen(c) PROVE ListenersUndisturbed'
  BY <1>5a DEF Listen, Step, flowMaps, objects, counts, metrics, TypeOK,
     FlowsComeLater, LinksHoldNumbers, ListenersUndisturbed, Alive
<1>6. ASSUME NEW c \in Object, Accept(c) PROVE ListenersUndisturbed'
  <2>1. PICK f \in Fd : /\ table[f] = Nobody
                       /\ table' = [table EXCEPT ![f] = c]
                       /\ fd' = [fd EXCEPT ![c] = f]
                       /\ reused' = (reused \/ \E d \in Object :
                                        fd[d] = f /\ stage[d] \in {"ending", "unlisted"})
    BY <1>6 DEF Accept, TakeDescriptor
  <2> QED
    BY <1>6, <2>1 DEF Accept, Step, flowMaps, objects, counts, metrics, TypeOK,
       FlowsComeLater, LinksHoldNumbers, ListenersUndisturbed, Alive
<1>7. ASSUME NEW c \in Object, AcceptedIsListed(c) PROVE ListenersUndisturbed'
  BY <1>7 DEF AcceptedIsListed, Step, InsertIntoManager, flowMaps, objects, counts,
     metrics, TypeOK, FlowsComeLater, LinksHoldNumbers, ListenersUndisturbed, Alive
<1>8. ASSUME NEW c \in Object, InsertFlow(c) PROVE ListenersUndisturbed'
  BY <1>8 DEF InsertFlow, Step, flowMaps, objects, counts, metrics, TypeOK,
     FlowsComeLater, LinksHoldNumbers, ListenersUndisturbed, Alive
<1>9. ASSUME NEW c \in Object, EraseFlow(c) PROVE ListenersUndisturbed'
  BY <1>9 DEF EraseFlow, Step, flowMaps, objects, counts, metrics, TypeOK,
     FlowsComeLater, LinksHoldNumbers, ListenersUndisturbed, Alive
<1>10. ASSUME NEW c \in Object, FlowCloses(c) PROVE ListenersUndisturbed'
  BY <1>10 DEF FlowCloses, Step, CloseDescriptor, flowMaps, objects, counts, metrics,
     TypeOK, FlowsComeLater, LinksHoldNumbers, ListenersUndisturbed, Alive
<1>11. ASSUME NEW c \in Object, Erase(c) PROVE ListenersUndisturbed'
  BY <1>11 DEF Erase, Step, flowMaps, objects, counts, metrics, TypeOK, FlowsComeLater,
     LinksHoldNumbers, ListenersUndisturbed, Alive
<1>12. ASSUME NEW c \in Object, DeleteListener(c) PROVE ListenersUndisturbed'
  BY <1>12 DEF DeleteListener, Step, flowMaps, objects, counts, metrics, TypeOK,
     FlowsComeLater, LinksHoldNumbers, ListenersUndisturbed, Alive
<1>13. ASSUME NEW c \in Object, Destroy(c) PROVE ListenersUndisturbed'
  BY <1>13 DEF Destroy, Step, CloseDescriptor, flowMaps, objects, counts, metrics,
     TypeOK, FlowsComeLater, LinksHoldNumbers, ListenersUndisturbed, Alive
<1>14. ASSUME NEW c \in Connection, Recv(c) PROVE ListenersUndisturbed'
  BY <1>14 DEF Recv, flowMaps, objects, metrics, TypeOK, FlowsComeLater,
     LinksHoldNumbers, ListenersUndisturbed, Alive
<1>15. CASE NextConnection
  BY <1>15 DEF NextConnection, Lost, flowMaps, objects, counts, TypeOK, FlowsComeLater,
     LinksHoldNumbers, ListenersUndisturbed, Alive
<1>16. CASE LoadBytes
  BY <1>16 DEF LoadBytes, Lost, flowMaps, objects, counts, TypeOK, FlowsComeLater,
     LinksHoldNumbers, ListenersUndisturbed, Alive
<1>17. CASE StoreBytes
  BY <1>17 DEF StoreBytes, Lost, flowMaps, objects, counts, TypeOK, FlowsComeLater,
     LinksHoldNumbers, ListenersUndisturbed, Alive
<1>18. CASE FillLevels
  BY <1>18 DEF FillLevels, Lost, flowMaps, objects, counts, TypeOK, FlowsComeLater,
     LinksHoldNumbers, ListenersUndisturbed, Alive
<1>19. CASE UNCHANGED vars
  BY <1>19 DEF vars, flowMaps, objects, counts, metrics, TypeOK, FlowsComeLater,
     LinksHoldNumbers, ListenersUndisturbed, Alive
<1>20. QED
  BY <1>1, <1>2, <1>3, <1>4, <1>5, <1>5a, <1>6, <1>7, <1>8, <1>9, <1>10, <1>11, <1>12, <1>13,
     <1>14, <1>15, <1>16, <1>17, <1>18, <1>19 DEF Next, Construct, Destruct, Sample

(* A link takes its number when nobody can hold one that is free, and then *)
(* keeps it out of everybody's reach.                                      *)
LEMMA LinksStep ==
  ASSUME TypeOK, FlowsComeLater, ListenersUndisturbed, LinksHoldNumbers, [Next]_vars
  PROVE  LinksHoldNumbers'
<1> USE DescriptorsAssumption DEF Object, Connection, Nobody
<1>1. ASSUME NEW c \in Object, OpenSocket(c) PROVE LinksHoldNumbers'
  <2>1. PICK f \in Fd : /\ table[f] = Nobody
                       /\ table' = [table EXCEPT ![f] = c]
                       /\ fd' = [fd EXCEPT ![c] = f]
                       /\ reused' = (reused \/ \E d \in Object :
                                        fd[d] = f /\ stage[d] \in {"ending", "unlisted"})
    BY <1>1 DEF OpenSocket, TakeDescriptor
  <2> QED
    BY <1>1, <2>1 DEF OpenSocket, Step, MayBegin, flowMaps, objects, counts, metrics,
       TypeOK, FlowsComeLater, LinksHoldNumbers, ListenersUndisturbed, Alive
<1>2. ASSUME NEW c \in Object, SetSockOpt(c) PROVE LinksHoldNumbers'
  BY <1>2 DEF SetSockOpt, Step, flowMaps, objects, counts, metrics, TypeOK,
     FlowsComeLater, LinksHoldNumbers, ListenersUndisturbed, Alive
<1>3. ASSUME NEW c \in Object, List(c) PROVE LinksHoldNumbers'
  BY <1>3 DEF List, Step, InsertIntoManager, flowMaps, objects, counts, metrics, TypeOK,
     FlowsComeLater, LinksHoldNumbers, ListenersUndisturbed, Alive
<1>4. ASSUME NEW c \in Object, Connect(c) PROVE LinksHoldNumbers'
  BY <1>4 DEF Connect, Step, flowMaps, objects, counts, metrics, TypeOK, FlowsComeLater,
     LinksHoldNumbers, ListenersUndisturbed, Alive
<1>5. ASSUME NEW c \in Object, Bind(c) PROVE LinksHoldNumbers'
  BY <1>5 DEF Bind, Step, flowMaps, objects, counts, metrics, TypeOK,
     FlowsComeLater, LinksHoldNumbers, ListenersUndisturbed, Alive
<1>5a. ASSUME NEW c \in Object, Listen(c) PROVE LinksHoldNumbers'
  BY <1>5a DEF Listen, Step, flowMaps, objects, counts, metrics, TypeOK,
     FlowsComeLater, LinksHoldNumbers, ListenersUndisturbed, Alive
<1>6. ASSUME NEW c \in Object, Accept(c) PROVE LinksHoldNumbers'
  <2>1. PICK f \in Fd : /\ table[f] = Nobody
                       /\ table' = [table EXCEPT ![f] = c]
                       /\ fd' = [fd EXCEPT ![c] = f]
                       /\ reused' = (reused \/ \E d \in Object :
                                        fd[d] = f /\ stage[d] \in {"ending", "unlisted"})
    BY <1>6 DEF Accept, TakeDescriptor
  <2> QED
    BY <1>6, <2>1 DEF Accept, Step, flowMaps, objects, counts, metrics, TypeOK,
       FlowsComeLater, LinksHoldNumbers, ListenersUndisturbed, Alive
<1>7. ASSUME NEW c \in Object, AcceptedIsListed(c) PROVE LinksHoldNumbers'
  BY <1>7 DEF AcceptedIsListed, Step, InsertIntoManager, flowMaps, objects, counts,
     metrics, TypeOK, FlowsComeLater, LinksHoldNumbers, ListenersUndisturbed, Alive
<1>8. ASSUME NEW c \in Object, InsertFlow(c) PROVE LinksHoldNumbers'
  BY <1>8 DEF InsertFlow, Step, flowMaps, objects, counts, metrics, TypeOK,
     FlowsComeLater, LinksHoldNumbers, ListenersUndisturbed, Alive
<1>9. ASSUME NEW c \in Object, EraseFlow(c) PROVE LinksHoldNumbers'
  BY <1>9 DEF EraseFlow, Step, flowMaps, objects, counts, metrics, TypeOK,
     FlowsComeLater, LinksHoldNumbers, ListenersUndisturbed, Alive
<1>10. ASSUME NEW c \in Object, FlowCloses(c) PROVE LinksHoldNumbers'
  BY <1>10 DEF FlowCloses, Step, CloseDescriptor, flowMaps, objects, counts, metrics,
     TypeOK, FlowsComeLater, LinksHoldNumbers, ListenersUndisturbed, Alive
<1>11. ASSUME NEW c \in Object, Erase(c) PROVE LinksHoldNumbers'
  BY <1>11 DEF Erase, Step, flowMaps, objects, counts, metrics, TypeOK, FlowsComeLater,
     LinksHoldNumbers, ListenersUndisturbed, Alive
<1>12. ASSUME NEW c \in Object, DeleteListener(c) PROVE LinksHoldNumbers'
  BY <1>12 DEF DeleteListener, Step, flowMaps, objects, counts, metrics, TypeOK,
     FlowsComeLater, LinksHoldNumbers, ListenersUndisturbed, Alive
<1>13. ASSUME NEW c \in Object, Destroy(c) PROVE LinksHoldNumbers'
  BY <1>13 DEF Destroy, Step, CloseDescriptor, flowMaps, objects, counts, metrics,
     TypeOK, FlowsComeLater, LinksHoldNumbers, ListenersUndisturbed, Alive
<1>14. ASSUME NEW c \in Connection, Recv(c) PROVE LinksHoldNumbers'
  BY <1>14 DEF Recv, flowMaps, objects, metrics, TypeOK, FlowsComeLater,
     LinksHoldNumbers, ListenersUndisturbed, Alive
<1>15. CASE NextConnection
  BY <1>15 DEF NextConnection, Lost, flowMaps, objects, counts, TypeOK, FlowsComeLater,
     LinksHoldNumbers, ListenersUndisturbed, Alive
<1>16. CASE LoadBytes
  BY <1>16 DEF LoadBytes, Lost, flowMaps, objects, counts, TypeOK, FlowsComeLater,
     LinksHoldNumbers, ListenersUndisturbed, Alive
<1>17. CASE StoreBytes
  BY <1>17 DEF StoreBytes, Lost, flowMaps, objects, counts, TypeOK, FlowsComeLater,
     LinksHoldNumbers, ListenersUndisturbed, Alive
<1>18. CASE FillLevels
  BY <1>18 DEF FillLevels, Lost, flowMaps, objects, counts, TypeOK, FlowsComeLater,
     LinksHoldNumbers, ListenersUndisturbed, Alive
<1>19. CASE UNCHANGED vars
  BY <1>19 DEF vars, flowMaps, objects, counts, metrics, TypeOK, FlowsComeLater,
     LinksHoldNumbers, ListenersUndisturbed, Alive
<1>20. QED
  BY <1>1, <1>2, <1>3, <1>4, <1>5, <1>5a, <1>6, <1>7, <1>8, <1>9, <1>10, <1>11, <1>12, <1>13,
     <1>14, <1>15, <1>16, <1>17, <1>18, <1>19 DEF Next, Construct, Destruct, Sample

(* No entry is there when a link is inserted, and only the link erases it. *)
LEMMA LinksListedStep ==
  ASSUME TypeOK, NoDangling, LinksHoldNumbers, LinksAreListed, [Next]_vars
  PROVE  LinksAreListed'
<1> USE DescriptorsAssumption DEF Object, Connection, Nobody
<1>1. ASSUME NEW c \in Object, OpenSocket(c) PROVE LinksAreListed'
  <2>1. PICK f \in Fd : /\ table[f] = Nobody
                       /\ table' = [table EXCEPT ![f] = c]
                       /\ fd' = [fd EXCEPT ![c] = f]
                       /\ reused' = (reused \/ \E d \in Object :
                                        fd[d] = f /\ stage[d] \in {"ending", "unlisted"})
    BY <1>1 DEF OpenSocket, TakeDescriptor
  <2> QED
    BY <1>1, <2>1 DEF OpenSocket, Step, MayBegin, flowMaps, objects, counts, metrics,
       TypeOK, NoDangling, LinksHoldNumbers, LinksAreListed, Alive
<1>2. ASSUME NEW c \in Object, SetSockOpt(c) PROVE LinksAreListed'
  BY <1>2 DEF SetSockOpt, Step, flowMaps, objects, counts, metrics, TypeOK, NoDangling,
     LinksHoldNumbers, LinksAreListed, Alive
<1>3. ASSUME NEW c \in Object, List(c) PROVE LinksAreListed'
  <2>1. stage[c] = "optioned" /\ fd[c] \in Fd /\ c \in Object
    BY <1>3 DEF List, Step, TypeOK
  <2>2. ASSUME c \in Link, manager[fd[c]] # Nobody PROVE FALSE
    <3>1. PICK d \in Connection : d = manager[fd[c]]
      BY <2>1, <2>2 DEF TypeOK
    <3>2. fd[d] = fd[c] /\ stage[d] \in {"listed", "open", "running", "erased", "ending"}
      BY <2>1, <2>2, <3>1 DEF NoDangling
    <3> QED
      BY <2>1, <2>2, <3>1, <3>2 DEF LinksHoldNumbers, Alive
  <2> QED
    BY <1>3, <2>1, <2>2 DEF List, Step, InsertIntoManager, flowMaps, objects, counts,
       metrics, TypeOK, NoDangling, LinksHoldNumbers, LinksAreListed, Alive
<1>4. ASSUME NEW c \in Object, Connect(c) PROVE LinksAreListed'
  BY <1>4 DEF Connect, Step, flowMaps, objects, counts, metrics, TypeOK, NoDangling,
     LinksHoldNumbers, LinksAreListed, Alive
<1>5. ASSUME NEW c \in Object, Bind(c) PROVE LinksAreListed'
  BY <1>5 DEF Bind, Step, flowMaps, objects, counts, metrics, TypeOK,
     NoDangling, LinksHoldNumbers, LinksAreListed, Alive
<1>5a. ASSUME NEW c \in Object, Listen(c) PROVE LinksAreListed'
  BY <1>5a DEF Listen, Step, flowMaps, objects, counts, metrics, TypeOK,
     NoDangling, LinksHoldNumbers, LinksAreListed, Alive
<1>6. ASSUME NEW c \in Object, Accept(c) PROVE LinksAreListed'
  <2>1. PICK f \in Fd : /\ table[f] = Nobody
                       /\ table' = [table EXCEPT ![f] = c]
                       /\ fd' = [fd EXCEPT ![c] = f]
                       /\ reused' = (reused \/ \E d \in Object :
                                        fd[d] = f /\ stage[d] \in {"ending", "unlisted"})
    BY <1>6 DEF Accept, TakeDescriptor
  <2> QED
    BY <1>6, <2>1 DEF Accept, Step, flowMaps, objects, counts, metrics, TypeOK,
       NoDangling, LinksHoldNumbers, LinksAreListed, Alive
<1>7. ASSUME NEW c \in Object, AcceptedIsListed(c) PROVE LinksAreListed'
  <2>1. stage[c] = "accepted" /\ fd[c] \in Fd /\ c \in Object
    BY <1>7 DEF AcceptedIsListed, Step, TypeOK
  <2>2. ASSUME c \in Link, manager[fd[c]] # Nobody PROVE FALSE
    <3>1. PICK d \in Connection : d = manager[fd[c]]
      BY <2>1, <2>2 DEF TypeOK
    <3>2. fd[d] = fd[c] /\ stage[d] \in {"listed", "open", "running", "erased", "ending"}
      BY <2>1, <2>2, <3>1 DEF NoDangling
    <3> QED
      BY <2>1, <2>2, <3>1, <3>2 DEF LinksHoldNumbers, Alive
  <2> QED
    BY <1>7, <2>1, <2>2 DEF AcceptedIsListed, Step, InsertIntoManager, flowMaps,
       objects, counts, metrics, TypeOK, NoDangling, LinksHoldNumbers, LinksAreListed,
       Alive
<1>8. ASSUME NEW c \in Object, InsertFlow(c) PROVE LinksAreListed'
  BY <1>8 DEF InsertFlow, Step, flowMaps, objects, counts, metrics, TypeOK, NoDangling,
     LinksHoldNumbers, LinksAreListed, Alive
<1>9. ASSUME NEW c \in Object, EraseFlow(c) PROVE LinksAreListed'
  BY <1>9 DEF EraseFlow, Step, flowMaps, objects, counts, metrics, TypeOK, NoDangling,
     LinksHoldNumbers, LinksAreListed, Alive
<1>10. ASSUME NEW c \in Object, FlowCloses(c) PROVE LinksAreListed'
  BY <1>10 DEF FlowCloses, Step, CloseDescriptor, flowMaps, objects, counts, metrics,
     TypeOK, NoDangling, LinksHoldNumbers, LinksAreListed, Alive
<1>11. ASSUME NEW c \in Object, Erase(c) PROVE LinksAreListed'
  BY <1>11 DEF Erase, Step, flowMaps, objects, counts, metrics, TypeOK, NoDangling,
     LinksHoldNumbers, LinksAreListed, Alive
<1>12. ASSUME NEW c \in Object, DeleteListener(c) PROVE LinksAreListed'
  BY <1>12 DEF DeleteListener, Step, flowMaps, objects, counts, metrics, TypeOK,
     NoDangling, LinksHoldNumbers, LinksAreListed, Alive
<1>13. ASSUME NEW c \in Object, Destroy(c) PROVE LinksAreListed'
  BY <1>13 DEF Destroy, Step, CloseDescriptor, flowMaps, objects, counts, metrics,
     TypeOK, NoDangling, LinksHoldNumbers, LinksAreListed, Alive
<1>14. ASSUME NEW c \in Connection, Recv(c) PROVE LinksAreListed'
  BY <1>14 DEF Recv, flowMaps, objects, metrics, TypeOK, NoDangling, LinksHoldNumbers,
     LinksAreListed, Alive
<1>15. CASE NextConnection
  BY <1>15 DEF NextConnection, Lost, flowMaps, objects, counts, TypeOK, NoDangling,
     LinksHoldNumbers, LinksAreListed, Alive
<1>16. CASE LoadBytes
  BY <1>16 DEF LoadBytes, Lost, flowMaps, objects, counts, TypeOK, NoDangling,
     LinksHoldNumbers, LinksAreListed, Alive
<1>17. CASE StoreBytes
  BY <1>17 DEF StoreBytes, Lost, flowMaps, objects, counts, TypeOK, NoDangling,
     LinksHoldNumbers, LinksAreListed, Alive
<1>18. CASE FillLevels
  BY <1>18 DEF FillLevels, Lost, flowMaps, objects, counts, TypeOK, NoDangling,
     LinksHoldNumbers, LinksAreListed, Alive
<1>19. CASE UNCHANGED vars
  BY <1>19 DEF vars, flowMaps, objects, counts, metrics, TypeOK, NoDangling,
     LinksHoldNumbers, LinksAreListed, Alive
<1>20. QED
  BY <1>1, <1>2, <1>3, <1>4, <1>5, <1>5a, <1>6, <1>7, <1>8, <1>9, <1>10, <1>11, <1>12, <1>13,
     <1>14, <1>15, <1>16, <1>17, <1>18, <1>19 DEF Next, Construct, Destruct, Sample

(* A free number is held by nobody, or reused says so.                     *)
LEMMA DifferStep ==
  ASSUME TypeOK, NumbersHeld, NumbersDiffer, [Next]_vars
  PROVE  NumbersDiffer'
<1> USE DescriptorsAssumption DEF Object, Connection, Nobody
<1>1. ASSUME NEW c \in Object, OpenSocket(c) PROVE NumbersDiffer'
  <2>1. PICK f \in Fd : /\ table[f] = Nobody
                       /\ table' = [table EXCEPT ![f] = c]
                       /\ fd' = [fd EXCEPT ![c] = f]
                       /\ reused' = (reused \/ \E d \in Object :
                                        fd[d] = f /\ stage[d] \in {"ending", "unlisted"})
    BY <1>1 DEF OpenSocket, TakeDescriptor
  <2>2. \A d \in Object : Alive(d) /\ ~reused' => fd[d] # f
    BY <2>1 DEF NumbersHeld, Alive
  <2> QED
    BY <1>1, <2>1, <2>2 DEF OpenSocket, Step, MayBegin, flowMaps, objects, counts,
       metrics, TypeOK, NumbersHeld, NumbersDiffer, Alive
<1>2. ASSUME NEW c \in Object, SetSockOpt(c) PROVE NumbersDiffer'
  BY <1>2 DEF SetSockOpt, Step, flowMaps, objects, counts, metrics, TypeOK, NumbersHeld,
     NumbersDiffer, Alive
<1>3. ASSUME NEW c \in Object, List(c) PROVE NumbersDiffer'
  BY <1>3 DEF List, Step, InsertIntoManager, flowMaps, objects, counts, metrics, TypeOK,
     NumbersHeld, NumbersDiffer, Alive
<1>4. ASSUME NEW c \in Object, Connect(c) PROVE NumbersDiffer'
  BY <1>4 DEF Connect, Step, flowMaps, objects, counts, metrics, TypeOK, NumbersHeld,
     NumbersDiffer, Alive
<1>5. ASSUME NEW c \in Object, Bind(c) PROVE NumbersDiffer'
  BY <1>5 DEF Bind, Step, flowMaps, objects, counts, metrics, TypeOK,
     NumbersHeld, NumbersDiffer, Alive
<1>5a. ASSUME NEW c \in Object, Listen(c) PROVE NumbersDiffer'
  BY <1>5a DEF Listen, Step, flowMaps, objects, counts, metrics, TypeOK,
     NumbersHeld, NumbersDiffer, Alive
<1>6. ASSUME NEW c \in Object, Accept(c) PROVE NumbersDiffer'
  <2>1. PICK f \in Fd : /\ table[f] = Nobody
                       /\ table' = [table EXCEPT ![f] = c]
                       /\ fd' = [fd EXCEPT ![c] = f]
                       /\ reused' = (reused \/ \E d \in Object :
                                        fd[d] = f /\ stage[d] \in {"ending", "unlisted"})
    BY <1>6 DEF Accept, TakeDescriptor
  <2>2. \A d \in Object : Alive(d) /\ ~reused' => fd[d] # f
    BY <2>1 DEF NumbersHeld, Alive
  <2> QED
    BY <1>6, <2>1, <2>2 DEF Accept, Step, flowMaps, objects, counts, metrics, TypeOK,
       NumbersHeld, NumbersDiffer, Alive
<1>7. ASSUME NEW c \in Object, AcceptedIsListed(c) PROVE NumbersDiffer'
  BY <1>7 DEF AcceptedIsListed, Step, InsertIntoManager, flowMaps, objects, counts,
     metrics, TypeOK, NumbersHeld, NumbersDiffer, Alive
<1>8. ASSUME NEW c \in Object, InsertFlow(c) PROVE NumbersDiffer'
  BY <1>8 DEF InsertFlow, Step, flowMaps, objects, counts, metrics, TypeOK, NumbersHeld,
     NumbersDiffer, Alive
<1>9. ASSUME NEW c \in Object, EraseFlow(c) PROVE NumbersDiffer'
  BY <1>9 DEF EraseFlow, Step, flowMaps, objects, counts, metrics, TypeOK, NumbersHeld,
     NumbersDiffer, Alive
<1>10. ASSUME NEW c \in Object, FlowCloses(c) PROVE NumbersDiffer'
  BY <1>10 DEF FlowCloses, Step, CloseDescriptor, flowMaps, objects, counts, metrics,
     TypeOK, NumbersHeld, NumbersDiffer, Alive
<1>11. ASSUME NEW c \in Object, Erase(c) PROVE NumbersDiffer'
  BY <1>11 DEF Erase, Step, flowMaps, objects, counts, metrics, TypeOK, NumbersHeld,
     NumbersDiffer, Alive
<1>12. ASSUME NEW c \in Object, DeleteListener(c) PROVE NumbersDiffer'
  BY <1>12 DEF DeleteListener, Step, flowMaps, objects, counts, metrics, TypeOK,
     NumbersHeld, NumbersDiffer, Alive
<1>13. ASSUME NEW c \in Object, Destroy(c) PROVE NumbersDiffer'
  BY <1>13 DEF Destroy, Step, CloseDescriptor, flowMaps, objects, counts, metrics,
     TypeOK, NumbersHeld, NumbersDiffer, Alive
<1>14. ASSUME NEW c \in Connection, Recv(c) PROVE NumbersDiffer'
  BY <1>14 DEF Recv, flowMaps, objects, metrics, TypeOK, NumbersHeld, NumbersDiffer, Alive
<1>15. CASE NextConnection
  BY <1>15 DEF NextConnection, Lost, flowMaps, objects, counts, TypeOK, NumbersHeld,
     NumbersDiffer, Alive
<1>16. CASE LoadBytes
  BY <1>16 DEF LoadBytes, Lost, flowMaps, objects, counts, TypeOK, NumbersHeld,
     NumbersDiffer, Alive
<1>17. CASE StoreBytes
  BY <1>17 DEF StoreBytes, Lost, flowMaps, objects, counts, TypeOK, NumbersHeld,
     NumbersDiffer, Alive
<1>18. CASE FillLevels
  BY <1>18 DEF FillLevels, Lost, flowMaps, objects, counts, TypeOK, NumbersHeld,
     NumbersDiffer, Alive
<1>19. CASE UNCHANGED vars
  BY <1>19 DEF vars, flowMaps, objects, counts, metrics, TypeOK, NumbersHeld,
     NumbersDiffer, Alive
<1>20. QED
  BY <1>1, <1>2, <1>3, <1>4, <1>5, <1>5a, <1>6, <1>7, <1>8, <1>9, <1>10, <1>11, <1>12, <1>13,
     <1>14, <1>15, <1>16, <1>17, <1>18, <1>19 DEF Next, Construct, Destruct, Sample

(* With different numbers nobody closes the descriptor of another.         *)
LEMMA HeldStep ==
  ASSUME TypeOK, NumbersDiffer, NumbersHeld, [Next]_vars
  PROVE  NumbersHeld'
<1> USE DescriptorsAssumption DEF Object, Connection, Nobody
<1>1. ASSUME NEW c \in Object, OpenSocket(c) PROVE NumbersHeld'
  <2>1. PICK f \in Fd : /\ table[f] = Nobody
                       /\ table' = [table EXCEPT ![f] = c]
                       /\ fd' = [fd EXCEPT ![c] = f]
                       /\ reused' = (reused \/ \E d \in Object :
                                        fd[d] = f /\ stage[d] \in {"ending", "unlisted"})
    BY <1>1 DEF OpenSocket, TakeDescriptor
  <2> QED
    BY <1>1, <2>1 DEF OpenSocket, Step, MayBegin, flowMaps, objects, counts, metrics,
       TypeOK, NumbersHeld, NumbersDiffer, Alive
<1>2. ASSUME NEW c \in Object, SetSockOpt(c) PROVE NumbersHeld'
  BY <1>2 DEF SetSockOpt, Step, flowMaps, objects, counts, metrics, TypeOK, NumbersHeld,
     NumbersDiffer, Alive
<1>3. ASSUME NEW c \in Object, List(c) PROVE NumbersHeld'
  BY <1>3 DEF List, Step, InsertIntoManager, flowMaps, objects, counts, metrics, TypeOK,
     NumbersHeld, NumbersDiffer, Alive
<1>4. ASSUME NEW c \in Object, Connect(c) PROVE NumbersHeld'
  BY <1>4 DEF Connect, Step, flowMaps, objects, counts, metrics, TypeOK, NumbersHeld,
     NumbersDiffer, Alive
<1>5. ASSUME NEW c \in Object, Bind(c) PROVE NumbersHeld'
  BY <1>5 DEF Bind, Step, flowMaps, objects, counts, metrics, TypeOK,
     NumbersHeld, NumbersDiffer, Alive
<1>5a. ASSUME NEW c \in Object, Listen(c) PROVE NumbersHeld'
  BY <1>5a DEF Listen, Step, flowMaps, objects, counts, metrics, TypeOK,
     NumbersHeld, NumbersDiffer, Alive
<1>6. ASSUME NEW c \in Object, Accept(c) PROVE NumbersHeld'
  <2>1. PICK f \in Fd : /\ table[f] = Nobody
                       /\ table' = [table EXCEPT ![f] = c]
                       /\ fd' = [fd EXCEPT ![c] = f]
                       /\ reused' = (reused \/ \E d \in Object :
                                        fd[d] = f /\ stage[d] \in {"ending", "unlisted"})
    BY <1>6 DEF Accept, TakeDescriptor
  <2> QED
    BY <1>6, <2>1 DEF Accept, Step, flowMaps, objects, counts, metrics, TypeOK,
       NumbersHeld, NumbersDiffer, Alive
<1>7. ASSUME NEW c \in Object, AcceptedIsListed(c) PROVE NumbersHeld'
  BY <1>7 DEF AcceptedIsListed, Step, InsertIntoManager, flowMaps, objects, counts,
     metrics, TypeOK, NumbersHeld, NumbersDiffer, Alive
<1>8. ASSUME NEW c \in Object, InsertFlow(c) PROVE NumbersHeld'
  BY <1>8 DEF InsertFlow, Step, flowMaps, objects, counts, metrics, TypeOK, NumbersHeld,
     NumbersDiffer, Alive
<1>9. ASSUME NEW c \in Object, EraseFlow(c) PROVE NumbersHeld'
  BY <1>9 DEF EraseFlow, Step, flowMaps, objects, counts, metrics, TypeOK, NumbersHeld,
     NumbersDiffer, Alive
<1>10. ASSUME NEW c \in Object, FlowCloses(c) PROVE NumbersHeld'
  BY <1>10 DEF FlowCloses, Step, CloseDescriptor, flowMaps, objects, counts, metrics,
     TypeOK, NumbersHeld, NumbersDiffer, Alive
<1>11. ASSUME NEW c \in Object, Erase(c) PROVE NumbersHeld'
  BY <1>11 DEF Erase, Step, flowMaps, objects, counts, metrics, TypeOK, NumbersHeld,
     NumbersDiffer, Alive
<1>12. ASSUME NEW c \in Object, DeleteListener(c) PROVE NumbersHeld'
  BY <1>12 DEF DeleteListener, Step, flowMaps, objects, counts, metrics, TypeOK,
     NumbersHeld, NumbersDiffer, Alive
<1>13. ASSUME NEW c \in Object, Destroy(c) PROVE NumbersHeld'
  BY <1>13 DEF Destroy, Step, CloseDescriptor, flowMaps, objects, counts, metrics,
     TypeOK, NumbersHeld, NumbersDiffer, Alive
<1>14. ASSUME NEW c \in Connection, Recv(c) PROVE NumbersHeld'
  BY <1>14 DEF Recv, flowMaps, objects, metrics, TypeOK, NumbersHeld, NumbersDiffer, Alive
<1>15. CASE NextConnection
  BY <1>15 DEF NextConnection, Lost, flowMaps, objects, counts, TypeOK, NumbersHeld,
     NumbersDiffer, Alive
<1>16. CASE LoadBytes
  BY <1>16 DEF LoadBytes, Lost, flowMaps, objects, counts, TypeOK, NumbersHeld,
     NumbersDiffer, Alive
<1>17. CASE StoreBytes
  BY <1>17 DEF StoreBytes, Lost, flowMaps, objects, counts, TypeOK, NumbersHeld,
     NumbersDiffer, Alive
<1>18. CASE FillLevels
  BY <1>18 DEF FillLevels, Lost, flowMaps, objects, counts, TypeOK, NumbersHeld,
     NumbersDiffer, Alive
<1>19. CASE UNCHANGED vars
  BY <1>19 DEF vars, flowMaps, objects, counts, metrics, TypeOK, NumbersHeld,
     NumbersDiffer, Alive
<1>20. QED
  BY <1>1, <1>2, <1>3, <1>4, <1>5, <1>5a, <1>6, <1>7, <1>8, <1>9, <1>10, <1>11, <1>12, <1>13,
     <1>14, <1>15, <1>16, <1>17, <1>18, <1>19 DEF Next, Construct, Destruct, Sample

(* Nor does anybody erase the entry of another.                            *)
LEMMA ListedStep ==
  ASSUME TypeOK, NoDangling, NumbersDiffer, ConnectionsAreListed, [Next]_vars
  PROVE  ConnectionsAreListed'
<1> USE DescriptorsAssumption DEF Object, Connection, Nobody
<1>1. ASSUME NEW c \in Object, OpenSocket(c) PROVE ConnectionsAreListed'
  <2>1. PICK f \in Fd : /\ table[f] = Nobody
                       /\ table' = [table EXCEPT ![f] = c]
                       /\ fd' = [fd EXCEPT ![c] = f]
                       /\ reused' = (reused \/ \E d \in Object :
                                        fd[d] = f /\ stage[d] \in {"ending", "unlisted"})
    BY <1>1 DEF OpenSocket, TakeDescriptor
  <2> QED
    BY <1>1, <2>1 DEF OpenSocket, Step, MayBegin, flowMaps, objects, counts, metrics,
       TypeOK, NoDangling, NumbersDiffer, ConnectionsAreListed, Alive
<1>2. ASSUME NEW c \in Object, SetSockOpt(c) PROVE ConnectionsAreListed'
  BY <1>2 DEF SetSockOpt, Step, flowMaps, objects, counts, metrics, TypeOK, NoDangling,
     NumbersDiffer, ConnectionsAreListed, Alive
<1>3. ASSUME NEW c \in Object, List(c) PROVE ConnectionsAreListed'
  <2>1. stage[c] = "optioned" /\ fd[c] \in Fd /\ c \in Object
    BY <1>3 DEF List, Step, TypeOK
  <2>2. ASSUME ~reused, manager[fd[c]] # Nobody PROVE FALSE
    <3>1. PICK d \in Connection : d = manager[fd[c]]
      BY <2>1, <2>2 DEF TypeOK
    <3>2. fd[d] = fd[c] /\ stage[d] \in {"listed", "open", "running", "erased", "ending"}
      BY <2>1, <2>2, <3>1 DEF NoDangling
    <3> QED
      BY <2>1, <2>2, <3>1, <3>2 DEF NumbersDiffer, Alive
  <2> QED
    BY <1>3, <2>1, <2>2 DEF List, Step, InsertIntoManager, flowMaps, objects, counts,
       metrics, TypeOK, NoDangling, NumbersDiffer, ConnectionsAreListed, Alive
<1>4. ASSUME NEW c \in Object, Connect(c) PROVE ConnectionsAreListed'
  BY <1>4 DEF Connect, Step, flowMaps, objects, counts, metrics, TypeOK, NoDangling,
     NumbersDiffer, ConnectionsAreListed, Alive
<1>5. ASSUME NEW c \in Object, Bind(c) PROVE ConnectionsAreListed'
  BY <1>5 DEF Bind, Step, flowMaps, objects, counts, metrics, TypeOK,
     NoDangling, NumbersDiffer, ConnectionsAreListed, Alive
<1>5a. ASSUME NEW c \in Object, Listen(c) PROVE ConnectionsAreListed'
  BY <1>5a DEF Listen, Step, flowMaps, objects, counts, metrics, TypeOK,
     NoDangling, NumbersDiffer, ConnectionsAreListed, Alive
<1>6. ASSUME NEW c \in Object, Accept(c) PROVE ConnectionsAreListed'
  <2>1. PICK f \in Fd : /\ table[f] = Nobody
                       /\ table' = [table EXCEPT ![f] = c]
                       /\ fd' = [fd EXCEPT ![c] = f]
                       /\ reused' = (reused \/ \E d \in Object :
                                        fd[d] = f /\ stage[d] \in {"ending", "unlisted"})
    BY <1>6 DEF Accept, TakeDescriptor
  <2> QED
    BY <1>6, <2>1 DEF Accept, Step, flowMaps, objects, counts, metrics, TypeOK,
       NoDangling, NumbersDiffer, ConnectionsAreListed, Alive
<1>7. ASSUME NEW c \in Object, AcceptedIsListed(c) PROVE ConnectionsAreListed'
  <2>1. stage[c] = "accepted" /\ fd[c] \in Fd /\ c \in Object
    BY <1>7 DEF AcceptedIsListed, Step, TypeOK
  <2>2. ASSUME ~reused, manager[fd[c]] # Nobody PROVE FALSE
    <3>1. PICK d \in Connection : d = manager[fd[c]]
      BY <2>1, <2>2 DEF TypeOK
    <3>2. fd[d] = fd[c] /\ stage[d] \in {"listed", "open", "running", "erased", "ending"}
      BY <2>1, <2>2, <3>1 DEF NoDangling
    <3> QED
      BY <2>1, <2>2, <3>1, <3>2 DEF NumbersDiffer, Alive
  <2> QED
    BY <1>7, <2>1, <2>2 DEF AcceptedIsListed, Step, InsertIntoManager, flowMaps,
       objects, counts, metrics, TypeOK, NoDangling, NumbersDiffer,
       ConnectionsAreListed, Alive
<1>8. ASSUME NEW c \in Object, InsertFlow(c) PROVE ConnectionsAreListed'
  BY <1>8 DEF InsertFlow, Step, flowMaps, objects, counts, metrics, TypeOK, NoDangling,
     NumbersDiffer, ConnectionsAreListed, Alive
<1>9. ASSUME NEW c \in Object, EraseFlow(c) PROVE ConnectionsAreListed'
  BY <1>9 DEF EraseFlow, Step, flowMaps, objects, counts, metrics, TypeOK, NoDangling,
     NumbersDiffer, ConnectionsAreListed, Alive
<1>10. ASSUME NEW c \in Object, FlowCloses(c) PROVE ConnectionsAreListed'
  BY <1>10 DEF FlowCloses, Step, CloseDescriptor, flowMaps, objects, counts, metrics,
     TypeOK, NoDangling, NumbersDiffer, ConnectionsAreListed, Alive
<1>11. ASSUME NEW c \in Object, Erase(c) PROVE ConnectionsAreListed'
  BY <1>11 DEF Erase, Step, flowMaps, objects, counts, metrics, TypeOK, NoDangling,
     NumbersDiffer, ConnectionsAreListed, Alive
<1>12. ASSUME NEW c \in Object, DeleteListener(c) PROVE ConnectionsAreListed'
  BY <1>12 DEF DeleteListener, Step, flowMaps, objects, counts, metrics, TypeOK,
     NoDangling, NumbersDiffer, ConnectionsAreListed, Alive
<1>13. ASSUME NEW c \in Object, Destroy(c) PROVE ConnectionsAreListed'
  BY <1>13 DEF Destroy, Step, CloseDescriptor, flowMaps, objects, counts, metrics,
     TypeOK, NoDangling, NumbersDiffer, ConnectionsAreListed, Alive
<1>14. ASSUME NEW c \in Connection, Recv(c) PROVE ConnectionsAreListed'
  BY <1>14 DEF Recv, flowMaps, objects, metrics, TypeOK, NoDangling, NumbersDiffer,
     ConnectionsAreListed, Alive
<1>15. CASE NextConnection
  BY <1>15 DEF NextConnection, Lost, flowMaps, objects, counts, TypeOK, NoDangling,
     NumbersDiffer, ConnectionsAreListed, Alive
<1>16. CASE LoadBytes
  BY <1>16 DEF LoadBytes, Lost, flowMaps, objects, counts, TypeOK, NoDangling,
     NumbersDiffer, ConnectionsAreListed, Alive
<1>17. CASE StoreBytes
  BY <1>17 DEF StoreBytes, Lost, flowMaps, objects, counts, TypeOK, NoDangling,
     NumbersDiffer, ConnectionsAreListed, Alive
<1>18. CASE FillLevels
  BY <1>18 DEF FillLevels, Lost, flowMaps, objects, counts, TypeOK, NoDangling,
     NumbersDiffer, ConnectionsAreListed, Alive
<1>19. CASE UNCHANGED vars
  BY <1>19 DEF vars, flowMaps, objects, counts, metrics, TypeOK, NoDangling,
     NumbersDiffer, ConnectionsAreListed, Alive
<1>20. QED
  BY <1>1, <1>2, <1>3, <1>4, <1>5, <1>5a, <1>6, <1>7, <1>8, <1>9, <1>10, <1>11, <1>12, <1>13,
     <1>14, <1>15, <1>16, <1>17, <1>18, <1>19 DEF Next, Construct, Destruct, Sample

(* What was loaded is stored as it was, and the counter only grows.        *)
LEMMA RatesStep ==
  ASSUME TypeOK, LoadedWasCounted, RatesAddUp, [Next]_vars
  PROVE  (LoadedWasCounted /\ RatesAddUp)'
<1> USE DescriptorsAssumption DEF Object, Connection, Nobody
<1>1. ASSUME NEW c \in Object, OpenSocket(c) PROVE (LoadedWasCounted /\ RatesAddUp)'
  <2>1. PICK f \in Fd : /\ table[f] = Nobody
                       /\ table' = [table EXCEPT ![f] = c]
                       /\ fd' = [fd EXCEPT ![c] = f]
                       /\ reused' = (reused \/ \E d \in Object :
                                        fd[d] = f /\ stage[d] \in {"ending", "unlisted"})
    BY <1>1 DEF OpenSocket, TakeDescriptor
  <2> QED
    BY <1>1, <2>1 DEF OpenSocket, Step, MayBegin, flowMaps, objects, counts, metrics,
       TypeOK, LoadedWasCounted, RatesAddUp
<1>2. ASSUME NEW c \in Object, SetSockOpt(c) PROVE (LoadedWasCounted /\ RatesAddUp)'
  BY <1>2 DEF SetSockOpt, Step, flowMaps, objects, counts, metrics, TypeOK,
     LoadedWasCounted, RatesAddUp
<1>3. ASSUME NEW c \in Object, List(c) PROVE (LoadedWasCounted /\ RatesAddUp)'
  BY <1>3 DEF List, Step, InsertIntoManager, flowMaps, objects, counts, metrics, TypeOK,
     LoadedWasCounted, RatesAddUp
<1>4. ASSUME NEW c \in Object, Connect(c) PROVE (LoadedWasCounted /\ RatesAddUp)'
  BY <1>4 DEF Connect, Step, flowMaps, objects, counts, metrics, TypeOK,
     LoadedWasCounted, RatesAddUp
<1>5. ASSUME NEW c \in Object, Bind(c) PROVE (LoadedWasCounted /\ RatesAddUp)'
  BY <1>5 DEF Bind, Step, flowMaps, objects, counts, metrics, TypeOK,
     LoadedWasCounted, RatesAddUp
<1>5a. ASSUME NEW c \in Object, Listen(c) PROVE (LoadedWasCounted /\ RatesAddUp)'
  BY <1>5a DEF Listen, Step, flowMaps, objects, counts, metrics, TypeOK,
     LoadedWasCounted, RatesAddUp
<1>6. ASSUME NEW c \in Object, Accept(c) PROVE (LoadedWasCounted /\ RatesAddUp)'
  <2>1. PICK f \in Fd : /\ table[f] = Nobody
                       /\ table' = [table EXCEPT ![f] = c]
                       /\ fd' = [fd EXCEPT ![c] = f]
                       /\ reused' = (reused \/ \E d \in Object :
                                        fd[d] = f /\ stage[d] \in {"ending", "unlisted"})
    BY <1>6 DEF Accept, TakeDescriptor
  <2> QED
    BY <1>6, <2>1 DEF Accept, Step, flowMaps, objects, counts, metrics, TypeOK,
       LoadedWasCounted, RatesAddUp
<1>7. ASSUME NEW c \in Object, AcceptedIsListed(c) PROVE (LoadedWasCounted /\ RatesAddUp)'
  BY <1>7 DEF AcceptedIsListed, Step, InsertIntoManager, flowMaps, objects, counts,
     metrics, TypeOK, LoadedWasCounted, RatesAddUp
<1>8. ASSUME NEW c \in Object, InsertFlow(c) PROVE (LoadedWasCounted /\ RatesAddUp)'
  BY <1>8 DEF InsertFlow, Step, flowMaps, objects, counts, metrics, TypeOK,
     LoadedWasCounted, RatesAddUp
<1>9. ASSUME NEW c \in Object, EraseFlow(c) PROVE (LoadedWasCounted /\ RatesAddUp)'
  BY <1>9 DEF EraseFlow, Step, flowMaps, objects, counts, metrics, TypeOK,
     LoadedWasCounted, RatesAddUp
<1>10. ASSUME NEW c \in Object, FlowCloses(c) PROVE (LoadedWasCounted /\ RatesAddUp)'
  BY <1>10 DEF FlowCloses, Step, CloseDescriptor, flowMaps, objects, counts, metrics,
     TypeOK, LoadedWasCounted, RatesAddUp
<1>11. ASSUME NEW c \in Object, Erase(c) PROVE (LoadedWasCounted /\ RatesAddUp)'
  BY <1>11 DEF Erase, Step, flowMaps, objects, counts, metrics, TypeOK,
     LoadedWasCounted, RatesAddUp
<1>12. ASSUME NEW c \in Object, DeleteListener(c) PROVE (LoadedWasCounted /\ RatesAddUp)'
  BY <1>12 DEF DeleteListener, Step, flowMaps, objects, counts, metrics, TypeOK,
     LoadedWasCounted, RatesAddUp
<1>13. ASSUME NEW c \in Object, Destroy(c) PROVE (LoadedWasCounted /\ RatesAddUp)'
  BY <1>13 DEF Destroy, Step, CloseDescriptor, flowMaps, objects, counts, metrics,
     TypeOK, LoadedWasCounted, RatesAddUp
<1>14. ASSUME NEW c \in Connection, Recv(c) PROVE (LoadedWasCounted /\ RatesAddUp)'
  BY <1>14 DEF Recv, flowMaps, objects, metrics, TypeOK, LoadedWasCounted, RatesAddUp
<1>15. CASE NextConnection
  BY <1>15 DEF NextConnection, Lost, flowMaps, objects, counts, TypeOK,
     LoadedWasCounted, RatesAddUp
<1>16. CASE LoadBytes
  BY <1>16 DEF LoadBytes, Lost, flowMaps, objects, counts, TypeOK, LoadedWasCounted,
     RatesAddUp
<1>17. CASE StoreBytes
  BY <1>17 DEF StoreBytes, Lost, flowMaps, objects, counts, TypeOK, LoadedWasCounted,
     RatesAddUp
<1>18. CASE FillLevels
  BY <1>18 DEF FillLevels, Lost, flowMaps, objects, counts, TypeOK, LoadedWasCounted,
     RatesAddUp
<1>19. CASE UNCHANGED vars
  BY <1>19 DEF vars, flowMaps, objects, counts, metrics, TypeOK, LoadedWasCounted,
     RatesAddUp
<1>20. QED
  BY <1>1, <1>2, <1>3, <1>4, <1>5, <1>5a, <1>6, <1>7, <1>8, <1>9, <1>10, <1>11, <1>12, <1>13,
     <1>14, <1>15, <1>16, <1>17, <1>18, <1>19 DEF Next, Construct, Destruct, Sample

(* Erase throws only when another flow of the same addresses erased before.*)
LEMMA FlowMapStep ==
  ASSUME TypeOK, RunningFlowIsListed, CrashesOnlyWhenShared, [Next]_vars
  PROVE  (RunningFlowIsListed /\ CrashesOnlyWhenShared)'
<1> USE DescriptorsAssumption DEF Object, Connection, Nobody
<1>1. ASSUME NEW c \in Object, OpenSocket(c) PROVE (RunningFlowIsListed /\
   CrashesOnlyWhenShared)'
  <2>1. PICK f \in Fd : /\ table[f] = Nobody
                       /\ table' = [table EXCEPT ![f] = c]
                       /\ fd' = [fd EXCEPT ![c] = f]
                       /\ reused' = (reused \/ \E d \in Object :
                                        fd[d] = f /\ stage[d] \in {"ending", "unlisted"})
    BY <1>1 DEF OpenSocket, TakeDescriptor
  <2> QED
    BY <1>1, <2>1 DEF OpenSocket, Step, MayBegin, flowMaps, objects, counts, metrics,
       TypeOK, RunningFlowIsListed, CrashesOnlyWhenShared
<1>2. ASSUME NEW c \in Object, SetSockOpt(c) PROVE (RunningFlowIsListed /\
   CrashesOnlyWhenShared)'
  BY <1>2 DEF SetSockOpt, Step, flowMaps, objects, counts, metrics, TypeOK,
     RunningFlowIsListed, CrashesOnlyWhenShared
<1>3. ASSUME NEW c \in Object, List(c) PROVE (RunningFlowIsListed /\
   CrashesOnlyWhenShared)'
  BY <1>3 DEF List, Step, InsertIntoManager, flowMaps, objects, counts, metrics, TypeOK,
     RunningFlowIsListed, CrashesOnlyWhenShared
<1>4. ASSUME NEW c \in Object, Connect(c) PROVE (RunningFlowIsListed /\
   CrashesOnlyWhenShared)'
  BY <1>4 DEF Connect, Step, flowMaps, objects, counts, metrics, TypeOK,
     RunningFlowIsListed, CrashesOnlyWhenShared
<1>5. ASSUME NEW c \in Object, Bind(c) PROVE (RunningFlowIsListed /\
   CrashesOnlyWhenShared)'
  BY <1>5 DEF Bind, Step, flowMaps, objects, counts, metrics, TypeOK,
     RunningFlowIsListed, CrashesOnlyWhenShared
<1>5a. ASSUME NEW c \in Object, Listen(c) PROVE (RunningFlowIsListed /\
   CrashesOnlyWhenShared)'
  BY <1>5a DEF Listen, Step, flowMaps, objects, counts, metrics, TypeOK,
     RunningFlowIsListed, CrashesOnlyWhenShared
<1>6. ASSUME NEW c \in Object, Accept(c) PROVE (RunningFlowIsListed /\
   CrashesOnlyWhenShared)'
  <2>1. PICK f \in Fd : /\ table[f] = Nobody
                       /\ table' = [table EXCEPT ![f] = c]
                       /\ fd' = [fd EXCEPT ![c] = f]
                       /\ reused' = (reused \/ \E d \in Object :
                                        fd[d] = f /\ stage[d] \in {"ending", "unlisted"})
    BY <1>6 DEF Accept, TakeDescriptor
  <2> QED
    BY <1>6, <2>1 DEF Accept, Step, flowMaps, objects, counts, metrics, TypeOK,
       RunningFlowIsListed, CrashesOnlyWhenShared
<1>7. ASSUME NEW c \in Object, AcceptedIsListed(c) PROVE (RunningFlowIsListed /\
   CrashesOnlyWhenShared)'
  BY <1>7 DEF AcceptedIsListed, Step, InsertIntoManager, flowMaps, objects, counts,
     metrics, TypeOK, RunningFlowIsListed, CrashesOnlyWhenShared
<1>8. ASSUME NEW c \in Object, InsertFlow(c) PROVE (RunningFlowIsListed /\
   CrashesOnlyWhenShared)'
  BY <1>8 DEF InsertFlow, Step, flowMaps, objects, counts, metrics, TypeOK,
     RunningFlowIsListed, CrashesOnlyWhenShared
<1>9. ASSUME NEW c \in Object, EraseFlow(c) PROVE (RunningFlowIsListed /\
   CrashesOnlyWhenShared)'
  BY <1>9 DEF EraseFlow, Step, flowMaps, objects, counts, metrics, TypeOK,
     RunningFlowIsListed, CrashesOnlyWhenShared
<1>10. ASSUME NEW c \in Object, FlowCloses(c) PROVE (RunningFlowIsListed /\
   CrashesOnlyWhenShared)'
  BY <1>10 DEF FlowCloses, Step, CloseDescriptor, flowMaps, objects, counts, metrics,
     TypeOK, RunningFlowIsListed, CrashesOnlyWhenShared
<1>11. ASSUME NEW c \in Object, Erase(c) PROVE (RunningFlowIsListed /\
   CrashesOnlyWhenShared)'
  BY <1>11 DEF Erase, Step, flowMaps, objects, counts, metrics, TypeOK,
     RunningFlowIsListed, CrashesOnlyWhenShared
<1>12. ASSUME NEW c \in Object, DeleteListener(c) PROVE (RunningFlowIsListed /\
   CrashesOnlyWhenShared)'
  BY <1>12 DEF DeleteListener, Step, flowMaps, objects, counts, metrics, TypeOK,
     RunningFlowIsListed, CrashesOnlyWhenShared
<1>13. ASSUME NEW c \in Object, Destroy(c) PROVE (RunningFlowIsListed /\
   CrashesOnlyWhenShared)'
  BY <1>13 DEF Destroy, Step, CloseDescriptor, flowMaps, objects, counts, metrics,
     TypeOK, RunningFlowIsListed, CrashesOnlyWhenShared
<1>14. ASSUME NEW c \in Connection, Recv(c) PROVE (RunningFlowIsListed /\
   CrashesOnlyWhenShared)'
  BY <1>14 DEF Recv, flowMaps, objects, metrics, TypeOK, RunningFlowIsListed,
     CrashesOnlyWhenShared
<1>15. CASE NextConnection
  BY <1>15 DEF NextConnection, Lost, flowMaps, objects, counts, TypeOK,
     RunningFlowIsListed, CrashesOnlyWhenShared
<1>16. CASE LoadBytes
  BY <1>16 DEF LoadBytes, Lost, flowMaps, objects, counts, TypeOK, RunningFlowIsListed,
     CrashesOnlyWhenShared
<1>17. CASE StoreBytes
  BY <1>17 DEF StoreBytes, Lost, flowMaps, objects, counts, TypeOK, RunningFlowIsListed,
     CrashesOnlyWhenShared
<1>18. CASE FillLevels
  BY <1>18 DEF FillLevels, Lost, flowMaps, objects, counts, TypeOK, RunningFlowIsListed,
     CrashesOnlyWhenShared
<1>19. CASE UNCHANGED vars
  BY <1>19 DEF vars, flowMaps, objects, counts, metrics, TypeOK, RunningFlowIsListed,
     CrashesOnlyWhenShared
<1>20. QED
  BY <1>1, <1>2, <1>3, <1>4, <1>5, <1>5a, <1>6, <1>7, <1>8, <1>9, <1>10, <1>11, <1>12, <1>13,
     <1>14, <1>15, <1>16, <1>17, <1>18, <1>19 DEF Next, Construct, Destruct, Sample

----------------------------------------------------------------------------
(* The inductive invariant.                                                *)
IndInv ==
  /\ TypeOK /\ NoDangling /\ NoDescriptorLeak
  /\ FlowsComeLater /\ ListenersUndisturbed /\ LinksHoldNumbers /\ LinksAreListed
  /\ NumbersDiffer /\ NumbersHeld /\ ConnectionsAreListed
  /\ LoadedWasCounted /\ RatesAddUp
  /\ RunningFlowIsListed /\ CrashesOnlyWhenShared

LEMMA InitIndInv == Init => IndInv
<1> USE DescriptorsAssumption DEF Object, Connection, Nobody, Alive
<1> SUFFICES ASSUME Init PROVE IndInv
  OBVIOUS
<1>1. TypeOK
  <2>1. table \in [Fd -> Object \cup {Nobody}] /\ manager \in [Fd -> Connection \cup
     {Nobody}]
    BY DEF Init
  <2>2. stage \in [Object -> Stage] /\ fd \in [Object -> Fd \cup {-1}]
    BY DEF Init, Stage
  <2>3. \A c \in Object : stage[c] = "none"
    BY DEF Init
  <2>4. bytes \in [Connection -> 0..MaxBytes] /\ lastBytes \in [Connection -> Int]
        /\ reported \in [Connection -> Int] /\ at \in Connection \cup {Nobody}
        /\ seen \subseteq Fd /\ loaded \in Nat /\ sampler = "sleep"
    BY DEF Init
  <2>5. reused = FALSE /\ shared = FALSE /\ crashed = FALSE
        /\ flowMap \in FlowConn \cup {Nobody}
    BY DEF Init
  <2> QED
    BY <2>1, <2>2, <2>3, <2>4, <2>5 DEF TypeOK
<1>2. NoDangling /\ NoDescriptorLeak /\ LoadedWasCounted /\ RatesAddUp
  BY DEF Init, NoDangling, NoDescriptorLeak, LoadedWasCounted, RatesAddUp
<1>3. FlowsComeLater /\ ListenersUndisturbed /\ LinksHoldNumbers /\ LinksAreListed
  BY DEF Init, FlowsComeLater, ListenersUndisturbed, LinksHoldNumbers, LinksAreListed
<1>4. NumbersDiffer /\ NumbersHeld /\ ConnectionsAreListed
  BY DEF Init, NumbersDiffer, NumbersHeld, ConnectionsAreListed
<1>5. RunningFlowIsListed /\ CrashesOnlyWhenShared
  BY DEF Init, RunningFlowIsListed, CrashesOnlyWhenShared
<1> QED
  BY <1>1, <1>2, <1>3, <1>4, <1>5 DEF IndInv

LEMMA NextIndInv == IndInv /\ [Next]_vars => IndInv'
BY TypeStep, DanglingStep, LeakStep, FlowsStep, ListenersStep, LinksStep, LinksListedStep,
   DifferStep, HeldStep, ListedStep, RatesStep, FlowMapStep DEF IndInv

LEMMA AlwaysIndInv == Spec => []IndInv
BY InitIndInv, NextIndInv, PTL DEF Spec

(* The types of the tables, the objects and the counters.                  *)
THEOREM TypeCorrect == Spec => []TypeOK
<1>1. IndInv => TypeOK
  BY DEF IndInv
<1> QED
  BY <1>1, AlwaysIndInv, PTL

(* Neither the ConnectionManager nor the FlowMap ever names an object that *)
(* is destroyed, whatever throws and however numbers are given out again   *)
(* (Connection.h:171-179, Flow.cpp:189-193).                               *)
THEOREM NothingDangles == Spec => []NoDangling
<1>1. IndInv => NoDangling
  BY DEF IndInv
<1> QED
  BY <1>1, AlwaysIndInv, PTL

(* No socket outlives its object (Socket.h:342-346).                       *)
THEOREM NothingLeaks == Spec => []NoDescriptorLeak
<1>1. IndInv => NoDescriptorLeak
  BY DEF IndInv
<1> QED
  BY <1>1, AlwaysIndInv, PTL

(* The double close of a flow (Flow.cpp:196-197) never hits a link.        *)
THEOREM LinksAreUndisturbed == Spec => []LinkUndisturbed
<1>1. IndInv => LinkUndisturbed
  BY DEF IndInv, LinksHoldNumbers, LinksAreListed, LinkUndisturbed, Alive
<1> QED
  BY <1>1, AlwaysIndInv, PTL

(* Tables and objects agree until a number is given out between the two    *)
(* closes of a flow.                                                       *)
THEOREM TablesAreExact == Spec => []ExactUntilReuse
<1>1. IndInv => ExactUntilReuse
  <2> SUFFICES ASSUME IndInv, ~reused, NEW c \in Connection
               PROVE  /\ stage[c] \in {"listed", "open", "running", "erased"}
                           => table[fd[c]] = c /\ manager[fd[c]] = c
                      /\ stage[c] \in {"socket", "optioned", "accepted"}
                           => table[fd[c]] = c /\ manager[fd[c]] = Nobody
    BY DEF ExactUntilReuse
  <2>1. c \in Object
    BY DEF Object
  <2>2. CASE stage[c] \in {"listed", "open", "running", "erased"}
    BY <2>1, <2>2 DEF IndInv, NumbersHeld, ConnectionsAreListed, Alive
  <2>3. CASE stage[c] \in {"socket", "optioned", "accepted"}
    <3>1. table[fd[c]] = c /\ fd[c] \in Fd
      BY <2>1, <2>3 DEF IndInv, TypeOK, NumbersHeld, Alive
    <3>2. ASSUME manager[fd[c]] # Nobody PROVE FALSE
      <4>1. PICK d \in Connection : d = manager[fd[c]]
        BY <3>1, <3>2 DEF IndInv, TypeOK
      <4>2. d \in Object /\ fd[d] = fd[c]
            /\ stage[d] \in {"listed", "open", "running", "erased", "ending"}
        BY <3>1, <3>2, <4>1 DEF IndInv, NoDangling, Object
      <4> QED
        BY <2>1, <2>3, <4>2 DEF IndInv, NumbersDiffer, Alive
    <3> QED
      BY <2>3, <3>1, <3>2
  <2> QED
    BY <2>2, <2>3
<1> QED
  BY <1>1, AlwaysIndInv, PTL

(* Every byte is in exactly one data rate (Connection.h:130-149).          *)
THEOREM RatesAreExact == Spec => []RatesAddUp
<1>1. IndInv => RatesAddUp
  BY DEF IndInv
<1> QED
  BY <1>1, AlwaysIndInv, PTL

(* The exception of FlowMap::Erase leaves the destructor of a flow only    *)
(* after two flows had the same addresses at once (FlowMap.cpp:25, 46).    *)
THEOREM CrashNeedsSharing == Spec => []CrashesOnlyWhenShared
<1>1. IndInv => CrashesOnlyWhenShared
  BY DEF IndInv
<1> QED
  BY <1>1, AlwaysIndInv, PTL
=============================================================================
