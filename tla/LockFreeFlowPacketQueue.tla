---------------------- MODULE LockFreeFlowPacketQueue ----------------------
(***************************************************************************)
(* The sorted list without locks, one action per access to shared memory.  *)
(* The packet with the largest id is at the head and the next one to pop   *)
(* is the tail.  A node is the packet it holds and the call that brought   *)
(* it: a node that was not published is deleted before the next attempt of *)
(* the call and cannot be told from it.                                    *)
(*                                                                         *)
(* No caller in the repository uses the list and the code guards nothing,  *)
(* so the discipline of the calls is a constant: which operations may      *)
(* overlap.  Pop deletes the node it takes, and an insertion that overlaps *)
(* with it may stand on that node: then nothing is claimed.                *)
(***************************************************************************)
EXTENDS Integers, Sequences, FiniteSets

CONSTANTS
  Inserter,   \* the threads that insert
  Consumer,   \* the thread that pops
  Outbox,     \* the ids each inserter brings, in its order
  Shared,     \* the operations that may overlap with each other
  Word        \* 2^w for the width of size_

Operation == {"insert", "pop"}

ASSUME LockFreeAssumption ==
  /\ Consumer \notin Inserter
  /\ Outbox \in [Inserter -> Seq(Nat)]
  /\ Shared \subseteq Operation
  /\ Word \in Nat \ {0}

Thread == Inserter \cup {Consumer}
Node == UNION {{[id |-> Outbox[t][i], by |-> t, at |-> i] : i \in DOMAIN Outbox[t]} : t \in Inserter}
Null == [id |-> -1, by |-> Consumer, at |-> 0]

VARIABLES
  head,       \* head_
  next,       \* the next pointer of each node
  freed,      \* the nodes that were deleted
  size,       \* size_
  currentId,  \* currentId_
  operation,  \* what each thread calls, or "none"
  pc,         \* where it stands in the call
  flowPacket, \* the packet an inserter inserts
  ptr, node,  \* the local variables of the calls
  todo,       \* what each inserter has not begun to insert
  taken       \* the packets Pop returned, in order

list   == <<head, next, freed>>
locals == <<flowPacket, ptr, node>>
listVars == <<list, size, currentId, operation, pc, locals, todo, taken>>

ListInit ==
  /\ head = Null
  /\ next = [p \in Node |-> Null]
  /\ freed = {}
  /\ size = 0
  /\ currentId = 0
  /\ operation = [t \in Thread |-> "none"]
  /\ pc = [t \in Thread |-> "idle"]
  /\ flowPacket = [t \in Inserter |-> Null]
  /\ ptr = [t \in Thread |-> Null]
  /\ node = [t \in Thread |-> Null]
  /\ todo = Outbox
  /\ taken = <<>>

Goto(t, label) == pc' = [pc EXCEPT ![t] = label]
Set(local, t, value) == [local EXCEPT ![t] = value]

Return(t) == Goto(t, "idle") /\ operation' = [operation EXCEPT ![t] = "none"]

(* The discipline: shared operations overlap, the others run alone, and so *)
(* does the insertion into an empty list.                                  *)
MayStart(op) ==
  LET others == {t \in Thread : operation[t] # "none"}
  IN  /\ \A t \in others : op \in Shared /\ operation[t] \in Shared
      /\ op = "insert" /\ head = Null => others = {}

Start(t, op, label) ==
  /\ pc[t] = "idle"
  /\ MayStart(op)
  /\ operation' = [operation EXCEPT ![t] = op]
  /\ Goto(t, label)

----------------------------------------------------------------------------
(* Insert.  A packet whose turn has passed is not sent again.              *)
Begun(t) == Len(Outbox[t]) - Len(todo[t])
NextNode(t) == [id |-> Head(todo[t]), by |-> t, at |-> Begun(t) + 1]

StartInsert(t) ==
  /\ todo[t] # <<>>
  /\ Head(todo[t]) >= currentId
  /\ Start(t, "insert", "head")
  /\ flowPacket' = Set(flowPacket, t, NextNode(t))
  /\ todo' = Set(todo, t, Tail(todo[t]))
  /\ UNCHANGED <<list, size, currentId, ptr, node, taken>>

LoadHead(t) ==
  /\ pc[t] = "head"
  /\ ptr' = Set(ptr, t, head)
  /\ Goto(t, IF head = Null THEN "store"
             ELSE IF head.id < flowPacket[t].id THEN "casHead" ELSE "walk")
  /\ UNCHANGED <<list, size, currentId, operation, flowPacket, node, todo, taken>>

(* The list was empty: head_.store, without a comparison.                  *)
StoreHead(t) ==
  /\ pc[t] = "store"
  /\ head' = flowPacket[t]
  /\ Goto(t, "count")
  /\ UNCHANGED <<next, freed, size, currentId, operation, locals, todo, taken>>

(* Faulty: the new head is stored whatever head_ is by now.                *)
CasHeadBlind(t) ==
  /\ pc[t] = "casHead"
  /\ head' = flowPacket[t]
  /\ next' = Set(next, flowPacket[t], ptr[t])
  /\ Goto(t, "count")
  /\ UNCHANGED <<freed, size, currentId, operation, locals, todo, taken>>

(* compare_exchange of head_; when it fails Insert starts again.           *)
CasHead(t) ==
  /\ pc[t] = "casHead"
  /\ IF head = ptr[t]
     THEN head' = flowPacket[t] /\ next' = Set(next, flowPacket[t], ptr[t]) /\ Goto(t, "count")
     ELSE Goto(t, "head") /\ UNCHANGED <<head, next>>
  /\ UNCHANGED <<freed, size, currentId, operation, locals, todo, taken>>

(* One round of the inner loop, with its load of ptr->next: the place is   *)
(* between ptr and node.  An id that is there already is an exception.     *)
Walk(t) ==
  /\ pc[t] = "walk"
  /\ \/ /\ ptr[t].id = flowPacket[t].id
        /\ Return(t)
        /\ UNCHANGED <<ptr, node>>
     \/ /\ ptr[t].id # flowPacket[t].id
        /\ node' = Set(node, t, next[ptr[t]])
        /\ IF node'[t] = Null \/ node'[t].id < flowPacket[t].id
           THEN Goto(t, "casNext") /\ UNCHANGED ptr
           ELSE ptr' = Set(ptr, t, node'[t]) /\ UNCHANGED pc
        /\ UNCHANGED operation
  /\ UNCHANGED <<list, size, currentId, flowPacket, todo, taken>>

(* Faulty: the search goes on where it is instead of at the head.          *)
CasNextOnce(t) ==
  /\ pc[t] = "casNext"
  /\ IF next[ptr[t]] = node[t]
     THEN next' = [next EXCEPT ![ptr[t]] = flowPacket[t], ![flowPacket[t]] = node[t]] /\ Goto(t, "count")
     ELSE UNCHANGED <<next, pc>>
  /\ UNCHANGED <<head, freed, size, currentId, operation, locals, todo, taken>>

(* compare_exchange of ptr->next; when it fails the search starts again at *)
(* the head, which is dereferenced even if the list is empty by now.       *)
CasNext(t) ==
  /\ pc[t] = "casNext"
  /\ IF next[ptr[t]] = node[t]
     THEN /\ next' = [next EXCEPT ![ptr[t]] = flowPacket[t], ![flowPacket[t]] = node[t]]
          /\ Goto(t, "count")
          /\ UNCHANGED ptr
     ELSE /\ ptr' = Set(ptr, t, head)
          /\ Goto(t, IF head = Null THEN "crashed" ELSE "walk")
          /\ UNCHANGED next
  /\ UNCHANGED <<head, freed, size, currentId, operation, flowPacket, node, todo, taken>>

(* size_ and byteSize_ follow the list.                                    *)
CountInserted(t) ==
  /\ pc[t] = "count"
  /\ size' = (size + 1) % Word
  /\ Return(t)
  /\ UNCHANGED <<list, currentId, locals, todo, taken>>

----------------------------------------------------------------------------
(* Pop.  head_ is loaded twice: into ptr and for the test.                 *)
StartPop ==
  /\ Start(Consumer, "pop", "popTest")
  /\ ptr' = Set(ptr, Consumer, head)
  /\ UNCHANGED <<list, size, currentId, flowPacket, node, todo, taken>>

PopTest ==
  /\ pc[Consumer] = "popTest"
  /\ \/ head = Null /\ Return(Consumer)
     \/ /\ head # Null
        /\ UNCHANGED operation
        /\ Goto(Consumer, IF ptr[Consumer] = Null THEN "crashed"
                          ELSE IF next[ptr[Consumer]] = Null THEN "popHead" ELSE "popWalk")
  /\ UNCHANGED <<list, size, currentId, locals, todo, taken>>

(* The only packet: taken if it is the next one and still the head.        *)
PopHead ==
  /\ pc[Consumer] = "popHead"
  /\ IF ptr[Consumer].id = currentId /\ head = ptr[Consumer]
     THEN /\ head' = Null
          /\ node' = Set(node, Consumer, ptr[Consumer])
          /\ Goto(Consumer, "popped")
          /\ UNCHANGED operation
     ELSE Return(Consumer) /\ UNCHANGED <<head, node>>
  /\ UNCHANGED <<next, freed, size, currentId, flowPacket, ptr, todo, taken>>

PopWalk ==
  /\ pc[Consumer] = "popWalk"
  /\ node' = Set(node, Consumer, next[ptr[Consumer]])
  /\ IF node'[Consumer] = Null THEN Return(Consumer)
     ELSE Goto(Consumer, "popLook") /\ UNCHANGED operation
  /\ UNCHANGED <<list, size, currentId, flowPacket, ptr, todo, taken>>

PopLook ==
  /\ pc[Consumer] = "popLook"
  /\ IF next[node[Consumer]] = Null /\ node[Consumer].id = currentId
     THEN Goto(Consumer, "popTail") /\ UNCHANGED ptr
     ELSE ptr' = Set(ptr, Consumer, node[Consumer]) /\ Goto(Consumer, "popWalk")
  /\ UNCHANGED <<list, size, currentId, operation, flowPacket, node, todo, taken>>

(* compare_exchange of ptr->next takes the tail.                           *)
PopTail ==
  /\ pc[Consumer] = "popTail"
  /\ IF next[ptr[Consumer]] = node[Consumer]
     THEN /\ next' = Set(next, ptr[Consumer], Null)
          /\ Goto(Consumer, "popped")
          /\ UNCHANGED operation
     ELSE Return(Consumer) /\ UNCHANGED next
  /\ UNCHANGED <<head, freed, size, currentId, locals, todo, taken>>

(* Faulty: the packet is taken off the counter twice.                      *)
PopFinishTwice ==
  /\ pc[Consumer] = "popped"
  /\ size' = size - 2
  /\ currentId' = currentId + 1
  /\ freed' = freed \cup {node[Consumer]}
  /\ taken' = Append(taken, node[Consumer])
  /\ Return(Consumer)
  /\ UNCHANGED <<head, next, locals, todo>>

(* The counters, then the node is deleted.                                 *)
PopFinish ==
  /\ pc[Consumer] = "popped"
  /\ size' = (size - 1) % Word
  /\ currentId' = currentId + 1
  /\ freed' = freed \cup {node[Consumer]}
  /\ taken' = Append(taken, node[Consumer])
  /\ Return(Consumer)
  /\ UNCHANGED <<head, next, locals, todo>>

----------------------------------------------------------------------------
(* The nodes from the head on: those that no set which holds head_ and,    *)
(* with a node, its next one can leave out.                                *)
Reach(first, link) ==
  {p \in Node : \A S \in SUBSET Node :
     first \in S \cup {Null} /\ (\A q \in S : link[q] \in S \cup {Null}) => p \in S}
Contents == Reach(head, next)

(* Clear deletes the nodes and leaves currentId_ and byteSize_ as they are.*)
(* Only the destructor calls it, so it is alone, and it is one action.     *)
ClearList ==
  /\ pc[Consumer] = "idle"
  /\ MayStart("clear")
  /\ head' = Null
  /\ next' = [p \in Node |-> IF p \in Contents THEN Null ELSE next[p]]
  /\ freed' = freed \cup Contents
  /\ size' = 0
  /\ UNCHANGED <<currentId, operation, pc, locals, todo, taken>>

----------------------------------------------------------------------------
InsertStep(t) ==
  \/ LoadHead(t) \/ StoreHead(t) \/ CasHead(t)
  \/ Walk(t) \/ CasNext(t) \/ CountInserted(t)
PopStep == PopTest \/ PopHead \/ PopWalk \/ PopLook \/ PopTail \/ PopFinish

ListNext ==
  \/ \E t \in Inserter : StartInsert(t) \/ InsertStep(t)
  \/ StartPop \/ PopStep
  \/ ClearList

ListSpec == ListInit /\ [][ListNext]_listVars

(* A call that began goes on; nobody has to call.                          *)
FairListSpec ==
  /\ ListSpec
  /\ \A t \in Inserter : WF_listVars(InsertStep(t))
  /\ WF_listVars(PopStep)

----------------------------------------------------------------------------
(* The types of the list and of the threads, none of which has crashed.    *)
ListTypeOK ==
  /\ head \in Node \cup {Null}
  /\ next \in [Node -> Node \cup {Null}]
  /\ freed \subseteq Node
  /\ size \in 0..(Word - 1) /\ currentId \in Nat
  /\ pc \in [Thread -> {"idle", "head", "store", "casHead", "walk", "casNext", "count",
                       "popTest", "popHead", "popWalk", "popLook", "popTail", "popped"}]
  /\ operation \in [Thread -> Operation \cup {"none"}]
  /\ ptr \in [Thread -> Node \cup {Null}] /\ node \in [Thread -> Node \cup {Null}]
  /\ flowPacket \in [Inserter -> Node \cup {Null}]
  /\ taken \in Seq(Node)

(* size_ counts the nodes, but for those between the list and the counter  *)
(* (LockFreeFlowPacketQueue.cpp:103, 122, 145).                            *)
SizeCounts ==
  size = Cardinality(Contents) - Cardinality({t \in Inserter : pc[t] = "count"})
           + (IF pc[Consumer] = "popped" THEN 1 ELSE 0)

(* Every attempt that fails means that another one succeeded: a call that  *)
(* began returns.                                                          *)
EveryCallReturns == \A t \in Thread : pc[t] # "idle" ~> pc[t] = "idle"

(* A sorted queue: what goes in comes out by id (h:4-8).                   *)
ListBuffer == INSTANCE ReorderBuffer WITH
  pending   <- Contents,
  delivered <- IF pc[Consumer] = "popped" THEN Append(taken, node[Consumer]) ELSE taken
ListImplementsBuffer == ListBuffer!Spec
=============================================================================
