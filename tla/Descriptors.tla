---------------------------- MODULE Descriptors ----------------------------
(***************************************************************************)
(* The objects of one site that hold a descriptor, the descriptor table of *)
(* the kernel, the ConnectionManager, which knows the connections by the   *)
(* number of their descriptor, and the thread that samples them.           *)
(*                                                                         *)
(* A socket of the kernel is named by the object it was opened for.        *)
(***************************************************************************)
EXTENDS Integers

CONSTANTS
  Link,       \* the connections of the bond: main deletes them
  FlowConn,   \* the connections of flows: ~Flow closes, then deletes them
  Listener,   \* the listeners
  Fd,         \* the descriptor numbers
  MaxBytes    \* bound on the bytes each connection receives

Connection == Link \cup FlowConn
Object == Connection \cup Listener
Nobody == "nobody"

ASSUME DescriptorsAssumption ==
  /\ Link \cap FlowConn = {} /\ Connection \cap Listener = {}
  /\ Nobody \notin Object
  /\ Fd \subseteq Nat /\ Fd # {} /\ MaxBytes \in Nat

VARIABLES
  table,     \* the socket each descriptor number stands for
  stage,     \* where each object is between construction and destruction
  fd,        \* fd_ of each object
  manager,   \* the entries of the ConnectionManager
  reused,    \* has a number been given out that a closed flow still holds?
  flowMap,   \* the flow in the FlowMap: all flows have the same two addresses
  shared,    \* was it already there when another flow was inserted?
  crashed,   \* did an exception leave a destructor?
  bytes,     \* recvBytes_ of each connection
  lastBytes, \* lastRecvBytes_ of each connection
  reported,  \* the bytes in the data rates written so far
  sampler,   \* where the metrics thread stands
  at,        \* the connection it samples
  seen,      \* the numbers it has passed in this loop
  loaded     \* what it loaded from recvBytes_

flowMaps == <<flowMap, shared, crashed>>
objects == <<table, stage, fd, manager, reused, flowMaps>>
counts  == <<bytes, lastBytes, reported>>
metrics == <<sampler, at, seen, loaded>>
vars    == <<objects, counts, metrics>>

Init ==
  /\ table = [f \in Fd |-> Nobody]
  /\ stage = [c \in Object |-> "none"]
  /\ fd = [c \in Object |-> -1]
  /\ manager = [f \in Fd |-> Nobody]
  /\ reused = FALSE
  /\ flowMap = Nobody /\ shared = FALSE /\ crashed = FALSE
  /\ bytes = [c \in Connection |-> 0]
  /\ lastBytes = [c \in Connection |-> 0]
  /\ reported = [c \in Connection |-> 0]
  /\ sampler = "sleep" /\ at = Nobody /\ seen = {} /\ loaded = 0

Step(c, from, to) == stage[c] = from /\ stage' = [stage EXCEPT ![c] = to]

----------------------------------------------------------------------------
(* Construction.                                                           *)

(* Faulty: the object does not keep its number.                            *)
TakeDescriptorUnsaved(c) ==
  \E f \in Fd :
    /\ table[f] = Nobody
    /\ \A g \in Fd : g < f => table[g] # Nobody
    /\ table' = [table EXCEPT ![f] = c]
    /\ UNCHANGED <<fd, reused>>

(* socket() and accept() give the lowest number that is free.              *)
TakeDescriptor(c) ==
  \E f \in Fd :
    /\ table[f] = Nobody
    /\ \A g \in Fd : g < f => table[g] # Nobody
    /\ table' = [table EXCEPT ![f] = c]
    /\ fd' = [fd EXCEPT ![c] = f]
    /\ reused' = (reused \/ \E d \in Object : fd[d] = f /\ stage[d] \in {"ending", "unlisted"})

(* The links come first, the flows when the bond runs on them.  main makes *)
(* one object at a time, and the bond too: it connects under a mutex.      *)
MayBegin(c) ==
  /\ c \in FlowConn => \A l \in Link : stage[l] = "open"
  /\ \A d \in Object :
       (d \in FlowConn <=> c \in FlowConn) => stage[d] \notin {"socket", "optioned", "bound", "listed"}

(* Socket(domain, type, protocol): without a descriptor there is no object *)
(* and the exception leaves nothing behind.                                *)
OpenSocket(c) ==
  /\ MayBegin(c)
  /\ Step(c, "none", "socket")
  /\ TakeDescriptor(c)
  /\ UNCHANGED <<manager, flowMaps, counts, metrics>>

(* The members of Socket that throw at an error, in a constructor.         *)
SetSockOpt(c) ==
  /\ \/ Step(c, "socket", "optioned") /\ table[fd[c]] # Nobody
     \/ Step(c, "socket", "unlisted") /\ table[fd[c]] = Nobody
  /\ UNCHANGED <<table, fd, manager, reused, flowMaps, counts, metrics>>

(* ConnectionManager::Insert: unordered_map::insert keeps an older entry.  *)
InsertIntoManager(c) ==
  manager' = IF manager[fd[c]] = Nobody THEN [manager EXCEPT ![fd[c]] = c] ELSE manager

(* The end of Connection(), which is a constructor of its own: from here   *)
(* on an exception runs the destructor of Connection.                      *)
List(c) ==
  /\ c \in Connection
  /\ Step(c, "optioned", "listed")
  /\ InsertIntoManager(c)
  /\ UNCHANGED <<table, fd, reused, flowMaps, counts, metrics>>

(* Faulty: Connect throws and the destructor of Connection does not run.   *)
ConnectThrowsEarly(c) ==
  /\ Step(c, "listed", "open") \/ Step(c, "listed", "unlisted")
  /\ UNCHANGED <<table, fd, manager, reused, flowMaps, counts, metrics>>

(* Faulty: Connect throws and the socket stays open.                       *)
ConnectLeaks(c) ==
  /\ Step(c, "listed", "open") \/ Step(c, "listed", "gone")
  /\ UNCHANGED <<table, fd, manager, reused, flowMaps, counts, metrics>>

(* Connect, which the other side may refuse.                               *)
Connect(c) ==
  /\ \/ Step(c, "listed", "open") /\ table[fd[c]] = c
     \/ Step(c, "listed", "ending")
  /\ UNCHANGED <<table, fd, manager, reused, flowMaps, counts, metrics>>

(* A listener binds the address and then listens; either may fail.         *)
Bind(c) ==
  /\ c \in Listener
  /\ \/ Step(c, "optioned", "bound") /\ table[fd[c]] = c
     \/ Step(c, "optioned", "unlisted")
  /\ UNCHANGED <<table, fd, manager, reused, flowMaps, counts, metrics>>

Listen(c) ==
  /\ \/ Step(c, "bound", "open") /\ table[fd[c]] = c
     \/ Step(c, "bound", "unlisted")
  /\ UNCHANGED <<table, fd, manager, reused, flowMaps, counts, metrics>>

(* accept() and, as a second step, Connection(fd).                         *)
Accept(c) ==
  /\ c \in Connection
  /\ c \in FlowConn => \A l \in Link : stage[l] = "open"
  /\ \E l \in Listener : stage[l] = "open" /\ table[fd[l]] = l
  /\ Step(c, "none", "accepted")
  /\ TakeDescriptor(c)
  /\ UNCHANGED <<manager, flowMaps, counts, metrics>>

AcceptedIsListed(c) ==
  /\ Step(c, "accepted", "open")
  /\ InsertIntoManager(c)
  /\ UNCHANGED <<table, fd, reused, flowMaps, counts, metrics>>

----------------------------------------------------------------------------
(* Destruction.                                                            *)

(* Close: close(fd_) closes whatever has the number; an error is logged.   *)
CloseDescriptor(c) == table' = [table EXCEPT ![fd[c]] = Nobody]

(* FlowMap::Insert keeps an older flow of the same addresses.              *)
InsertFlow(c) ==
  /\ c \in FlowConn
  /\ Step(c, "open", "running")
  /\ flowMap' = IF flowMap = Nobody THEN c ELSE flowMap
  /\ shared' = (shared \/ flowMap # Nobody)
  /\ UNCHANGED <<table, fd, manager, reused, crashed, counts, metrics>>

(* ~Flow: FlowMap::Erase removes the entry of the addresses, whosever it   *)
(* is, and throws when there is none, which ends the program.              *)
EraseFlow(c) ==
  /\ c \in FlowConn
  /\ Step(c, "running", "erased")
  /\ flowMap' = Nobody
  /\ crashed' = (flowMap = Nobody)
  /\ UNCHANGED <<table, fd, manager, reused, shared, counts, metrics>>

(* Then it calls connection_->Close() and deletes the connection.          *)
FlowCloses(c) ==
  /\ Step(c, "erased", "ending")
  /\ CloseDescriptor(c)
  /\ UNCHANGED <<fd, manager, reused, flowMaps, counts, metrics>>

(* Faulty: a connection leaves the manager only if it is open.             *)
EraseOnlyOpen(c) ==
  /\ \/ c \in Link /\ Step(c, "open", "unlisted")
     \/ c \in Connection /\ Step(c, "ending", "unlisted")
  /\ manager' = IF table[fd[c]] = c THEN [manager EXCEPT ![fd[c]] = Nobody] ELSE manager
  /\ UNCHANGED <<table, fd, reused, flowMaps, counts, metrics>>

(* ~Connection: ConnectionManager::Erase removes the entry of the number.  *)
Erase(c) ==
  /\ \/ c \in Link /\ Step(c, "open", "unlisted")
     \/ c \in Connection /\ Step(c, "ending", "unlisted")
  /\ manager' = [manager EXCEPT ![fd[c]] = Nobody]
  /\ UNCHANGED <<table, fd, reused, flowMaps, counts, metrics>>

DeleteListener(c) ==
  /\ c \in Listener
  /\ Step(c, "open", "unlisted")
  /\ UNCHANGED <<table, fd, manager, reused, flowMaps, counts, metrics>>

(* Faulty: the first number is closed, whatever fd_ is.                    *)
DestroyClosesFirst(c) ==
  /\ Step(c, "unlisted", "gone")
  /\ table' = [f \in Fd |-> IF \A g \in Fd : f <= g THEN Nobody ELSE table[f]]
  /\ UNCHANGED <<fd, manager, reused, flowMaps, counts, metrics>>

(* ~Socket closes, again if the flow closed before.                        *)
Destroy(c) ==
  /\ Step(c, "unlisted", "gone")
  /\ CloseDescriptor(c)
  /\ UNCHANGED <<fd, manager, reused, flowMaps, counts, metrics>>

----------------------------------------------------------------------------
(* Recv counts what it returned; when it throws there is nothing to count. *)
Recv(c) ==
  /\ stage[c] \in {"open", "running"}
  /\ table[fd[c]] # Nobody
  /\ bytes[c] < MaxBytes
  /\ bytes' = [bytes EXCEPT ![c] = @ + 1]
  /\ UNCHANGED <<objects, lastBytes, reported, metrics>>

----------------------------------------------------------------------------
(* WriteMetricsToDisk iterates over the manager without its mutex.  What a *)
(* step finds of an object or an entry that is gone is not followed.       *)
Lost == at # Nobody /\ (stage[at] = "gone" \/ manager[fd[at]] # at)

NextConnection ==
  /\ sampler = "sleep" \/ (sampler = "next" /\ ~Lost)
  /\ \/ \E f \in Fd \ seen :
          /\ manager[f] # Nobody
          /\ at' = manager[f]
          /\ seen' = seen \cup {f}
          /\ sampler' = "rate"
     \/ /\ \A f \in Fd \ seen : manager[f] = Nobody
        /\ sampler' = "sleep" /\ at' = Nobody /\ seen' = {}
  /\ UNCHANGED <<objects, counts, loaded>>

LoadBytes ==
  /\ sampler = "rate"
  /\ ~Lost
  /\ loaded' = bytes[at]
  /\ sampler' = "store"
  /\ UNCHANGED <<objects, counts, at, seen>>

(* Faulty: recvBytes_ is loaded once more.                                 *)
StoreReloads ==
  /\ sampler = "store"
  /\ ~Lost
  /\ reported' = [reported EXCEPT ![at] = @ + (loaded - lastBytes[at])]
  /\ lastBytes' = [lastBytes EXCEPT ![at] = bytes[at]]
  /\ sampler' = "levels"
  /\ UNCHANGED <<objects, bytes, at, seen, loaded>>

(* The rate is that of the bytes since the last sample.                    *)
StoreBytes ==
  /\ sampler = "store"
  /\ ~Lost
  /\ reported' = [reported EXCEPT ![at] = @ + (loaded - lastBytes[at])]
  /\ lastBytes' = [lastBytes EXCEPT ![at] = loaded]
  /\ sampler' = "levels"
  /\ UNCHANGED <<objects, bytes, at, seen, loaded>>

(* The fill levels of the buffers: IoCtl throws on a closed descriptor and *)
(* the Looper begins again with the first connection.                      *)
FillLevels ==
  /\ sampler = "levels"
  /\ ~Lost
  /\ IF table[fd[at]] # Nobody THEN sampler' = "next" /\ UNCHANGED <<at, seen>>
     ELSE sampler' = "sleep" /\ at' = Nobody /\ seen' = {}
  /\ UNCHANGED <<objects, counts, loaded>>

----------------------------------------------------------------------------
Construct(c) ==
  \/ OpenSocket(c) \/ SetSockOpt(c) \/ List(c) \/ Connect(c) \/ Bind(c) \/ Listen(c)
  \/ Accept(c) \/ AcceptedIsListed(c) \/ InsertFlow(c)
Destruct(c) == EraseFlow(c) \/ FlowCloses(c) \/ Erase(c) \/ DeleteListener(c) \/ Destroy(c)
Sample == NextConnection \/ LoadBytes \/ StoreBytes \/ FillLevels

Next ==
  \/ ~crashed /\ \E c \in Object : Construct(c) \/ Destruct(c)
  \/ ~crashed /\ \E c \in Connection : Recv(c)
  \/ ~crashed /\ Sample

Spec == Init /\ [][Next]_vars

----------------------------------------------------------------------------
Stage == {"none", "socket", "optioned", "bound", "listed", "accepted", "open", "running", "erased",
          "ending", "unlisted", "gone"}

(* The types of the tables and of the counters.                            *)
TypeOK ==
  /\ table \in [Fd -> Object \cup {Nobody}]
  /\ stage \in [Object -> Stage]
  /\ fd \in [Object -> Fd \cup {-1}]
  /\ \A c \in Object : stage[c] # "none" => fd[c] \in Fd
  /\ \A c \in Listener :
       stage[c] \notin {"listed", "accepted", "running", "erased", "ending"}
  /\ \A c \in Link : stage[c] \notin {"bound", "running", "erased"}
  /\ \A c \in FlowConn : stage[c] # "bound"
  /\ manager \in [Fd -> Connection \cup {Nobody}]
  /\ reused \in BOOLEAN /\ shared \in BOOLEAN /\ crashed \in BOOLEAN
  /\ flowMap \in FlowConn \cup {Nobody}
  /\ bytes \in [Connection -> 0..MaxBytes]
  /\ lastBytes \in [Connection -> Int] /\ reported \in [Connection -> Int]
  /\ sampler \in {"sleep", "next", "rate", "store", "levels"}
  /\ at \in Connection \cup {Nobody} /\ seen \subseteq Fd /\ loaded \in Nat
  /\ sampler # "sleep" => at # Nobody

(* What the manager points to exists: a connection that is destroyed, also *)
(* by an exception of its constructor (Connection.h:179), took the entry   *)
(* with it, whosever it was; the iteration of Metrics.cpp:30 relies on it. *)
(* What the FlowMap points to is a flow whose destructor has not begun,    *)
(* though Insert keeps an older flow and Erase removes whatever has the    *)
(* addresses (FlowMap.cpp:25, 51).                                         *)
NoDangling ==
  /\ \A f \in Fd : manager[f] # Nobody =>
       /\ stage[manager[f]] \in {"listed", "open", "running", "erased", "ending"}
       /\ fd[manager[f]] = f
  /\ flowMap # Nobody => stage[flowMap] = "running"

(* ~Flow finds the entry it erases, or else the exception of Erase ends    *)
(* the program (Flow.cpp:192); only two flows of the same addresses at     *)
(* once can bring that about.                                              *)
CrashesOnlyWhenShared == crashed => shared

(* Every socket is closed with its object, whichever constructor threw and *)
(* whoever closed it before (Socket.h:342).                                *)
NoDescriptorLeak ==
  \A f \in Fd : table[f] # Nobody => stage[table[f]] \notin {"none", "gone"} /\ fd[table[f]] = f

(* The second close of a flow's descriptor (Flow.cpp:197) may hit another  *)
(* flow, but never a link of the bond: its number was never free.          *)
LinkUndisturbed ==
  \A l \in Link : stage[l] = "open" => table[fd[l]] = l /\ manager[fd[l]] = l

(* Only a number that is given out between the two closes makes the tables *)
(* and the objects disagree (Flow.cpp:196).                                *)
ExactUntilReuse ==
  ~reused => \A c \in Connection :
    /\ stage[c] \in {"listed", "open", "running", "erased"} => table[fd[c]] = c /\ manager[fd[c]] = c
    /\ stage[c] \in {"socket", "optioned", "accepted"} => table[fd[c]] = c /\ manager[fd[c]] = Nobody

(* Every byte is in exactly one of the data rates, although Recv counts    *)
(* while the rate is computed (Connection.h:135-142).                      *)
RatesAddUp == \A c \in Connection : reported[c] = lastBytes[c] /\ lastBytes[c] <= bytes[c]

=============================================================================
