-------------------------------- MODULE Site --------------------------------
(***************************************************************************)
(* The life of one site: main, the two links, the bond with its loopers,   *)
(* the proxy, the context with the metrics, and the threads that delete    *)
(* the bond when a link ends.                                              *)
(*                                                                         *)
(* Where the code has undefined behaviour the site stops, and undefined    *)
(* says so: nothing is claimed of what comes then.                         *)
(***************************************************************************)

VARIABLES
  args,       \* what args::init made of the command line
  main,       \* where main stands
  link,       \* the connection to each link, and what became of it
  thread,     \* where the thread of each looper stands
  running,    \* the flag of each looper
  destroyer,  \* where each thread that runs ~Bond stands in it
  deleted,    \* the loopers of the bond that were deleted
  bond,       \* "none", "alive" or "freed"
  listener,   \* the listener of the proxy: "none", "open" or "deleted"
  file,       \* the file of the metrics: "none", "opened", "headed", "deleted"
  flows,      \* are there connections of flows in the manager?
  guarded,    \* is the static context still being constructed?
  undefined   \* was there undefined behaviour?

vars == <<args, main, link, thread, running, destroyer, deleted, bond, listener,
          file, flows, guarded, undefined>>

Path       == {"ter", "sat"}
Reader     == {"readTer", "readSat"}
BondLooper == Reader \cup {"heartbeat"}
Looper     == BondLooper \cup {"accept", "metrics"}
PathOf(reader) == IF reader = "readTer" THEN "ter" ELSE "sat"

Enabled(path) == IF path = "ter" THEN args.ter ELSE args.sat

(* Faulty: the heartbeat is started whether or not sat is enabled.         *)
ConstructedAnyway ==
  {looper \in BondLooper :
     CASE looper = "readTer"   -> args.ter
       [] looper = "readSat"   -> args.sat
       [] looper = "heartbeat" -> args.heartbeat}

(* The loopers that the constructor of the bond makes.                     *)
Constructed ==
  {looper \in BondLooper :
     CASE looper = "readTer"   -> args.ter
       [] looper = "readSat"   -> args.sat
       [] looper = "heartbeat" -> args.sat /\ args.heartbeat}

Init ==
  /\ args \in [remote : BOOLEAN, ter : BOOLEAN, sat : BOOLEAN, heartbeat : BOOLEAN,
               metrics : BOOLEAN]
  /\ main = "args"
  /\ link = [path \in Path |-> "null"]
  /\ thread = [looper \in Looper |-> "none"]
  /\ running = [looper \in Looper |-> FALSE]
  /\ destroyer = [who \in Reader \cup {"main"} |-> "none"]
  /\ deleted = {}
  /\ bond = "none" /\ listener = "none" /\ file = "none" /\ flows = FALSE
  /\ guarded = FALSE /\ undefined = FALSE

MainGoes(from, to) == main = from /\ main' = to

(* Looper::Start                                                           *)
Started(loopers) ==
  /\ running' = [looper \in Looper |-> looper \in loopers \/ running[looper]]
  /\ thread' = [looper \in Looper |-> IF looper \in loopers THEN "test" ELSE thread[looper]]

----------------------------------------------------------------------------
(* main and the context.                                                   *)

(* A local site without an address for the proxy exits at once.            *)
ParseArgs ==
  /\ \/ MainGoes("args", "context")
     \/ ~args.remote /\ MainGoes("args", "exited")
  /\ UNCHANGED <<args, link, thread, running, destroyer, deleted, bond, listener, file, flows, guarded, undefined>>

(* GetDefaultContext: while the static object is constructed, every other  *)
(* thread that asks for it waits.  Metrics() starts its looper ...         *)
MakeContext ==
  /\ MainGoes("context", IF args.metrics THEN "header" ELSE "ter")
  /\ guarded' = args.metrics
  /\ file' = IF args.metrics THEN "opened" ELSE "none"
  /\ Started(IF args.metrics THEN {"metrics"} ELSE {})
  /\ UNCHANGED <<args, link, destroyer, deleted, bond, listener, flows, undefined>>

(* ... and then writes the line with the names of the columns.             *)
WriteHeader ==
  /\ MainGoes("header", "ter")
  /\ file' = "headed"
  /\ guarded' = FALSE
  /\ UNCHANGED <<args, link, thread, running, destroyer, deleted, bond, listener, flows, undefined>>

(* Connect to, or listen for and accept, one link; each step may throw.    *)
OpenLink(path, next) ==
  /\ \/ ~Enabled(path) /\ MainGoes(path, next) /\ UNCHANGED link
     \/ Enabled(path) /\ MainGoes(path, next) /\ link' = [link EXCEPT ![path] = "up"]
     \/ Enabled(path) /\ MainGoes(path, "deleteLinks") /\ UNCHANGED link
  /\ UNCHANGED <<args, thread, running, destroyer, deleted, bond, listener, file, flows, guarded, undefined>>

MakeBond ==
  /\ MainGoes("bond", IF args.remote THEN "wait" ELSE "proxy")
  /\ bond' = "alive"
  /\ Started(Constructed)
  /\ UNCHANGED <<args, link, destroyer, deleted, listener, file, flows, guarded, undefined>>

(* When no listener can be made, the bond is destroyed on the way out; when*)
(* its option is refused, ~Looper joins a thread that never started, which *)
(* throws while the first exception is on its way: the program terminates. *)
MakeProxy ==
  /\ \/ MainGoes("proxy", "wait") /\ listener' = "open"
        /\ Started({"accept"}) /\ UNCHANGED destroyer
     \/ MainGoes("proxy", "destroyBond") /\ destroyer' = [destroyer EXCEPT !["main"] = "sat"]
        /\ UNCHANGED <<listener, thread, running>>
     \/ MainGoes("proxy", "terminated") /\ listener' = "open"
        /\ UNCHANGED <<destroyer, thread, running>>
  /\ UNCHANGED <<args, link, deleted, bond, file, flows, guarded, undefined>>

KeyPressed ==
  /\ MainGoes("wait", IF args.remote THEN "destroyBond" ELSE "accept")
  /\ listener' = IF args.remote THEN listener ELSE "deleted"
  /\ destroyer' = IF args.remote THEN [destroyer EXCEPT !["main"] = "sat"] ELSE destroyer
  /\ UNCHANGED <<args, link, thread, running, deleted, bond, file, flows, guarded, undefined>>

(* Faulty: main keeps one of the connections.                              *)
DeleteTerOnly ==
  /\ MainGoes("deleteLinks", "return")
  /\ link' = [link EXCEPT !["ter"] = IF @ = "null" THEN "null" ELSE "deleted"]
  /\ UNCHANGED <<args, thread, running, destroyer, deleted, bond, listener, file, flows, guarded, undefined>>

(* delete of the connections, which leave the manager.                     *)
DeleteLinks ==
  /\ MainGoes("deleteLinks", "return")
  /\ link' = [path \in Path |-> IF link[path] = "null" THEN "null" ELSE "deleted"]
  /\ UNCHANGED <<args, thread, running, destroyer, deleted, bond, listener, file, flows, guarded, undefined>>

(* ~Metrics closes and deletes the file before it stops the looper.        *)
DestroyMetrics ==
  /\ file' = "deleted"
  /\ running' = [running EXCEPT !["metrics"] = FALSE]

(* main returned: the static context goes, and the metrics with it.        *)
DestroyContext ==
  /\ MainGoes("return", IF args.metrics THEN "metrics" ELSE "exited")
  /\ IF args.metrics THEN DestroyMetrics ELSE UNCHANGED <<file, running>>
  /\ UNCHANGED <<args, link, thread, destroyer, deleted, bond, listener, flows, guarded, undefined>>

(* ~Looper joins: as a member of the proxy, whose destructor deleted the   *)
(* listener and stopped nothing, and as a member of the metrics.           *)
JoinLooper ==
  /\ main \in {"accept", "metrics"}
  /\ thread[main] = "ended"
  /\ main' = IF main = "metrics" THEN "exited" ELSE "destroyBond"
  /\ destroyer' = IF main = "accept" THEN [destroyer EXCEPT !["main"] = "sat"] ELSE destroyer
  /\ UNCHANGED <<args, link, thread, running, deleted, bond, listener, file, flows, guarded, undefined>>

----------------------------------------------------------------------------
(* ~Bond, run by main or by a thread that a reader detached.               *)

After(position) ==
  CASE position = "sat" -> "heartbeat" [] position = "heartbeat" -> "ter" [] position = "ter" -> "free"
LooperAt(position) ==
  CASE position = "sat" -> "readSat" [] position = "heartbeat" -> "heartbeat" [] position = "ter" -> "readTer"

(* Faulty: the heartbeat is not deleted, and not joined.                   *)
DestroyReaders(who) ==
  LET position == destroyer[who]
      looper   == LooperAt(position)
  IN  /\ position \in {"sat", "heartbeat", "ter"}
      /\ destroyer' = [destroyer EXCEPT ![who] = After(position)]
      /\ IF looper \notin Constructed \ {"heartbeat"} THEN UNCHANGED <<deleted, undefined>>
         ELSE IF looper \in deleted THEN undefined' = TRUE /\ UNCHANGED deleted
         ELSE thread[looper] = "ended" /\ deleted' = deleted \cup {looper} /\ UNCHANGED undefined
      /\ UNCHANGED <<args, main, link, thread, running, bond, listener, file, flows, guarded>>

(* Each looper that was constructed is joined and deleted; a second delete *)
(* is undefined.                                                           *)
DestroyNext(who) ==
  LET position == destroyer[who]
      looper   == LooperAt(position)
  IN  /\ position \in {"sat", "heartbeat", "ter"}
      /\ destroyer' = [destroyer EXCEPT ![who] = After(position)]
      /\ IF looper \notin Constructed THEN UNCHANGED <<deleted, undefined>>
         ELSE IF looper \in deleted THEN undefined' = TRUE /\ UNCHANGED deleted
         ELSE thread[looper] = "ended" /\ deleted' = deleted \cup {looper} /\ UNCHANGED undefined
      /\ UNCHANGED <<args, main, link, thread, running, bond, listener, file, flows, guarded>>

(* The bond lives on the stack of main: only main may free it.             *)
FreeBond(who) ==
  /\ destroyer[who] = "free"
  /\ destroyer' = [destroyer EXCEPT ![who] = "over"]
  /\ bond' = "freed"
  /\ IF who = "main" THEN MainGoes("destroyBond", "deleteLinks") ELSE UNCHANGED main
  /\ undefined' = (who # "main")
  /\ UNCHANGED <<args, link, thread, running, deleted, listener, file, flows, guarded>>

----------------------------------------------------------------------------
(* Looper::Run                                                             *)
ThreadGoes(looper, from, to) == thread[looper] = from /\ thread' = [thread EXCEPT ![looper] = to]

TestRunning(looper) ==
  /\ ThreadGoes(looper, "test", IF running[looper] THEN "call" ELSE "ended")
  /\ UNCHANGED <<args, main, link, running, destroyer, deleted, bond, listener, file, flows, guarded, undefined>>

(* Some bytes of a part of a packet come, which may be the last of the     *)
(* part, of a heartbeat or of a packet for a flow.  They can also come     *)
(* after the other side ended the link, but not for ever.                  *)
ReadPart(reader) ==
  /\ link[PathOf(reader)] \in {"up", "fin", "shut"}
  /\ \E from \in {"call", "inside"}, to \in {"inside", "call", "test", "lock"} :
       ThreadGoes(reader, from, to)
  /\ UNCHANGED <<args, main, link, running, destroyer, deleted, bond, listener, file, flows, guarded, undefined>>

(* Recv reads nothing: "exit if socket closed", at the start of a part     *)
(* only; inside of one the loop calls Recv again.                          *)
SocketClosed(reader) ==
  /\ link[PathOf(reader)] # "up"
  /\ ThreadGoes(reader, "call", "ter")
  /\ UNCHANGED <<args, main, link, running, destroyer, deleted, bond, listener, file, flows, guarded, undefined>>

(* The mutex of the FlowMap is free: the packet is handed to its flow,     *)
(* which a remote site may make, or which it cannot connect: then it       *)
(* answers, and keeps the mutex.                                           *)
HandOver(reader) ==
  /\ \A other \in Reader : thread[other] # "answer"
  /\ \/ ThreadGoes(reader, "lock", "test") /\ flows' \in {flows, flows \/ args.remote}
     \/ args.remote /\ ThreadGoes(reader, "lock", "answer") /\ UNCHANGED flows
  /\ UNCHANGED <<args, main, link, running, destroyer, deleted, bond, listener, file, guarded, undefined>>

(* Whether a Send goes through is up to the other site; one that fails is  *)
(* tried again for ever.                                                   *)
CanSend(path) == link[path] \in {"up", "fin"}

(* SendToTer of the answer, on sat when ter is not enabled, returns.       *)
AnswerSent(reader) ==
  /\ CanSend(IF args.ter THEN "ter" ELSE "sat")
  /\ ThreadGoes(reader, "answer", "test")
  /\ UNCHANGED <<args, main, link, running, destroyer, deleted, bond, listener, file, flows, guarded, undefined>>

(* Faulty: only the link that ended is shut down.                          *)
ShutdownOwn(reader, path, next) ==
  /\ IF link[path] \in {"null", "deleted"}
     THEN undefined' = TRUE /\ UNCHANGED <<thread, link>>
     ELSE /\ UNCHANGED undefined
          /\ \/ link[path] \in {"reset", "closed"} /\ ThreadGoes(reader, path, "test") /\ UNCHANGED link
             \/ /\ link[path] \in {"up", "fin", "shut"}
                /\ ThreadGoes(reader, path, next)
                /\ link' = IF path = PathOf(reader) THEN [link EXCEPT ![path] = "shut"] ELSE link
  /\ thread[reader] = path
  /\ UNCHANGED <<args, main, running, destroyer, deleted, bond, listener, file, flows, guarded>>

(* Shutdown of both connections, one after the other.  A connection that   *)
(* is gone for good makes it throw, the outer catch calls it again, which  *)
(* throws again, and the Looper calls the function anew.                   *)
Shutdown(reader, path, next) ==
  /\ thread[reader] = path
  /\ IF link[path] \in {"null", "deleted"}
     THEN undefined' = TRUE /\ UNCHANGED <<thread, link>>
     ELSE /\ UNCHANGED undefined
          /\ \/ link[path] \in {"reset", "closed"} /\ ThreadGoes(reader, path, "test") /\ UNCHANGED link
             \/ /\ link[path] \in {"up", "fin", "shut"}
                /\ ThreadGoes(reader, path, next)
                /\ link' = [link EXCEPT ![path] = "shut"]
  /\ UNCHANGED <<args, main, running, destroyer, deleted, bond, listener, file, flows, guarded>>

(* The three loopers are stopped, if they were made.                       *)
StopLoopers(reader) ==
  /\ ThreadGoes(reader, "stop", "detach")
  /\ undefined' = (Constructed # BondLooper)
  /\ running' = [looper \in Looper |-> looper \notin BondLooper /\ running[looper]]
  /\ UNCHANGED <<args, main, link, destroyer, deleted, bond, listener, file, flows, guarded>>

(* A detached thread deletes the bond; the function returns.               *)
Detach(reader) ==
  /\ ThreadGoes(reader, "detach", "test")
  /\ destroyer' = [destroyer EXCEPT ![reader] = "sat"]
  /\ UNCHANGED <<args, main, link, running, deleted, bond, listener, file, flows, guarded, undefined>>

(* WriteHeartBeatPacket uses the sat connection; a heartbeat is left out   *)
(* when there is traffic or a flow is sending.                             *)
Heartbeat ==
  /\ \E to \in {"beat", "test"} : ThreadGoes("heartbeat", "call", to)
  /\ undefined' = (link["sat"] \in {"null", "deleted"})
  /\ UNCHANGED <<args, main, link, running, destroyer, deleted, bond, listener, file, flows, guarded>>

BeatSent ==
  /\ CanSend("sat")
  /\ ThreadGoes("heartbeat", "beat", "test")
  /\ UNCHANGED <<args, main, link, running, destroyer, deleted, bond, listener, file, flows, guarded, undefined>>

(* SendToTer and SendToSat redirect to each other what should go on a link *)
(* that is not enabled: without any link they never return.                *)
SendsNowhere ==
  ~args.ter /\ ~args.sat

(* Proxy::Accept waits at the listener; one that is deleted meanwhile      *)
(* leaves it waiting.                                                      *)
BeginAccept ==
  /\ ThreadGoes("accept", "call", "inside")
  /\ undefined' = (listener = "deleted")
  /\ UNCHANGED <<args, main, link, running, destroyer, deleted, bond, listener, file, flows, guarded>>

(* A connection of an endpoint becomes a flow, which sends; or it throws.  *)
Accept ==
  /\ ThreadGoes("accept", "inside", "test")
  /\ flows' \in {flows, TRUE}
  /\ undefined' = (flows' /\ SendsNowhere)
  /\ UNCHANGED <<args, main, link, running, destroyer, deleted, bond, listener, file, guarded>>

(* The flows end.  What the metrics make of that: see Descriptors.         *)
FlowsEnd ==
  /\ flows
  /\ flows' = FALSE
  /\ UNCHANGED <<args, main, link, thread, running, destroyer, deleted, bond, listener, file,
                 guarded, undefined>>

----------------------------------------------------------------------------
(* WriteMetricsToDisk, as soon as it gets the context: a row for each      *)
(* connection; without connections it only sleeps.                         *)
BeginSample ==
  /\ ~guarded
  /\ IF flows \/ \E path \in Path : link[path] \notin {"null", "deleted"}
     THEN ThreadGoes("metrics", "call", "row") ELSE ThreadGoes("metrics", "call", "test")
  /\ UNCHANGED <<args, main, link, running, destroyer, deleted, bond, listener, file, flows, guarded, undefined>>

(* The rows are written: to a file and about connections that are there, or  *)
(* undefined.                                                              *)
WriteRow ==
  /\ ThreadGoes("metrics", "row", "test")
  /\ undefined' = (file = "deleted" \/ \E path \in Path : link[path] = "deleted")
  /\ UNCHANGED <<args, main, link, running, destroyer, deleted, bond, listener, file, flows, guarded>>

(* The other site ends a link, or the link breaks; a connection that both  *)
(* sides shut down is closed after a while.                                *)
LinkEnds(path) ==
  /\ \/ link[path] = "up" /\ link' = [link EXCEPT ![path] = "fin"]
     \/ link[path] \in {"up", "fin"} /\ link' = [link EXCEPT ![path] = "reset"]
     \/ link[path] = "shut" /\ link' = [link EXCEPT ![path] = "closed"]
  /\ UNCHANGED <<args, main, thread, running, destroyer, deleted, bond, listener, file, flows, guarded, undefined>>

----------------------------------------------------------------------------
MainStep ==
  \/ ParseArgs \/ MakeContext \/ WriteHeader
  \/ OpenLink("ter", "sat") \/ OpenLink("sat", "bond") \/ MakeBond \/ MakeProxy
  \/ DestroyNext("main") \/ FreeBond("main") \/ DeleteLinks
  \/ DestroyContext \/ JoinLooper
ReaderStep(reader) ==
  \/ TestRunning(reader) \/ HandOver(reader)
  \/ Shutdown(reader, "ter", "sat") \/ Shutdown(reader, "sat", "stop")
  \/ StopLoopers(reader) \/ Detach(reader)
DeleterStep(reader) == DestroyNext(reader) \/ FreeBond(reader)
(* What waits for the other site.                                          *)
NetworkStep ==
  \/ \E reader \in Reader : ReadPart(reader) \/ AnswerSent(reader)
  \/ BeatSent
HeartbeatStep == TestRunning("heartbeat") \/ Heartbeat
AcceptStep == TestRunning("accept") \/ BeginAccept
MetricsStep == TestRunning("metrics") \/ BeginSample \/ WriteRow

(* A site that exited, or is lost, takes no more steps.                    *)
Goes == ~undefined /\ main \notin {"exited", "terminated"}

Next ==
  \/ Goes /\ MainStep
  \/ Goes /\ KeyPressed
  \/ \E reader \in Reader : Goes /\ (ReaderStep(reader) \/ SocketClosed(reader) \/ DeleterStep(reader))
  \/ Goes /\ HeartbeatStep
  \/ Goes /\ (AcceptStep \/ Accept)
  \/ Goes /\ MetricsStep
  \/ \E path \in Path : Goes /\ LinkEnds(path)
  \/ Goes /\ FlowsEnd
  \/ Goes /\ NetworkStep

Spec == Init /\ [][Next]_vars

(* Every thread is scheduled; keys, endpoints, packets and links do what   *)
(* they like.  A link that ended has finitely many bytes left, so a reader *)
(* that comes to the start of a part again and again finds it closed.      *)
FairSpec ==
  /\ Spec
  /\ WF_vars(Goes /\ MainStep)
  /\ \A reader \in Reader :
       /\ WF_vars(Goes /\ ReaderStep(reader)) /\ SF_vars(Goes /\ SocketClosed(reader))
       /\ WF_vars(Goes /\ DeleterStep(reader))
  /\ WF_vars(Goes /\ HeartbeatStep)
  /\ WF_vars(Goes /\ MetricsStep)
  /\ WF_vars(Goes /\ AcceptStep)

----------------------------------------------------------------------------
(* The types of the threads and of what they own.                          *)
TypeOK ==
  /\ main \in {"args", "context", "header", "ter", "sat", "bond", "proxy", "wait", "accept",
               "destroyBond", "deleteLinks", "return", "metrics", "exited", "terminated"}
  /\ link \in [Path -> {"null", "up", "fin", "reset", "shut", "closed", "deleted"}]
  /\ thread \in [Looper -> {"none", "test", "call", "inside", "lock", "answer", "beat",
                        "ter", "sat", "stop", "detach", "row", "ended"}]
  /\ running \in [Looper -> BOOLEAN]
  /\ destroyer \in [Reader \cup {"main"} -> {"none", "sat", "heartbeat", "ter", "free", "over"}]
  /\ deleted \subseteq Constructed
  /\ bond \in {"none", "alive", "freed"} /\ listener \in {"none", "open", "deleted"}
  /\ file \in {"none", "opened", "headed", "deleted"}
  /\ flows \in BOOLEAN /\ guarded \in BOOLEAN /\ undefined \in BOOLEAN

(* Whatever is enabled, a site starts and runs as long as its links do: no *)
(* looper uses a link, a looper or a file that is not there (Bond.cpp:28,  *)
(* 300; main.cpp:29).  The one exception is a site without any link.       *)
RunsWhileLinksDo ==
  undefined => \/ SendsNowhere
               \/ \E path \in Path : Enabled(path) /\ link[path] # "up"
               \/ main \notin {"context", "header", "ter", "sat", "bond", "proxy", "wait"}

(* Who frees the bond has joined every looper that uses it, though two     *)
(* readers and main may each run ~Bond (Bond.cpp:72, 117, 219), and main   *)
(* does not return while a thread still runs (Looper.h:54).                *)
LoopersEndFirst ==
  /\ bond = "freed" => \A looper \in Constructed : thread[looper] = "ended"
  /\ main = "exited" => \A looper \in Looper : thread[looper] \in {"none", "ended"}

(* The looper of the metrics starts before the names of the columns are    *)
(* written (Metrics.cpp:18), and is stopped after the file was deleted     *)
(* (:64).  No row comes before the names, since its thread waits for the   *)
(* context; and no sample begins once the file is gone, since there is no  *)
(* connection left, unless it belongs to a flow.  A sample that began      *)
(* earlier may still write to the deleted file.                            *)
SamplesBeginInBetween ==
  /\ [](thread["metrics"] = "row" => file # "opened")
  /\ [][thread["metrics"] # "row" /\ thread'["metrics"] = "row"
         => file = "headed" \/ (file = "deleted" /\ flows)]_vars

(* A link that the other site closes takes the readers of both links down: *)
(* Shutdown wakes the other one (Bond.cpp:67).  The exceptions are a link  *)
(* that breaks, one that ended in the middle of a part (Bond.cpp:55, 99,   *)
(* 133), and answers: one that no link accepts is tried for ever (:267),   *)
(* and the other reader waits for the mutex meanwhile (:184, 208).         *)
ClosedLinkEndsReaders ==
  \/ \E reader \in Reader : <>[](thread[reader] = "inside" /\ link[PathOf(reader)] # "up")
  \/ []<>(\E reader \in Reader : thread[reader] = "answer")
  \/ \A path \in Path :
       (bond = "alive" /\ link[path] = "fin") ~>
         \/ \A reader \in Reader : thread[reader] = "ended"
         \/ \E other \in Path : link[other] \in {"reset", "deleted"}
         \/ ~Goes

----------------------------------------------------------------------------
(* "exit when key pressed" (main.cpp:86), on a local site with both links. *)
KeyExits ==
  (main = "accept" /\ args.ter /\ args.sat) ~> (main = "exited" \/ undefined)
=============================================================================
