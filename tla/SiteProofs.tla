----------------------------- MODULE SiteProofs -----------------------------
(***************************************************************************)
(* Proofs about Site: for whatever command line it was started with, what  *)
(* has ended, or is still there, when main, a reader or one of the threads *)
(* that run ~Bond gets somewhere.                                          *)
(***************************************************************************)
EXTENDS Site, TLAPS

ArgsOK ==
  args \in [remote : BOOLEAN, ter : BOOLEAN, sat : BOOLEAN, heartbeat : BOOLEAN,
            metrics : BOOLEAN]

(* Where main stands before there is a bond, and while the site runs.      *)
Early == {"args", "context", "header", "ter", "sat", "bond"}
Up    == Early \cup {"proxy", "wait"}
Late  == {"return", "metrics", "exited"}

Gone(looper) == thread[looper] \in {"none", "ended"}

(* Nothing of the bond is there before the bond.                           *)
EarlyInv ==
  main \in Early => /\ bond = "none" /\ deleted = {}
                    /\ \A looper \in BondLooper : thread[looper] = "none"
                    /\ \A who \in Reader \cup {"main"} : destroyer[who] = "none"

(* Only what was constructed runs.                                         *)
NeverRuns ==
  /\ \A looper \in BondLooper \ Constructed : thread[looper] = "none"
  /\ args.remote => main \notin {"proxy", "accept"} /\ thread["accept"] = "none"
  /\ ~args.metrics \/ main \in {"args", "context"} => thread["metrics"] = "none"

(* A looper is deleted after its thread ended, by whoever gets to it first;*)
(* nobody gets past one that was not deleted.                              *)
DeletedInv ==
  /\ \A looper \in deleted : thread[looper] = "ended"
  /\ \A who \in Reader \cup {"main"} :
       /\ destroyer[who] \in {"heartbeat", "ter", "free", "over"} /\ "readSat" \in Constructed =>
            "readSat" \in deleted
       /\ destroyer[who] \in {"ter", "free", "over"} /\ "heartbeat" \in Constructed =>
            "heartbeat" \in deleted
       /\ destroyer[who] \in {"free", "over"} /\ "readTer" \in Constructed =>
            "readTer" \in deleted
  /\ bond = "freed" => Constructed \subseteq deleted

(* How far main is, and which threads it has joined by then.               *)
JoinedInv ==
  /\ main \notin {"wait", "accept"} => Gone("accept")
  /\ main \in Late \cup {"deleteLinks"} => \A looper \in BondLooper : Gone(looper)
  /\ main = "exited" => Gone("metrics")

(* A reader that takes the bond down has found its link ended.             *)
ReaderInv ==
  \A reader \in Reader :
    thread[reader] \in {"ter", "sat", "stop", "detach"} \/ destroyer[reader] # "none" =>
      reader \in Constructed /\ link[PathOf(reader)] # "up"

(* Main takes down nothing while the site is up.                           *)
UpInv ==
  main \in Up => /\ destroyer["main"] = "none"
                 /\ listener # "deleted"
                 /\ file # "deleted"
                 /\ \A path \in Path : link[path] # "deleted"

(* The links are there or not, and so is the file.                         *)
OwnInv ==
  /\ main \in Late => \A path \in Path : link[path] \in {"null", "deleted"}
  /\ main = "args" => \A path \in Path : link[path] = "null"
  /\ main \notin Late => file # "deleted"
  /\ file = "opened" => guarded
  /\ file = "none" => thread["metrics"] = "none"
  /\ file = "opened" => thread["metrics"] # "row"

IndInv ==
  /\ TypeOK /\ ArgsOK /\ EarlyInv /\ NeverRuns /\ DeletedInv /\ JoinedInv
  /\ ReaderInv /\ UpInv /\ OwnInv /\ RunsWhileLinksDo
----------------------------------------------------------------------------
(* What the steps have in common.                                          *)

(* The bond makes the loopers of the command line, which does not change.  *)
LEMMA ConstructedIs ==
  ASSUME ArgsOK
  PROVE  /\ Constructed \subseteq BondLooper
         /\ "readTer" \in Constructed <=> args.ter
         /\ "readSat" \in Constructed <=> args.sat
         /\ "heartbeat" \in Constructed <=> args.sat /\ args.heartbeat
  BY DEF Constructed, BondLooper, Reader, ArgsOK

LEMMA ArgsStay ==
  ASSUME [Next]_vars
  PROVE  args' = args /\ Constructed' = Constructed
<1>1. args' = args
  BY DEF Next, MainStep, ReaderStep, DeleterStep, HeartbeatStep, MetricsStep, ParseArgs,
     MakeContext, WriteHeader, OpenLink, MakeBond, MakeProxy, DestroyNext, FreeBond, DeleteLinks,
     DestroyContext, JoinLooper, KeyPressed, TestRunning, SocketClosed, Shutdown, StopLoopers,
     Detach, NetworkStep, ReadPart, HandOver, AnswerSent, BeatSent, AcceptStep, BeginAccept,
     Heartbeat, Accept, FlowsEnd, BeginSample, WriteRow, LinkEnds, vars
<1> QED
  BY <1>1 DEF Constructed

(* The step of ~Bond at one looper.                                        *)
LEMMA DestroyNextDoes ==
  ASSUME TypeOK, NEW who \in Reader \cup {"main"}, DestroyNext(who)
  PROVE  LET position == destroyer[who]
             looper   == LooperAt(position)
         IN  /\ \/ position = "sat" /\ looper = "readSat" /\ destroyer'[who] = "heartbeat"
                \/ position = "heartbeat" /\ looper = "heartbeat" /\ destroyer'[who] = "ter"
                \/ position = "ter" /\ looper = "readTer" /\ destroyer'[who] = "free"
             /\ destroyer' \in [Reader \cup {"main"} -> {"none", "sat", "heartbeat", "ter", "free", "over"}]
             /\ \A other \in Reader \cup {"main"} : other # who => destroyer'[other] = destroyer[other]
             /\ \/ looper \notin Constructed /\ deleted' = deleted /\ undefined' = undefined
                \/ looper \in deleted /\ deleted' = deleted /\ undefined' = TRUE
                \/ /\ looper \in Constructed /\ thread[looper] = "ended"
                   /\ deleted' = deleted \cup {looper} /\ undefined' = undefined
<1> DEFINE position == destroyer[who]
           looper   == LooperAt(position)
<1>1. position \in {"sat", "heartbeat", "ter"} /\ destroyer' = [destroyer EXCEPT ![who] = After(position)]
  BY DEF DestroyNext
<1>2. \/ position = "sat" /\ looper = "readSat" /\ After(position) = "heartbeat"
      \/ position = "heartbeat" /\ looper = "heartbeat" /\ After(position) = "ter"
      \/ position = "ter" /\ looper = "readTer" /\ After(position) = "free"
  BY <1>1 DEF LooperAt, After
<1>3. \/ looper \notin Constructed /\ deleted' = deleted /\ undefined' = undefined
      \/ looper \in deleted /\ deleted' = deleted /\ undefined' = TRUE
      \/ /\ looper \in Constructed /\ thread[looper] = "ended"
         /\ deleted' = deleted \cup {looper} /\ undefined' = undefined
  BY DEF DestroyNext
<1> QED
  BY <1>1, <1>2, <1>3 DEF TypeOK

LEMMA TypeStep ==
  ASSUME TypeOK, ArgsOK, Next
  PROVE  TypeOK'
<1> USE ArgsStay DEF TypeOK, ArgsOK, Path, Reader, BondLooper, Looper, MainGoes, ThreadGoes, Started
<1>1. ASSUME ParseArgs PROVE TypeOK'
  BY <1>1 DEF ParseArgs
<1>2. ASSUME MakeContext PROVE TypeOK'
  BY <1>2 DEF MakeContext
<1>3. ASSUME WriteHeader PROVE TypeOK'
  BY <1>3 DEF WriteHeader
<1>4. ASSUME OpenLink("ter", "sat") PROVE TypeOK'
  BY <1>4 DEF OpenLink
<1>5. ASSUME OpenLink("sat", "bond") PROVE TypeOK'
  BY <1>5 DEF OpenLink
<1>6. ASSUME MakeBond PROVE TypeOK'
  BY <1>6 DEF MakeBond
<1>7. ASSUME MakeProxy PROVE TypeOK'
  <2>1. /\ main' \in {"wait", "destroyBond", "terminated"} /\ listener' \in {"none", "open", "deleted"}
        /\ destroyer' = destroyer \/ destroyer' = [destroyer EXCEPT !["main"] = "sat"]
    BY <1>7 DEF MakeProxy
  <2>2. Started({"accept"}) \/ (thread' = thread /\ running' = running)
    BY <1>7 DEF MakeProxy
  <2>3. /\ thread' \in [Looper -> {"none", "test", "call", "inside", "lock", "answer", "beat",
                              "ter", "sat", "stop", "detach", "row", "ended"}]
        /\ running' \in [Looper -> BOOLEAN]
    <3>1. CASE Started({"accept"})
      BY <3>1
    <3>2. CASE thread' = thread /\ running' = running
      BY <3>2
    <3> QED
      BY <2>2, <3>1, <3>2
  <2>4. destroyer' \in [Reader \cup {"main"} -> {"none", "sat", "heartbeat", "ter", "free", "over"}]
    BY <2>1
  <2>5. UNCHANGED <<args, link, deleted, bond, file, flows, guarded, undefined>>
    BY <1>7 DEF MakeProxy
  <2> QED
    BY <2>1, <2>3, <2>4, <2>5
<1>8. ASSUME DeleteLinks PROVE TypeOK'
  BY <1>8 DEF DeleteLinks
<1>9. ASSUME DestroyContext PROVE TypeOK'
  BY <1>9 DEF DestroyContext, DestroyMetrics
<1>10. ASSUME JoinLooper PROVE TypeOK'
  BY <1>10 DEF JoinLooper
<1>11. ASSUME KeyPressed PROVE TypeOK'
  BY <1>11 DEF KeyPressed
<1>12. ASSUME Heartbeat PROVE TypeOK'
  BY <1>12 DEF Heartbeat
<1>13. ASSUME BeginAccept \/ Accept PROVE TypeOK'
  <2>1. CASE BeginAccept
    BY <2>1 DEF BeginAccept
  <2>2. CASE Accept
    <3>1. flows' \in BOOLEAN
      BY <2>2 DEF Accept
    <3>2. undefined' \in BOOLEAN
      BY <2>2, <3>1, Zenon DEF Accept, SendsNowhere
    <3>3. thread' = [thread EXCEPT !["accept"] = "test"]
      BY <2>2 DEF Accept
    <3>4. UNCHANGED <<args, main, link, running, destroyer, deleted, bond, listener, file, guarded>>
      BY <2>2 DEF Accept
    <3> QED
      BY <3>1, <3>2, <3>3, <3>4
  <2> QED
    BY <1>13, <2>1, <2>2
<1>14. ASSUME BeginSample PROVE TypeOK'
  BY <1>14 DEF BeginSample
<1>15. ASSUME WriteRow PROVE TypeOK'
  BY <1>15 DEF WriteRow
<1>16. ASSUME FlowsEnd PROVE TypeOK'
  <2>1. flows' \in BOOLEAN
    BY <1>16 DEF FlowsEnd
  <2>2. UNCHANGED <<args, main, link, thread, running, destroyer, deleted, bond, listener, file,
                    guarded, undefined>>
    BY <1>16 DEF FlowsEnd
  <2> QED
    BY <2>1, <2>2
<1>17. ASSUME NEW looper \in Looper, TestRunning(looper) PROVE TypeOK'
  BY <1>17 DEF TestRunning
<1>18. ASSUME NEW reader \in Reader, SocketClosed(reader) PROVE TypeOK'
  BY <1>18 DEF SocketClosed
<1>19. ASSUME NEW reader \in Reader, NEW path \in Path, NEW next \in {"sat", "stop"},
              Shutdown(reader, path, next)
       PROVE  TypeOK'
  <2>1. undefined' \in BOOLEAN
    BY <1>19 DEF Shutdown
  <2>2. link' = link \/ link' = [link EXCEPT ![path] = "shut"]
    BY <1>19 DEF Shutdown
  <2>3. \/ thread' = thread \/ thread' = [thread EXCEPT ![reader] = "test"]
        \/ thread' = [thread EXCEPT ![reader] = next]
    BY <1>19 DEF Shutdown
  <2> QED
    BY <1>19, <2>1, <2>2, <2>3 DEF Shutdown
<1>20. ASSUME NEW reader \in Reader, StopLoopers(reader) PROVE TypeOK'
  BY <1>20 DEF StopLoopers
<1>21. ASSUME NEW reader \in Reader, Detach(reader) PROVE TypeOK'
  BY <1>21 DEF Detach
<1>22. ASSUME NEW reader \in Reader, ReadPart(reader) \/ HandOver(reader) \/ AnswerSent(reader)
       PROVE  TypeOK'
  <2>1. /\ \E to \in {"inside", "call", "test", "lock", "answer"} : thread' = [thread EXCEPT ![reader] = to]
        /\ flows' \in BOOLEAN
    BY <1>22 DEF ReadPart, HandOver, AnswerSent
  <2>2. UNCHANGED <<args, main, link, running, destroyer, deleted, bond, listener, file, guarded, undefined>>
    BY <1>22 DEF ReadPart, HandOver, AnswerSent
  <2> QED
    BY <2>1, <2>2
<1>23. ASSUME NEW path \in Path, LinkEnds(path) PROVE TypeOK'
  BY <1>23 DEF LinkEnds
<1>24. ASSUME NEW who \in Reader \cup {"main"}, DestroyNext(who) PROVE TypeOK'
  <2>1. deleted' \subseteq Constructed /\ undefined' \in BOOLEAN
    <3>1. \/ deleted' = deleted /\ undefined' \in {undefined, TRUE}
          \/ \E looper \in Constructed : deleted' = deleted \cup {looper} /\ undefined' = undefined
      BY <1>24, DestroyNextDoes
    <3> QED
      BY <3>1
  <2>2. destroyer' \in [Reader \cup {"main"} -> {"none", "sat", "heartbeat", "ter", "free", "over"}]
    BY <1>24, DestroyNextDoes
  <2> QED
    BY <1>24, <2>1, <2>2 DEF DestroyNext
<1>25. ASSUME NEW who \in Reader \cup {"main"}, FreeBond(who) PROVE TypeOK'
  BY <1>25 DEF FreeBond
<1>26. ASSUME BeatSent PROVE TypeOK'
  BY <1>26 DEF BeatSent
<1> QED
  BY <1>1, <1>2, <1>3, <1>4, <1>5, <1>6, <1>7, <1>8, <1>9, <1>10, <1>11, <1>12, <1>13, <1>14, <1>15,
     <1>16, <1>17, <1>18, <1>19, <1>20, <1>21, <1>22, <1>23, <1>24, <1>25, <1>26
     DEF Next, MainStep, ReaderStep, DeleterStep, HeartbeatStep, AcceptStep, MetricsStep, NetworkStep
----------------------------------------------------------------------------
(* What a step does to main, a thread, a link and a destroyer.             *)

LEMMA MainChanges ==
  ASSUME TypeOK, ArgsOK, Next
  PROVE  \/ main' = main
         \/ main = "args" /\ main' \in {"context", "exited"} /\ link' = link
         \/ main = "context" /\ main' \in {"header", "ter"}
         \/ main = "header" /\ main' = "ter"
         \/ main = "ter" /\ main' \in {"sat", "deleteLinks"}
         \/ main = "sat" /\ main' \in {"bond", "deleteLinks"}
         \/ main = "bond" /\ main' = IF args.remote THEN "wait" ELSE "proxy"
         \/ main = "proxy" /\ main' \in {"wait", "destroyBond", "terminated"}
         \/ main = "wait" /\ main' = IF args.remote THEN "destroyBond" ELSE "accept"
         \/ main = "accept" /\ main' = "destroyBond" /\ thread["accept"] = "ended"
         \/ main = "destroyBond" /\ main' = "deleteLinks" /\ destroyer["main"] = "free"
         \/ main = "deleteLinks" /\ main' = "return" /\ DeleteLinks
         \/ main = "return" /\ main' = IF args.metrics THEN "metrics" ELSE "exited"
         \/ main = "metrics" /\ main' = "exited" /\ thread["metrics"] = "ended"
<1>1. CASE MainStep \/ KeyPressed
  BY <1>1 DEF MainStep, MainGoes, ParseArgs, MakeContext, WriteHeader, OpenLink, MakeBond, MakeProxy,
     DestroyNext, FreeBond, DeleteLinks, DestroyContext, JoinLooper, KeyPressed
<1>2. CASE ~MainStep /\ ~KeyPressed
  BY <1>2 DEF Next, ReaderStep, DeleterStep, HeartbeatStep, MetricsStep, TestRunning, SocketClosed,
     Shutdown, StopLoopers, Detach, NetworkStep, ReadPart, HandOver, AnswerSent, BeatSent,
     AcceptStep, BeginAccept, DestroyNext, FreeBond, Heartbeat, Accept, FlowsEnd, BeginSample,
     WriteRow, LinkEnds, Reader
<1> QED
  BY <1>1, <1>2

(* A thread is started by main and moves by itself; to the positions of    *)
(* the end only a reader gets whose link ended.                            *)
LEMMA ThreadChanges ==
  ASSUME TypeOK, ArgsOK, Next, NEW looper \in Looper
  PROVE  \/ thread'[looper] = thread[looper]
         \/ /\ thread'[looper] = "test"
            /\ \/ looper = "metrics" /\ main = "context" /\ args.metrics /\ main' = "header" /\ file' = "opened"
               \/ looper \in Constructed /\ main = "bond" /\ main' \in {"wait", "proxy"}
               \/ looper = "accept" /\ main = "proxy" /\ main' = "wait"
         \/ /\ thread[looper] \notin {"none", "ended"} /\ thread'[looper] # "none"
            /\ thread'[looper] = "row" => BeginSample
            /\ thread'[looper] \in {"ter", "sat", "stop", "detach"} =>
                 /\ looper \in Reader
                 /\ thread[looper] \in {"ter", "sat", "stop", "detach"} \/ link[PathOf(looper)] # "up"
<1> DEFINE Ending == {"ter", "sat", "stop", "detach"}
           Stays  == thread'[looper] = thread[looper]
           Starts == /\ thread'[looper] = "test"
                     /\ \/ looper = "metrics" /\ main = "context" /\ args.metrics /\ main' = "header" /\ file' = "opened"
                        \/ looper \in Constructed /\ main = "bond" /\ main' \in {"wait", "proxy"}
                        \/ looper = "accept" /\ main = "proxy" /\ main' = "wait"
           Runs   == /\ thread[looper] \notin {"none", "ended"} /\ thread'[looper] # "none"
                     /\ thread'[looper] = "row" => BeginSample
                     /\ thread'[looper] \in Ending =>
                          /\ looper \in Reader
                          /\ thread[looper] \in Ending \/ link[PathOf(looper)] # "up"
<1>1. CASE MakeContext
  BY <1>1 DEF MakeContext, MainGoes, Started, TypeOK, ArgsOK
<1>2. CASE MakeBond
  BY <1>2 DEF MakeBond, MainGoes, Started
<1>3. CASE MakeProxy
  BY <1>3 DEF MakeProxy, MainGoes, Started
<1>4. ASSUME NEW other \in Looper, NEW from, NEW to, ThreadGoes(other, from, to),
             from \notin {"none", "ended"}, to # "none", to = "row" => BeginSample,
             to \in Ending => /\ other \in Reader
                              /\ from \in Ending \/ link[PathOf(other)] # "up"
      PROVE  Stays \/ Runs
  <2>1. CASE other = looper
    <3>1. thread[looper] = from /\ thread'[looper] = to
      BY <1>4, <2>1 DEF ThreadGoes, TypeOK
    <3>2. thread'[looper] \in Ending => /\ looper \in Reader
                                        /\ thread[looper] \in Ending \/ link[PathOf(looper)] # "up"
      BY <1>4, <2>1, <3>1
    <3>3. /\ thread[looper] \notin {"none", "ended"} /\ thread'[looper] # "none"
          /\ thread'[looper] = "row" => BeginSample
      BY <1>4, <3>1
    <3> QED
      BY <3>2, <3>3
  <2>2. CASE other # looper
    BY <1>4, <2>2 DEF ThreadGoes, TypeOK
  <2> QED
    BY <2>1, <2>2
<1>5. ASSUME NEW reader \in Reader,
             \/ ReaderStep(reader) \/ SocketClosed(reader) \/ DeleterStep(reader)
             \/ ReadPart(reader) \/ AnswerSent(reader)
      PROVE  Stays \/ Runs
  <2>1. reader \in Looper
    BY DEF Looper, BondLooper
  <2>2. CASE ReadPart(reader)
    <3>1. PICK from \in {"call", "inside"}, to \in {"inside", "call", "test", "lock"} :
            ThreadGoes(reader, from, to)
      BY <2>2 DEF ReadPart
    <3> QED
      BY <1>4, <2>1, <3>1
  <2>3. CASE HandOver(reader) \/ AnswerSent(reader) \/ SocketClosed(reader)
    BY <1>4, <2>1, <2>3 DEF HandOver, AnswerSent, SocketClosed
  <2> QED
    BY <1>4, <1>5, <2>1, <2>2, <2>3 DEF ReaderStep, DeleterStep, TestRunning, Shutdown, StopLoopers,
       Detach, DestroyNext, FreeBond
<1>6. CASE HeartbeatStep \/ BeatSent \/ MetricsStep \/ AcceptStep \/ Accept
  <2>1. {"heartbeat", "metrics", "accept"} \subseteq Looper
    BY DEF Looper, BondLooper
  <2>2. CASE HeartbeatStep \/ BeatSent
    <3>1. CASE Heartbeat
      <4>1. PICK to \in {"beat", "test"} : ThreadGoes("heartbeat", "call", to)
        BY <3>1 DEF Heartbeat
      <4> QED
        BY <1>4, <2>1, <4>1
    <3> QED
      BY <1>4, <2>1, <2>2, <3>1 DEF HeartbeatStep, BeatSent, TestRunning
  <2>3. CASE MetricsStep
    BY <1>4, <2>1, <2>3 DEF MetricsStep, TestRunning, BeginSample, WriteRow
  <2>4. CASE AcceptStep
    BY <1>4, <2>1, <2>4 DEF AcceptStep, TestRunning, BeginAccept
  <2>5. CASE Accept
    <3>1. ThreadGoes("accept", "inside", "test")
      BY <2>5 DEF Accept
    <3> QED
      BY <1>4, <2>1, <3>1
  <2> QED
    BY <1>6, <2>2, <2>3, <2>4, <2>5
<1>7. CASE thread' = thread
  BY <1>7
<1> QED
  BY <1>1, <1>2, <1>3, <1>5, <1>6, <1>7 DEF Next, MainStep, ParseArgs, WriteHeader, OpenLink,
     DestroyNext, FreeBond, DeleteLinks, DestroyContext, JoinLooper, KeyPressed, LinkEnds, FlowsEnd,
     NetworkStep

LEMMA LinkChanges ==
  ASSUME TypeOK, ArgsOK, Next, NEW path \in Path
  PROVE  \/ link'[path] = link[path]
         \/ link'[path] = "up" /\ main \in {"ter", "sat"}
         \/ link[path] \notin {"null", "deleted"} /\ link'[path] \notin {"null", "up", "deleted"}
         \/ DeleteLinks
<1> USE DEF TypeOK, Path
<1>1. CASE OpenLink("ter", "sat") \/ OpenLink("sat", "bond")
  BY <1>1 DEF OpenLink, MainGoes
<1>2. ASSUME NEW reader \in Reader, NEW p \in Path, NEW next, Shutdown(reader, p, next)
      PROVE  \/ link'[path] = link[path]
             \/ link[path] \notin {"null", "deleted"} /\ link'[path] \notin {"null", "up", "deleted"}
  BY <1>2 DEF Shutdown
<1>3. CASE \E p \in Path : LinkEnds(p)
  BY <1>3 DEF LinkEnds
<1>4. CASE link' = link
  BY <1>4
<1> QED
  BY <1>1, <1>2, <1>3, <1>4 DEF Next, MainStep, ReaderStep, DeleterStep, HeartbeatStep, MetricsStep,
     ParseArgs, MakeContext, WriteHeader, MakeBond, MakeProxy, DestroyNext, FreeBond,
     DestroyContext, JoinLooper, KeyPressed, TestRunning, SocketClosed, StopLoopers, Detach,
     NetworkStep, ReadPart, HandOver, AnswerSent, BeatSent, AcceptStep, BeginAccept, Heartbeat,
     Accept, FlowsEnd, BeginSample, WriteRow

LEMMA DestroyerChanges ==
  ASSUME TypeOK, ArgsOK, Next, NEW who \in Reader \cup {"main"}
  PROVE  \/ destroyer'[who] = destroyer[who]
         \/ destroyer'[who] = "sat" /\ who = "main" /\ main \in {"proxy", "wait", "accept"} /\ main' = "destroyBond"
         \/ destroyer'[who] = "sat" /\ who \in Reader /\ thread[who] = "detach"
         \/ DestroyNext(who)
         \/ destroyer[who] = "free" /\ destroyer'[who] = "over"
<1> USE DEF TypeOK, Reader
<1>1. CASE MakeProxy \/ KeyPressed
  BY <1>1 DEF MakeProxy, KeyPressed, MainGoes
<1>2. CASE JoinLooper
  BY <1>2 DEF JoinLooper
<1>3. ASSUME NEW reader \in Reader, Detach(reader)
      PROVE  \/ destroyer'[who] = destroyer[who]
             \/ destroyer'[who] = "sat" /\ who \in Reader /\ thread[who] = "detach"
  BY <1>3 DEF Detach, ThreadGoes
<1>4. ASSUME NEW other \in Reader \cup {"main"}, FreeBond(other)
      PROVE  \/ destroyer'[who] = destroyer[who]
             \/ destroyer[who] = "free" /\ destroyer'[who] = "over"
  BY <1>4 DEF FreeBond
<1>5. ASSUME NEW other \in Reader \cup {"main"}, DestroyNext(other)
      PROVE  destroyer'[who] = destroyer[who] \/ DestroyNext(who)
  BY <1>5, DestroyNextDoes
<1>6. CASE destroyer' = destroyer
  BY <1>6
<1> QED
  BY <1>1, <1>2, <1>3, <1>4, <1>5, <1>6 DEF Next, MainStep, ReaderStep, DeleterStep, HeartbeatStep,
     MetricsStep, ParseArgs, MakeContext, WriteHeader, OpenLink, MakeBond, DeleteLinks,
     DestroyContext, TestRunning, SocketClosed, Shutdown, StopLoopers, NetworkStep, ReadPart,
     HandOver, AnswerSent, BeatSent, AcceptStep, BeginAccept, Heartbeat, Accept, FlowsEnd,
     BeginSample, WriteRow, LinkEnds

----------------------------------------------------------------------------
(* The invariants, each with what its step needs.                          *)

LEMMA EarlyStep ==
  ASSUME TypeOK, ArgsOK, EarlyInv, ReaderInv, NeverRuns, Next
  PROVE  EarlyInv'
<1> SUFFICES ASSUME main' \in Early
             PROVE  /\ bond' = "none" /\ deleted' = {}
                    /\ \A looper \in BondLooper : thread'[looper] = "none"
                    /\ \A who \in Reader \cup {"main"} : destroyer'[who] = "none"
  BY DEF EarlyInv
<1>1. main \in Early
  BY MainChanges DEF Early
<1>2. /\ bond = "none" /\ deleted = {}
      /\ \A looper \in BondLooper : thread[looper] = "none"
      /\ \A who \in Reader \cup {"main"} : destroyer[who] = "none"
  BY <1>1 DEF EarlyInv
<1>3. ASSUME NEW looper \in BondLooper PROVE thread'[looper] = "none"
  BY <1>1, <1>2, ThreadChanges DEF Looper, BondLooper, Reader, Early
<1>4. ASSUME NEW who \in Reader \cup {"main"} PROVE destroyer'[who] = "none"
  BY <1>1, <1>2, DestroyerChanges DEF DestroyNext, BondLooper, Early
<1>5. deleted' = deleted
  BY <1>2 DEF Next, MainStep, ReaderStep, DeleterStep, HeartbeatStep, MetricsStep, ParseArgs,
     MakeContext, WriteHeader, OpenLink, MakeBond, MakeProxy, DestroyNext, FreeBond, DeleteLinks,
     DestroyContext, JoinLooper, KeyPressed, TestRunning, SocketClosed, Shutdown, StopLoopers,
     Detach, NetworkStep, ReadPart, HandOver, AnswerSent, BeatSent, AcceptStep, BeginAccept,
     Heartbeat, Accept, FlowsEnd, BeginSample, WriteRow, LinkEnds
<1>6. bond' = bond
  BY <1>2 DEF Early, Next, MainStep, ReaderStep, DeleterStep, HeartbeatStep, MetricsStep, ParseArgs,
     MakeContext, WriteHeader, OpenLink, MakeBond, MakeProxy, DestroyNext, FreeBond, DeleteLinks,
     DestroyContext, JoinLooper, KeyPressed, TestRunning, SocketClosed, Shutdown, StopLoopers,
     Detach, NetworkStep, ReadPart, HandOver, AnswerSent, BeatSent, AcceptStep, BeginAccept,
     Heartbeat, Accept, FlowsEnd, BeginSample, WriteRow, LinkEnds, MainGoes
<1> QED
  BY <1>2, <1>3, <1>4, <1>5, <1>6

LEMMA NeverRunsStep ==
  ASSUME TypeOK, ArgsOK, NeverRuns, Next
  PROVE  NeverRuns'
<1>1. args' = args /\ Constructed' = Constructed
  BY ArgsStay
<1>2. ASSUME NEW looper \in BondLooper \ Constructed PROVE thread'[looper] = "none"
  BY <1>2, ThreadChanges DEF NeverRuns, Looper, BondLooper, Reader
<1>3. ASSUME args.remote PROVE main' \notin {"proxy", "accept"} /\ thread'["accept"] = "none"
  BY <1>3, MainChanges, ThreadChanges, ConstructedIs DEF NeverRuns, Looper, BondLooper, Reader
<1>4. ASSUME ~args.metrics \/ main' \in {"args", "context"} PROVE thread'["metrics"] = "none"
  <2>1. thread["metrics"] = "none"
    BY <1>4, MainChanges DEF NeverRuns
  <2>2. ~args.metrics \/ main # "context" \/ main' = "context"
    BY <1>4, MainChanges
  <2> QED
    BY <1>4, <2>1, <2>2, ThreadChanges, ConstructedIs DEF Looper, BondLooper, Reader
<1> QED
  BY <1>1, <1>2, <1>3, <1>4 DEF NeverRuns

LEMMA ReaderStepKeeps ==
  ASSUME TypeOK, ArgsOK, EarlyInv, NeverRuns, ReaderInv, OwnInv, Next
  PROVE  ReaderInv'
<1> SUFFICES ASSUME NEW reader \in Reader,
                    thread'[reader] \in {"ter", "sat", "stop", "detach"} \/ destroyer'[reader] # "none"
             PROVE  reader \in Constructed /\ link'[PathOf(reader)] # "up"
  BY ArgsStay DEF ReaderInv
<1>1. reader \in BondLooper /\ reader \in Looper /\ PathOf(reader) \in Path
  BY DEF Reader, BondLooper, Looper, PathOf, Path
<1>2. thread[reader] # "none" \/ destroyer[reader] # "none"
  BY <1>1, ThreadChanges, DestroyerChanges DEF DestroyNext, Reader
<1>3. main \notin Early
  BY <1>1, <1>2 DEF EarlyInv
<1>4. ASSUME reader \in Constructed, link[PathOf(reader)] # "up" PROVE link'[PathOf(reader)] # "up"
  BY <1>1, <1>3, <1>4, LinkChanges DEF Early, DeleteLinks
<1>5. CASE destroyer'[reader] # "none"
  <2>1. thread[reader] = "detach" \/ destroyer[reader] # "none"
    BY <1>5, DestroyerChanges DEF DestroyNext, Reader
  <2> QED
    BY <1>4, <2>1 DEF ReaderInv
<1>6. CASE thread'[reader] \in {"ter", "sat", "stop", "detach"}
  <2>1. thread[reader] \in {"ter", "sat", "stop", "detach"} \/
          (thread[reader] # "none" /\ link[PathOf(reader)] # "up")
    BY <1>1, <1>6, ThreadChanges
  <2>2. reader \in Constructed
    BY <1>1, <2>1 DEF NeverRuns
  <2> QED
    BY <1>4, <2>1, <2>2 DEF ReaderInv
<1> QED
  BY <1>5, <1>6

LEMMA DeletedStep ==
  ASSUME TypeOK, ArgsOK, EarlyInv, DeletedInv, Next
  PROVE  DeletedInv'
<1>1. args' = args /\ Constructed' = Constructed /\ Constructed \subseteq BondLooper
  BY ArgsStay, ConstructedIs
<1>2. ASSUME NEW looper \in BondLooper, thread[looper] = "ended", looper \in deleted
      PROVE  thread'[looper] = "ended"
  <2>1. main \notin Early
    BY <1>2 DEF EarlyInv
  <2> QED
    BY <1>2, <2>1, ThreadChanges DEF Early, BondLooper, Looper, Reader
<1>3. \/ deleted' = deleted
      \/ \E who \in Reader \cup {"main"} : DestroyNext(who)
  BY DEF Next, MainStep, ReaderStep, DeleterStep, HeartbeatStep, MetricsStep, ParseArgs,
     MakeContext, WriteHeader, OpenLink, MakeBond, MakeProxy, FreeBond, DeleteLinks, DestroyContext,
     JoinLooper, KeyPressed, TestRunning, SocketClosed, Shutdown, StopLoopers, Detach, NetworkStep,
     ReadPart, HandOver, AnswerSent, BeatSent, AcceptStep, BeginAccept, Heartbeat, Accept, FlowsEnd,
     BeginSample, WriteRow, LinkEnds
<1>4. /\ deleted \subseteq deleted'
      /\ \A looper \in deleted' : looper \in deleted \/ (thread[looper] = "ended" /\ thread' = thread)
  BY <1>3, DestroyNextDoes DEF DestroyNext
<1>5. \A looper \in deleted' : thread'[looper] = "ended"
  BY <1>1, <1>2, <1>4 DEF DeletedInv, TypeOK
<1>6. ASSUME NEW who \in Reader \cup {"main"}
      PROVE  /\ destroyer'[who] \in {"heartbeat", "ter", "free", "over"} /\ "readSat" \in Constructed =>
                  "readSat" \in deleted'
             /\ destroyer'[who] \in {"ter", "free", "over"} /\ "heartbeat" \in Constructed =>
                  "heartbeat" \in deleted'
             /\ destroyer'[who] \in {"free", "over"} /\ "readTer" \in Constructed =>
                  "readTer" \in deleted'
  <2>1. CASE DestroyNext(who)
    BY <1>4, <2>1, DestroyNextDoes DEF DeletedInv
  <2>2. CASE ~DestroyNext(who)
    BY <1>4, <2>2, DestroyerChanges DEF DeletedInv
  <2> QED
    BY <2>1, <2>2
<1>7. bond' = "freed" => Constructed \subseteq deleted'
  <2>1. \/ bond' = bond \/ bond' = "alive"
        \/ \E who \in Reader \cup {"main"} : FreeBond(who)
    BY DEF Next, MainStep, ReaderStep, DeleterStep, HeartbeatStep, MetricsStep, ParseArgs,
       MakeContext, WriteHeader, OpenLink, MakeBond, MakeProxy, DestroyNext, DeleteLinks,
       DestroyContext, JoinLooper, KeyPressed, TestRunning, SocketClosed, Shutdown, StopLoopers,
       Detach, NetworkStep, ReadPart, HandOver, AnswerSent, BeatSent, AcceptStep, BeginAccept,
       Heartbeat, Accept, FlowsEnd, BeginSample, WriteRow, LinkEnds
  <2>2. ASSUME NEW who \in Reader \cup {"main"}, FreeBond(who) PROVE Constructed \subseteq deleted
    BY <1>1, <2>2 DEF FreeBond, DeletedInv, BondLooper, Reader
  <2> QED
    BY <1>4, <2>1, <2>2 DEF DeletedInv
<1> QED
  BY <1>1, <1>5, <1>6, <1>7 DEF DeletedInv

(* A thread that is not there, or ended, is started again by main only.    *)
LEMMA GoneStays ==
  ASSUME TypeOK, ArgsOK, Next, NEW looper \in Looper, Gone(looper),
         ~(looper \in Constructed /\ main = "bond"), ~(looper = "accept" /\ main = "proxy" /\ main' = "wait"),
         ~(looper = "metrics" /\ main = "context")
  PROVE  Gone(looper)'
  BY ThreadChanges DEF Gone

LEMMA JoinedStep ==
  ASSUME TypeOK, ArgsOK, EarlyInv, NeverRuns, DeletedInv, JoinedInv, Next
  PROVE  JoinedInv'
<1>1. Constructed \subseteq BondLooper /\ BondLooper \subseteq Looper
      /\ "accept" \in Looper \ BondLooper /\ "metrics" \in Looper \ BondLooper
  BY ConstructedIs DEF Looper, BondLooper, Reader
<1>2. ASSUME main' \notin {"wait", "accept"} PROVE Gone("accept")'
  <2>1. Gone("accept")
    BY <1>2, MainChanges DEF JoinedInv, NeverRuns, Gone
  <2> QED
    BY <1>1, <1>2, <2>1, GoneStays
<1>3. ASSUME main' \in Late \cup {"deleteLinks"}, NEW looper \in BondLooper PROVE Gone(looper)'
  <2>1. CASE main \in Late \cup {"deleteLinks"}
    BY <1>1, <2>1, GoneStays DEF JoinedInv, Late
  <2>2. CASE main \in Early \ {"bond"}
    BY <1>1, <2>2, GoneStays DEF EarlyInv, Gone, Early
  <2>3. CASE main = "destroyBond"
    <3>1. destroyer["main"] = "free"
      BY <1>3, <2>3, MainChanges DEF Late
    <3>2. Constructed \subseteq deleted
      BY <1>1, <3>1 DEF DeletedInv, BondLooper, Reader
    <3>3. Gone(looper)
      BY <3>2 DEF DeletedInv, NeverRuns, Gone
    <3> QED
      BY <1>1, <2>3, <3>3, GoneStays
  <2> QED
    BY <1>3, <2>1, <2>2, <2>3, MainChanges DEF Early, Late
<1>4. ASSUME main' = "exited" PROVE Gone("metrics")'
  <2>1. CASE main \in {"args", "return", "metrics"}
    <3>1. Gone("metrics")
      BY <1>4, <2>1, MainChanges DEF NeverRuns, Gone
    <3> QED
      BY <1>1, <2>1, <3>1, GoneStays
  <2>2. CASE main = "exited"
    BY <1>1, <2>2, GoneStays DEF JoinedInv
  <2> QED
    BY <1>4, <2>1, <2>2, MainChanges
<1> QED
  BY <1>2, <1>3, <1>4 DEF JoinedInv

LEMMA UpStep ==
  ASSUME TypeOK, ArgsOK, UpInv, Next
  PROVE  UpInv'
<1> SUFFICES ASSUME main' \in Up
             PROVE  /\ destroyer'["main"] = "none" /\ listener' # "deleted" /\ file' # "deleted"
                    /\ \A path \in Path : link'[path] # "deleted"
  BY DEF UpInv
<1>1. main \in Up
  BY MainChanges DEF Up, Early
<1>2. /\ destroyer["main"] = "none" /\ listener # "deleted" /\ file # "deleted"
      /\ \A path \in Path : link[path] # "deleted"
  BY <1>1 DEF UpInv
<1>3. destroyer'["main"] = "none"
  BY <1>2, DestroyerChanges DEF Up, Early, Reader, DestroyNext
<1>4. listener' # "deleted"
  BY <1>2 DEF Up, Early, Next, MainStep, ReaderStep, DeleterStep, HeartbeatStep, MetricsStep,
     ParseArgs, MakeContext, WriteHeader, OpenLink, MakeBond, MakeProxy, DestroyNext, FreeBond,
     DeleteLinks, DestroyContext, JoinLooper, KeyPressed, TestRunning, SocketClosed, Shutdown,
     StopLoopers, Detach, NetworkStep, ReadPart, HandOver, AnswerSent, BeatSent, AcceptStep,
     BeginAccept, Heartbeat, Accept, FlowsEnd, BeginSample, WriteRow, LinkEnds, MainGoes
<1>5. file' # "deleted"
  BY <1>2 DEF Up, Early, Next, MainStep, ReaderStep, DeleterStep, HeartbeatStep, MetricsStep,
     ParseArgs, MakeContext, WriteHeader, OpenLink, MakeBond, MakeProxy, DestroyNext, FreeBond,
     DeleteLinks, DestroyContext, JoinLooper, KeyPressed, TestRunning, SocketClosed, Shutdown,
     StopLoopers, Detach, NetworkStep, ReadPart, HandOver, AnswerSent, BeatSent, AcceptStep,
     BeginAccept, Heartbeat, Accept, FlowsEnd, BeginSample, WriteRow, LinkEnds, MainGoes
<1>6. ASSUME NEW path \in Path PROVE link'[path] # "deleted"
  BY <1>2, LinkChanges DEF DeleteLinks, MainGoes, Up, Early
<1> QED
  BY <1>3, <1>4, <1>5, <1>6

(* What a step does to the file of the metrics.                            *)
LEMMA FileChanges ==
  ASSUME TypeOK, ArgsOK, Next
  PROVE  \/ file' = file /\ guarded' = guarded
         \/ main = "context" /\ ((file' = "opened" /\ guarded' = TRUE) \/ file' = "none")
         \/ file' = "headed"
         \/ file' = "deleted" /\ main = "return" /\ main' = "metrics"
<1>1. CASE MakeContext
  BY <1>1 DEF MakeContext, MainGoes, ArgsOK
<1>2. CASE WriteHeader
  BY <1>2 DEF WriteHeader
<1>3. CASE DestroyContext
  BY <1>3 DEF DestroyContext, DestroyMetrics, MainGoes
<1>4. CASE file' = file /\ guarded' = guarded
  BY <1>4
<1> QED
  BY <1>1, <1>2, <1>3, <1>4 DEF Next, MainStep, ReaderStep, DeleterStep, HeartbeatStep, MetricsStep,
     ParseArgs, OpenLink, MakeBond, MakeProxy, DestroyNext, FreeBond, DeleteLinks, JoinLooper,
     KeyPressed, TestRunning, SocketClosed, Shutdown, StopLoopers, Detach, NetworkStep, ReadPart,
     HandOver, AnswerSent, BeatSent, AcceptStep, BeginAccept, Heartbeat, Accept, FlowsEnd,
     BeginSample, WriteRow, LinkEnds

LEMMA OwnStep ==
  ASSUME TypeOK, ArgsOK, NeverRuns, OwnInv, Next
  PROVE  OwnInv'
<1>1. ASSUME NEW path \in Path, main' \in Late PROVE link'[path] \in {"null", "deleted"}
  <2>1. CASE main \in Late
    BY <2>1, LinkChanges DEF OwnInv, Late, DeleteLinks
  <2>2. CASE main = "deleteLinks" /\ DeleteLinks
    BY <2>2 DEF DeleteLinks
  <2>3. CASE main = "args" /\ link' = link
    BY <2>3 DEF OwnInv
  <2> QED
    BY <1>1, <2>1, <2>2, <2>3, MainChanges DEF Late
<1>2. ASSUME NEW path \in Path, main' = "args" PROVE link'[path] = "null"
  <2>1. main = "args"
    BY <1>2, MainChanges
  <2> QED
    BY <2>1, LinkChanges DEF OwnInv, DeleteLinks, MainGoes
<1>3. main' \notin Late => file' # "deleted"
  BY FileChanges, MainChanges DEF OwnInv, Late
<1>4. file' = "opened" => guarded'
  BY FileChanges DEF OwnInv
<1>5. ASSUME file' = "none" PROVE thread'["metrics"] = "none"
  <2>1. thread["metrics"] = "none"
    BY <1>5, FileChanges DEF OwnInv, NeverRuns
  <2> QED
    BY <1>5, <2>1, ThreadChanges, ConstructedIs DEF Looper, BondLooper, Reader
<1>6. ASSUME file' = "opened" PROVE thread'["metrics"] # "row"
  <2>1. CASE file = "opened"
    BY <2>1, ThreadChanges DEF OwnInv, BeginSample, Looper
  <2>2. CASE main = "context"
    BY <2>2, ThreadChanges DEF NeverRuns, Looper
  <2> QED
    BY <1>6, <2>1, <2>2, FileChanges
<1> QED
  BY <1>1, <1>2, <1>3, <1>4, <1>5, <1>6 DEF OwnInv

(* Who does what is undefined finds a link of the site ended, or the site  *)
(* on its way down.                                                        *)
LEMMA UndefinedStep ==
  ASSUME TypeOK, ArgsOK, EarlyInv, NeverRuns, ReaderInv, UpInv, RunsWhileLinksDo, Next
  PROVE  RunsWhileLinksDo'
<1> DEFINE Ended == \E path \in Path : Enabled(path) /\ link[path] # "up"
           Goal  == SendsNowhere \/ Ended \/ main \notin Up
<1>1. ~undefined
  BY DEF Next, Goes
<1>2. ASSUME NEW reader \in Reader,
             thread[reader] \in {"ter", "sat", "stop", "detach"} \/ destroyer[reader] # "none"
      PROVE  Ended
  <2>1. reader \in Constructed /\ link[PathOf(reader)] # "up"
    BY <1>2 DEF ReaderInv
  <2>2. Enabled(PathOf(reader)) /\ PathOf(reader) \in Path
    BY <2>1, ConstructedIs DEF Reader, Enabled, PathOf, Path
  <2> QED
    BY <2>1, <2>2
<1>3. ASSUME NEW who \in Reader \cup {"main"}, destroyer[who] # "none" PROVE Goal
  BY <1>2, <1>3 DEF UpInv, Reader
<1>4. ASSUME NEW who \in Reader \cup {"main"}, DestroyNext(who) \/ FreeBond(who) PROVE Goal
  BY <1>3, <1>4 DEF DestroyNext, FreeBond
<1>5. ASSUME NEW reader \in Reader, Shutdown(reader, "ter", "sat") \/ Shutdown(reader, "sat", "stop")
                                     \/ StopLoopers(reader)
      PROVE  Goal
  BY <1>2, <1>5 DEF Shutdown, StopLoopers, ThreadGoes
<1>6. ASSUME Heartbeat, undefined' PROVE Goal
  <2>1. "heartbeat" \in Constructed /\ link["sat"] # "up"
    BY <1>6 DEF Heartbeat, ThreadGoes, NeverRuns, BondLooper
  <2> QED
    BY <2>1, ConstructedIs DEF Enabled, Path
<1>7. ASSUME BeginAccept \/ Accept, undefined' PROVE Goal
  BY <1>7 DEF BeginAccept, Accept, UpInv
<1>8. ASSUME WriteRow, undefined' PROVE Goal
  BY <1>8 DEF WriteRow, UpInv
<1>9. ASSUME undefined' PROVE Goal /\ link' = link /\ main' = main
  <2>1. CASE MainStep
    BY <1>1, <1>4, <1>9, <2>1 DEF MainStep, ParseArgs, MakeContext, WriteHeader, OpenLink, MakeBond,
       MakeProxy, DestroyNext, FreeBond, DeleteLinks, DestroyContext, JoinLooper
  <2>2. ASSUME NEW reader \in Reader, ReaderStep(reader) \/ SocketClosed(reader) \/ DeleterStep(reader)
        PROVE  Goal /\ link' = link /\ main' = main
    <3>1. reader # "main"
      BY DEF Reader
    <3>2. CASE DeleterStep(reader)
      BY <1>1, <1>4, <1>9, <3>1, <3>2 DEF DeleterStep, DestroyNext, FreeBond
    <3>3. CASE ReaderStep(reader) \/ SocketClosed(reader)
      BY <1>1, <1>5, <1>9, <3>3 DEF ReaderStep, HandOver, TestRunning, SocketClosed, Shutdown,
         StopLoopers, Detach
    <3> QED
      BY <2>2, <3>2, <3>3
  <2>3. CASE HeartbeatStep \/ MetricsStep \/ AcceptStep \/ Accept
    BY <1>1, <1>6, <1>7, <1>8, <1>9, <2>3 DEF HeartbeatStep, MetricsStep, AcceptStep, TestRunning,
       Heartbeat, BeginAccept, Accept, BeginSample, WriteRow
  <2>4. CASE undefined' = undefined
    BY <1>1, <1>9, <2>4
  <2> QED
    BY <2>1, <2>2, <2>3, <2>4 DEF Next, KeyPressed, LinkEnds, FlowsEnd, NetworkStep, ReadPart,
       AnswerSent, BeatSent
<1>10. ASSUME undefined', SendsNowhere \/ Ended \/ main \notin Up, link' = link, main' = main
       PROVE  \/ SendsNowhere'
              \/ \E path \in Path : Enabled(path)' /\ link'[path] # "up"
              \/ main' \notin {"context", "header", "ter", "sat", "bond", "proxy", "wait"}
  BY <1>10, ArgsStay DEF SendsNowhere, Enabled, Up, Early
<1> QED
  BY <1>9, <1>10 DEF RunsWhileLinksDo

----------------------------------------------------------------------------
(* The theorems.                                                           *)

LEMMA AlwaysIndInv == Spec => []IndInv
<1>1. ASSUME Init PROVE IndInv
  <2> USE <1>1 DEF Init, Path, Reader, BondLooper, Looper
  <2>1. TypeOK /\ ArgsOK
    BY DEF TypeOK, ArgsOK
  <2>2. EarlyInv /\ NeverRuns /\ DeletedInv
    BY DEF EarlyInv, NeverRuns, DeletedInv
  <2>3. JoinedInv /\ ReaderInv
    BY DEF JoinedInv, ReaderInv, Gone, Late
  <2>4. UpInv /\ OwnInv /\ RunsWhileLinksDo
    BY DEF UpInv, OwnInv, RunsWhileLinksDo, Up, Early, Late
  <2> QED
    BY <2>1, <2>2, <2>3, <2>4 DEF IndInv
<1>2. ASSUME IndInv, [Next]_vars PROVE IndInv'
  <2>1. ArgsOK'
    BY <1>2, ArgsStay DEF IndInv, ArgsOK
  <2>2. CASE Next
    BY <1>2, <2>1, <2>2, TypeStep, EarlyStep, NeverRunsStep, DeletedStep, JoinedStep, ReaderStepKeeps,
       UpStep, OwnStep, UndefinedStep DEF IndInv
  <2>3. CASE UNCHANGED vars
    <3>1. TypeOK' /\ EarlyInv' /\ NeverRuns'
      BY <1>2, <2>3, ArgsStay DEF vars, IndInv, TypeOK, EarlyInv, NeverRuns
    <3>2. DeletedInv' /\ JoinedInv'
      BY <1>2, <2>3, ArgsStay DEF vars, IndInv, DeletedInv, JoinedInv, Gone
    <3>3. ReaderInv' /\ UpInv' /\ OwnInv'
      BY <1>2, <2>3, ArgsStay DEF vars, IndInv, ReaderInv, UpInv, OwnInv
    <3>4. RunsWhileLinksDo'
      BY <1>2, <2>3 DEF vars, IndInv, RunsWhileLinksDo, Enabled, SendsNowhere
    <3> QED
      BY <2>1, <3>1, <3>2, <3>3, <3>4 DEF IndInv
  <2> QED
    BY <1>2, <2>2, <2>3
<1> QED
  BY <1>1, <1>2, PTL DEF Spec

(* Threads, flags and what they own stay in their types; only a looper that*)
(* was constructed is deleted (Bond.cpp:219-239).                          *)
THEOREM TypeCorrect == Spec => []TypeOK
  BY AlwaysIndInv, PTL DEF IndInv

(* Whatever was enabled, and whoever runs ~Bond how often: the bond is     *)
(* freed after the threads of its loopers ended (Bond.cpp:219, Looper.h:54)*)
(* and main leaves no thread behind.                                       *)
THEOREM ThreadsEndFirst == Spec => []LoopersEndFirst
<1>1. IndInv => LoopersEndFirst
  <2> SUFFICES ASSUME IndInv PROVE LoopersEndFirst
    OBVIOUS
  <2> USE DEF IndInv
  <2>1. ASSUME bond = "freed", NEW looper \in Constructed PROVE thread[looper] = "ended"
    BY <2>1 DEF DeletedInv
  <2>2. ASSUME main = "exited", NEW looper \in Looper PROVE thread[looper] \in {"none", "ended"}
    BY <2>2 DEF JoinedInv, Gone, Late, Looper
  <2> QED
    BY <2>1, <2>2 DEF LoopersEndFirst
<1> QED
  BY <1>1, AlwaysIndInv, PTL

(* While the enabled links are up and no key was pressed, nothing that a   *)
(* looper uses is missing (Bond.cpp:28, 300; main.cpp:29), whatever the    *)
(* command line, unless it enables no link.                                *)
THEOREM DefinedWhileLinksUp == Spec => []RunsWhileLinksDo
  BY AlwaysIndInv, PTL DEF IndInv

(* The looper of the metrics starts before the names of the columns are    *)
(* written and is stopped after the file is deleted (Metrics.cpp:18, 64).  *)
(* No row is written before the names; no sample begins after the file is  *)
(* gone, unless a flow is left.  A sample that began earlier is not covered.*)
THEOREM SamplesInBetween == Spec => SamplesBeginInBetween
<1>1. IndInv => (thread["metrics"] = "row" => file # "opened")
  BY DEF IndInv, OwnInv
<1>2. ASSUME IndInv, [Next]_vars, thread'["metrics"] = "row", thread["metrics"] # "row"
      PROVE  file = "headed" \/ (file = "deleted" /\ flows)
  <2>1. BeginSample
    BY <1>2, ThreadChanges DEF IndInv, Looper, vars
  <2>2. file # "opened" /\ file # "none"
    BY <1>2, <2>1 DEF BeginSample, ThreadGoes, IndInv, OwnInv
  <2>3. ASSUME file = "deleted" PROVE flows
    BY <1>2, <2>1, <2>3 DEF BeginSample, ThreadGoes, IndInv, OwnInv, TypeOK, Looper
  <2> QED
    BY <1>2, <2>2, <2>3 DEF IndInv, TypeOK
<1> QED
  BY <1>1, <1>2, AlwaysIndInv, PTL DEF Spec, SamplesBeginInBetween
=============================================================================
