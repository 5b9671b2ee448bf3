----------------------- MODULE FlowPacketQueueProofs -----------------------
(***************************************************************************)
(* What the operations of FlowPacketQueue do to a deque of packets of any  *)
(* kind: P is a set of records of which only the id matters.               *)
(***************************************************************************)
EXTENDS FlowPacketQueue, SequenceTheorems, WellFoundedInduction, TLAPS

(* A set of naturals that is not empty has a smallest element.             *)
LEMMA SmallestExists ==
  ASSUME NEW T, T \subseteq Nat, T # {}
  PROVE  \E m \in T : \A n \in T : m <= n
<1> DEFINE R == OpToRel(<, Nat)
<1>1. IsWellFoundedOn(R, Nat)
  BY NatLessThanWellFounded, Zenon
<1>2. \A a, b \in Nat : a < b => <<a, b>> \in R
  BY DEF OpToRel
<1> HIDE DEF R
<1>3. PICK m \in T : \A n \in T : <<n, m>> \notin R
  BY <1>1, WFMin
<1>4. ASSUME NEW n \in T
      PROVE  m <= n
  <2>1. m \in Nat /\ n \in Nat /\ ~(n < m)
    BY <1>2, <1>3
  <2> QED
    BY <2>1
<1> QED
  BY <1>4

(* The backward scan of Insert always stops somewhere: the position it     *)
(* chooses has the two properties that define it.                          *)
LEMMA LastBelowProperties ==
  ASSUME NEW P, \A p \in P : p.id \in Nat,
         NEW deque \in Seq(P), NEW id \in Nat
  PROVE  LET k == LastBelow(deque, id)
         IN  /\ k \in 0..Len(deque)
             /\ k > 0 => deque[k].id < id
             /\ \A j \in (k+1)..Len(deque) : deque[j].id >= id
<1> DEFINE N == Len(deque)
           Stops(m) == m = N \/ deque[N - m].id < id
           T == {m \in 0..N : Stops(m)}
<1>1. N \in Nat /\ \A j \in 1..N : deque[j].id \in Nat
  BY LenProperties, ElementOfSeq
<1>2. N \in T
  BY <1>1
<1>3. PICK m \in T : \A n \in T : m <= n
  <2>1. T \subseteq Nat /\ T # {}
    BY <1>1, <1>2
  <2> HIDE DEF T
  <2> QED
    BY <2>1, SmallestExists
<1>4. \A n \in T : ~(n < m)
  BY <1>1, <1>3
<1>5. /\ N - m \in 0..N
      /\ N - m > 0 => deque[N - m].id < id
      /\ \A j \in (N - m + 1)..N : deque[j].id >= id
  <2>1. N - m \in 0..N
    BY <1>1
  <2>2. N - m > 0 => deque[N - m].id < id
    BY <1>1
  <2>3. ASSUME NEW j \in (N - m + 1)..N
        PROVE  deque[j].id >= id
    <3>1. N - j \in 0..N /\ N - j < m /\ j \in 1..N /\ N - (N - j) = j
      BY <1>1, <2>1
    <3>2. ~Stops(N - j)
      BY <1>4, <3>1
    <3> QED
      BY <1>1, <3>1, <3>2
  <2> QED
    BY <2>1, <2>2, <2>3
<1> HIDE DEF N
<1> QED
  BY <1>5 DEF LastBelow, N

(* placed is deque with packet inserted behind its first k elements.       *)
InsertedBehind(P, deque, packet, placed, k) ==
  /\ placed \in Seq(P)
  /\ Len(placed) = Len(deque) + 1
  /\ \A j \in 1..k : placed[j] = deque[j]
  /\ placed[k + 1] = packet
  /\ \A j \in (k + 1)..Len(deque) : placed[j + 1] = deque[j]

LEMMA InsertAtElements ==
  ASSUME NEW P, NEW deque \in Seq(P), NEW k \in 0..Len(deque), NEW packet \in P
  PROVE  InsertedBehind(P, deque, packet, InsertAt(deque, k + 1, packet), k)
<1> DEFINE front == SubSeq(deque, 1, k)
           back == SubSeq(deque, k + 1, Len(deque))
           upTo == front \o <<packet>>
<1>1. /\ front \in Seq(P) /\ Len(front) = k
      /\ \A j \in 1..k : front[j] = deque[j]
  BY LenProperties, ElementOfSeq
<1>2. /\ back \in Seq(P) /\ Len(back) = Len(deque) - k
      /\ \A j \in 1..(Len(deque) - k) : back[j] = deque[k + j]
  BY LenProperties, ElementOfSeq
<1>3. InsertAt(deque, k + 1, packet) = upTo \o back
  <2>1. (k + 1) - 1 = k
    BY LenProperties
  <2> QED
    BY <2>1 DEF InsertAt
<1> HIDE DEF front
<1>4. /\ upTo \in Seq(P) /\ Len(upTo) = k + 1
      /\ \A j \in 1..k : upTo[j] = deque[j]
      /\ upTo[k + 1] = packet
  BY <1>1
<1> HIDE DEF upTo, back
<1>5. /\ upTo \o back \in Seq(P)
      /\ Len(upTo \o back) = Len(deque) + 1
      /\ \A j \in 1..(k + 1) : (upTo \o back)[j] = upTo[j]
      /\ \A j \in 1..Len(back) : (upTo \o back)[k + 1 + j] = back[j]
  BY <1>2, <1>4
<1>6. ASSUME NEW j \in (k + 1)..Len(deque)
      PROVE  (upTo \o back)[j + 1] = deque[j]
  <2>1. j - k \in 1..Len(back) /\ j + 1 = k + 1 + (j - k) /\ k + (j - k) = j
    BY <1>2
  <2>2. (upTo \o back)[k + 1 + (j - k)] = back[j - k]
    BY <1>5, <2>1
  <2>3. back[j - k] = deque[k + (j - k)]
    BY <1>2, <2>1
  <2> QED
    BY <2>1, <2>2, <2>3
<1>7. \A j \in 1..k : (upTo \o back)[j] = deque[j]
  <2>1. \A j \in 1..k : j \in 1..(k + 1)
    OBVIOUS
  <2> QED
    BY <1>4, <1>5, <2>1
<1>8. (upTo \o back)[k + 1] = packet
  BY <1>4, <1>5
<1> QED
  BY <1>3, <1>5, <1>6, <1>7, <1>8 DEF InsertedBehind

(* Insert splits a sorted deque in two: the packets with smaller ids stay  *)
(* in front of the new one, the others move behind it.                     *)
LEMMA PlacedElements ==
  ASSUME NEW P, \A p \in P : p.id \in Nat,
         NEW deque \in Seq(P), Sorted(deque),
         NEW packet \in P, \A i \in DOMAIN deque : deque[i].id # packet.id
  PROVE  \E k \in 0..Len(deque) :
           /\ InsertedBehind(P, deque, packet, Placed(deque, packet), k)
           /\ \A j \in 1..k : deque[j].id < packet.id
           /\ \A j \in (k+1)..Len(deque) : packet.id < deque[j].id
<1> DEFINE N == Len(deque)
<1>1. /\ N \in Nat /\ DOMAIN deque = 1..N /\ packet.id \in Nat
      /\ \A j \in 1..N : deque[j].id \in Nat /\ deque[j].id # packet.id
      /\ \A i, j \in 1..N : i < j => deque[i].id < deque[j].id
  BY LenProperties, ElementOfSeq DEF Sorted
<1>2. CASE deque = <<>> \/ packet.id < deque[1].id
  <2>1. Placed(deque, packet) = <<packet>> \o deque
    BY <1>2 DEF Placed
  <2>2. InsertedBehind(P, deque, packet, <<packet>> \o deque, 0)
    BY <1>1 DEF InsertedBehind
  <2>3. ASSUME NEW j \in 1..N
        PROVE  packet.id < deque[j].id
    <3>1. packet.id < deque[1].id
      BY <1>1, <1>2
    <3> QED
      BY <1>1, <3>1
  <2> QED
    BY <1>1, <2>1, <2>2, <2>3
<1>3. CASE ~(deque = <<>> \/ packet.id < deque[1].id)
  <2> DEFINE k == LastBelow(deque, packet.id)
  <2>1. /\ k \in 0..N /\ (k > 0 => deque[k].id < packet.id)
        /\ \A j \in (k+1)..N : deque[j].id >= packet.id
    BY <1>1, LastBelowProperties
  <2>2. k # 0
    <3>1. 1 \in 1..N /\ ~(deque[1].id >= packet.id)
      BY <1>1, <1>3
    <3> QED
      BY <2>1, <3>1
  <2>3. Placed(deque, packet) = InsertAt(deque, k + 1, packet)
    BY <1>3, <2>2 DEF Placed
  <2> HIDE DEF k
  <2>4. InsertedBehind(P, deque, packet, InsertAt(deque, k + 1, packet), k)
    BY <2>1, InsertAtElements
  <2>5. \A j \in 1..k : deque[j].id < packet.id
    BY <1>1, <2>1, <2>2
  <2>6. \A j \in (k+1)..N : packet.id < deque[j].id
    BY <1>1, <2>1
  <2> QED
    BY <2>1, <2>3, <2>4, <2>5, <2>6
<1> QED
  BY <1>2, <1>3

(* A fresh packet is put in its place and nothing else changes.            *)
LEMMA PlacedProperties ==
  ASSUME NEW P, \A p \in P : p.id \in Nat,
         NEW deque \in Seq(P), Sorted(deque),
         NEW packet \in P, \A i \in DOMAIN deque : deque[i].id # packet.id
  PROVE  LET placed == Placed(deque, packet)
         IN  /\ placed \in Seq(P)
             /\ Len(placed) = Len(deque) + 1
             /\ Sorted(placed)
             /\ Range(placed) = Range(deque) \union {packet}
<1> DEFINE N == Len(deque)
           placed == Placed(deque, packet)
<1>1. PICK k \in 0..N :
         /\ InsertedBehind(P, deque, packet, placed, k)
         /\ \A j \in 1..k : deque[j].id < packet.id
         /\ \A j \in (k+1)..N : packet.id < deque[j].id
  BY PlacedElements
<1>2. /\ N \in Nat /\ DOMAIN deque = 1..N /\ packet.id \in Nat
      /\ \A j \in 1..N : deque[j].id \in Nat
      /\ \A i, j \in 1..N : i < j => deque[i].id < deque[j].id
  BY LenProperties, ElementOfSeq DEF Sorted
<1> HIDE DEF placed
<1>3. /\ placed \in Seq(P) /\ Len(placed) = N + 1 /\ DOMAIN placed = 1..(N + 1)
      /\ \A j \in 1..k : placed[j] = deque[j]
      /\ placed[k + 1] = packet
      /\ \A j \in (k + 1)..N : placed[j + 1] = deque[j]
  BY <1>1, LenProperties DEF InsertedBehind
<1> HIDE DEF N
(* Where an element of placed comes from.                                  *)
<1>4. ASSUME NEW j \in 1..(N + 1)
      PROVE  \/ j \in 1..k
             \/ j = k + 1
             \/ j - 1 \in (k + 1)..N /\ placed[j] = deque[j - 1]
  <2>1. CASE j > k + 1
    <3>1. j - 1 \in (k + 1)..N /\ (j - 1) + 1 = j
      BY <1>2, <2>1
    <3>2. placed[(j - 1) + 1] = deque[j - 1]
      BY <1>3, <3>1
    <3> QED
      BY <3>1, <3>2
  <2> QED
    BY <1>2, <2>1
<1>5. Sorted(placed)
  <2> SUFFICES ASSUME NEW i \in 1..(N + 1), NEW j \in 1..(N + 1), i < j
               PROVE  placed[i].id < placed[j].id
    BY <1>3 DEF Sorted
  <2>1. CASE j \in 1..k
    <3>1. i \in 1..k /\ i \in 1..N /\ j \in 1..N
      BY <1>2, <2>1
    <3> QED
      BY <1>2, <1>3, <2>1, <3>1
  <2>2. CASE j = k + 1
    <3>1. i \in 1..k
      BY <1>2, <2>2
    <3> QED
      BY <1>1, <1>3, <2>2, <3>1
  <2>3. CASE j - 1 \in (k + 1)..N /\ placed[j] = deque[j - 1]
    <3>1. CASE i \in 1..k
      <4>1. i \in 1..N /\ j - 1 \in 1..N /\ i < j - 1
        BY <1>2, <2>3, <3>1
      <4>2. deque[i].id < deque[j - 1].id
        BY <1>2, <4>1
      <4> QED
        BY <1>3, <2>3, <3>1, <4>2
    <3>2. CASE i = k + 1
      BY <1>1, <1>3, <2>3, <3>2
    <3>3. CASE i - 1 \in (k + 1)..N /\ placed[i] = deque[i - 1]
      <4>1. i - 1 \in 1..N /\ j - 1 \in 1..N /\ i - 1 < j - 1
        BY <1>2, <2>3, <3>3
      <4>2. deque[i - 1].id < deque[j - 1].id
        BY <1>2, <4>1
      <4> QED
        BY <2>3, <3>3, <4>2
    <3> QED
      BY <1>4, <3>1, <3>2, <3>3
  <2> QED
    BY <1>4, <2>1, <2>2, <2>3
<1>6. Range(placed) = Range(deque) \union {packet}
  <2>1. ASSUME NEW j \in 1..(N + 1)
        PROVE  placed[j] \in Range(deque) \union {packet}
    <3>1. CASE j \in 1..k
      <4>1. j \in 1..N
        BY <1>2, <3>1
      <4> QED
        BY <1>2, <1>3, <3>1, <4>1 DEF Range
    <3>2. CASE j = k + 1
      BY <1>3, <3>2
    <3>3. CASE j - 1 \in (k + 1)..N /\ placed[j] = deque[j - 1]
      <4>1. j - 1 \in 1..N
        BY <1>2, <3>3
      <4> QED
        BY <1>2, <3>3, <4>1 DEF Range
    <3> QED
      BY <1>4, <3>1, <3>2, <3>3
  <2>2. packet \in Range(placed)
    <3>1. k + 1 \in 1..(N + 1)
      BY <1>2
    <3> QED
      BY <1>3, <3>1 DEF Range
  <2>3. ASSUME NEW i \in 1..N
        PROVE  deque[i] \in Range(placed)
    <3>1. CASE i \in 1..k
      <4>1. i \in 1..(N + 1)
        BY <1>2
      <4> QED
        BY <1>3, <3>1, <4>1 DEF Range
    <3>2. CASE i \in (k + 1)..N
      <4>1. i + 1 \in 1..(N + 1)
        BY <1>2
      <4> QED
        BY <1>3, <3>2, <4>1 DEF Range
    <3>3. i \in 1..k \/ i \in (k + 1)..N
      BY <1>2
    <3> QED
      BY <3>1, <3>2, <3>3
  <2> QED
    BY <1>2, <1>3, <2>1, <2>2, <2>3 DEF Range
<1> QED
  BY <1>3, <1>5, <1>6 DEF N, placed

----------------------------------------------------------------------------
QueueOf(P) ==
  [deque : Seq(P), nextAvailable : BOOLEAN, currentId : Nat, size : Int, byteSize : Int]

LEMMA NewQueueWellFormed ==
  ASSUME NEW P
  PROVE  NewQueue \in QueueOf(P) /\ WellFormed(NewQueue)
<1>1. <<>> \in Seq(P) /\ DOMAIN <<>> = {}
  BY EmptySeq
<1> QED
  BY <1>1 DEF NewQueue, QueueOf, WellFormed, Sorted, FlagExact, NotPassed, IsNext

(* Insert keeps a well-formed queue well-formed and adds the packet, given *)
(* that its turn has not passed and its id is not there.                   *)
LEMMA InsertProperties ==
  ASSUME NEW P, \A p \in P : p.id \in Nat /\ p.size \in Nat,
         NEW queue \in QueueOf(P), WellFormed(queue),
         NEW packet \in P, Fresh(queue, packet)
  PROVE  LET result == Insert(queue, packet)
         IN  /\ result \in QueueOf(P)
             /\ WellFormed(result)
             /\ result.currentId = queue.currentId
             /\ Range(result.deque) = Range(queue.deque) \union {packet}
<1> DEFINE deque == queue.deque
           placed == Placed(deque, packet)
           result == Insert(queue, packet)
<1>1. /\ deque \in Seq(P) /\ Sorted(deque) /\ queue.currentId \in Nat
      /\ queue.nextAvailable \in BOOLEAN /\ queue.size \in Int /\ queue.byteSize \in Int
      /\ \A p \in P : p.id \in Nat /\ p.size \in Nat
      /\ \A i \in DOMAIN deque : deque[i].id # packet.id
  BY DEF QueueOf, WellFormed, Fresh
<1> HIDE DEF deque
<1>2. /\ placed \in Seq(P) /\ Len(placed) = Len(deque) + 1 /\ Sorted(placed)
      /\ Range(placed) = Range(deque) \union {packet}
  BY <1>1, PlacedProperties
<1> HIDE DEF placed
<1>3. /\ Len(deque) \in Nat /\ DOMAIN placed = 1..Len(placed) /\ 1 \in DOMAIN placed
      /\ \A i \in DOMAIN placed : placed[i] \in P
      /\ placed # <<>>
  BY <1>1, <1>2, LenProperties, ElementOfSeq, EmptySeq
<1>4. /\ result.deque = placed /\ result.currentId = queue.currentId
      /\ result.nextAvailable = (queue.nextAvailable \/ IsNext(placed, queue.currentId))
  BY DEF Insert, placed, deque
<1>5. result \in QueueOf(P)
  <2>1. packet.size \in Nat
    BY <1>1
  <2>2. (queue.nextAvailable \/ IsNext(placed, queue.currentId)) \in BOOLEAN
    BY <1>1 DEF IsNext
  <2> QED
    BY <1>1, <1>2, <2>1, <2>2 DEF Insert, QueueOf, placed, deque
<1>6. \A p \in Range(placed) : p.id >= queue.currentId
  BY <1>2 DEF Range, WellFormed, NotPassed, Fresh, deque
<1>7. NotPassed(result)
  BY <1>4, <1>6 DEF NotPassed, Range
<1>8. FlagExact(result)
  <2>1. ASSUME IsNext(deque, queue.currentId)
        PROVE  IsNext(placed, queue.currentId)
    <3>1. deque[1] \in Range(placed) /\ deque[1].id = queue.currentId
      <4>1. 1 \in DOMAIN deque
        BY <1>1, <2>1, LenProperties, EmptySeq DEF IsNext
      <4> QED
        BY <1>2, <2>1, <4>1 DEF IsNext, Range
    <3>2. PICK i \in DOMAIN placed : placed[i].id = queue.currentId
      BY <3>1 DEF Range
    <3>3. placed[1].id \in Nat /\ placed[i].id \in Nat /\ i \in 1..Len(placed)
      BY <1>1, <1>3
    <3>4. i # 1 => placed[1].id < placed[i].id
      <4>1. i # 1 => 1 < i
        BY <1>1, <1>2, <3>3
      <4> QED
        BY <1>2, <1>3, <4>1 DEF Sorted
    <3>5. placed[1].id >= queue.currentId
      BY <1>3, <1>6 DEF Range
    <3> QED
      BY <1>1, <1>3, <3>2, <3>3, <3>4, <3>5 DEF IsNext
  <2>2. queue.nextAvailable = IsNext(deque, queue.currentId)
    BY <1>1 DEF WellFormed, FlagExact, IsNext, deque
  <2> QED
    BY <1>4, <2>1, <2>2 DEF FlagExact
<1> QED
  BY <1>2, <1>4, <1>5, <1>7, <1>8 DEF WellFormed, deque

(* Pop keeps a well-formed queue well-formed and takes out its front, the  *)
(* packet that currentId names.                                            *)
LEMMA PoppedProperties ==
  ASSUME NEW P, \A p \in P : p.id \in Nat /\ p.size \in Nat,
         NEW queue \in QueueOf(P), WellFormed(queue), queue.nextAvailable
  PROVE  /\ Popped(queue) \in QueueOf(P)
         /\ WellFormed(Popped(queue))
         /\ Popped(queue).currentId = queue.currentId + 1
         /\ Head(queue.deque) \in P
         /\ Head(queue.deque).id = queue.currentId
         /\ Head(queue.deque) \in Range(queue.deque)
         /\ Range(Popped(queue).deque) = Range(queue.deque) \ {Head(queue.deque)}
<1> DEFINE deque == queue.deque
           rest == Tail(deque)
<1>1. /\ deque \in Seq(P) /\ Sorted(deque) /\ queue.currentId \in Nat
      /\ queue.size \in Int /\ queue.byteSize \in Int
      /\ IsNext(deque, queue.currentId) /\ NotPassed(queue)
      /\ \A p \in P : p.id \in Nat /\ p.size \in Nat
  BY DEF QueueOf, WellFormed, FlagExact
<1>2. /\ Len(deque) \in Nat /\ Len(deque) >= 1 /\ DOMAIN deque = 1..Len(deque)
      /\ \A i \in 1..Len(deque) : deque[i] \in P
      /\ Head(deque) = deque[1] /\ deque[1].id = queue.currentId
  BY <1>1, LenProperties, ElementOfSeq, EmptySeq DEF IsNext
<1>3. /\ rest \in Seq(P) /\ Len(rest) = Len(deque) - 1
      /\ \A i \in 1..(Len(deque) - 1) : rest[i] = deque[i + 1]
      /\ DOMAIN rest = 1..(Len(deque) - 1)
  BY <1>1, <1>2, HeadTailProperties, LenProperties DEF IsNext
<1>4. /\ Popped(queue).deque = rest /\ Popped(queue).currentId = queue.currentId + 1
      /\ Popped(queue).nextAvailable = IsNext(rest, queue.currentId + 1)
  BY DEF Popped
<1> HIDE DEF rest
<1>5. Popped(queue) \in QueueOf(P)
  <2>1. Head(deque).size \in Nat /\ IsNext(rest, queue.currentId + 1) \in BOOLEAN
    BY <1>1, <1>2 DEF IsNext
  <2> QED
    BY <1>1, <1>3, <2>1 DEF Popped, QueueOf, rest
<1>6. Sorted(rest)
  <2> SUFFICES ASSUME NEW i \in 1..(Len(deque) - 1), NEW j \in 1..(Len(deque) - 1), i < j
               PROVE  rest[i].id < rest[j].id
    BY <1>3 DEF Sorted
  <2>1. i + 1 \in DOMAIN deque /\ j + 1 \in DOMAIN deque /\ i + 1 < j + 1
    BY <1>2
  <2>2. deque[i + 1].id < deque[j + 1].id
    BY <1>1, <2>1 DEF Sorted
  <2> QED
    BY <1>3, <2>2
<1>7. ASSUME NEW i \in 1..(Len(deque) - 1)
      PROVE  rest[i].id >= queue.currentId + 1 /\ rest[i] # deque[1]
  <2>1. 1 \in DOMAIN deque /\ i + 1 \in DOMAIN deque /\ 1 < i + 1
    BY <1>2
  <2>2. deque[1].id < deque[i + 1].id
    BY <1>1, <2>1 DEF Sorted
  <2>3. deque[1].id = queue.currentId /\ deque[i + 1].id \in Nat /\ rest[i] = deque[i + 1]
    BY <1>1, <1>2, <1>3, <2>1
  <2>4. rest[i].id > queue.currentId
    BY <2>2, <2>3
  <2>5. rest[i].id # deque[1].id /\ rest[i].id >= queue.currentId + 1
    BY <1>1, <2>3, <2>4
  <2> QED
    BY <2>5
<1>8. WellFormed(Popped(queue))
  BY <1>3, <1>4, <1>6, <1>7 DEF WellFormed, FlagExact, NotPassed, IsNext
<1>9. Range(rest) = Range(deque) \ {deque[1]}
  <2>1. ASSUME NEW i \in 1..(Len(deque) - 1)
        PROVE  rest[i] \in Range(deque) \ {deque[1]}
    <3>1. i + 1 \in DOMAIN deque
      BY <1>2
    <3> QED
      BY <1>3, <1>7, <3>1 DEF Range
  <2>2. ASSUME NEW j \in DOMAIN deque, deque[j] # deque[1]
        PROVE  deque[j] \in Range(rest)
    <3>1. j - 1 \in 1..(Len(deque) - 1) /\ (j - 1) + 1 = j
      <4>1. j \in 1..Len(deque) /\ j # 1
        BY <1>2, <2>2
      <4> QED
        BY <1>2, <4>1
    <3>2. rest[j - 1] = deque[(j - 1) + 1]
      BY <1>3, <3>1
    <3> QED
      BY <1>3, <3>1, <3>2 DEF Range
  <2>3. Range(rest) = {rest[i] : i \in 1..(Len(deque) - 1)}
    BY <1>3 DEF Range
  <2>4. Range(rest) \subseteq Range(deque) \ {deque[1]}
    BY <2>1, <2>3
  <2>5. Range(deque) \ {deque[1]} \subseteq Range(rest)
    BY <2>2 DEF Range
  <2> QED
    BY <2>4, <2>5
<1>10. deque[1] \in Range(deque)
  BY <1>2 DEF Range
<1> QED
  BY <1>2, <1>4, <1>5, <1>8, <1>9, <1>10

(* Clear leaves an empty deque behind and keeps currentId.                 *)
LEMMA ClearedProperties ==
  ASSUME NEW P, NEW queue \in QueueOf(P)
  PROVE  /\ Cleared(queue) \in QueueOf(P)
         /\ WellFormed(Cleared(queue))
         /\ Cleared(queue).deque = <<>>
         /\ Cleared(queue).currentId = queue.currentId
<1>1. <<>> \in Seq(P) /\ DOMAIN <<>> = {}
  BY EmptySeq
<1> QED
  BY <1>1 DEF Cleared, QueueOf, WellFormed, Sorted, FlagExact, NotPassed, IsNext

----------------------------------------------------------------------------
(* The bytes in a deque.                                                   *)

(* The sums of the sizes of the first packets.                             *)
PartialSums(deque, sum) ==
  /\ sum \in [0..Len(deque) -> Nat]
  /\ sum[0] = 0
  /\ \A i \in 1..Len(deque) : sum[i] = sum[i-1] + deque[i].size

LEMMA SizesAreNat ==
  ASSUME NEW P, \A p \in P : p.size \in Nat,
         NEW deque \in Seq(P)
  PROVE  Len(deque) \in Nat /\ \A i \in 1..Len(deque) : deque[i].size \in Nat
<1>1. \A i \in 1..Len(deque) : deque[i] \in P
  BY ElementOfSeq
<1> QED
  BY <1>1, LenProperties

LEMMA SumsExist ==
  ASSUME NEW P, \A p \in P : p.size \in Nat,
         NEW deque \in Seq(P)
  PROVE  \E sum : PartialSums(deque, sum)
<1> DEFINE N == Len(deque)
           UpTo(n) == \E sum \in [0..n -> Nat] :
                        sum[0] = 0 /\ \A i \in 1..n : sum[i] = sum[i-1] + deque[i].size
           T == {n \in 0..N : ~UpTo(n)}
<1>1. N \in Nat /\ \A i \in 1..N : deque[i].size \in Nat
  BY SizesAreNat
<1>2. ASSUME NEW n \in 0..N
      PROVE  UpTo(n)
  <2> SUFFICES ASSUME T # {} PROVE FALSE
    OBVIOUS
  <2>1. PICK m \in T : \A k \in T : m <= k
    <3>1. T \subseteq Nat
      BY <1>1
    <3> HIDE DEF T
    <3> QED
      BY <3>1, SmallestExists
  <2>2. m \in 0..N /\ ~UpTo(m)
    BY <2>1
  <2>3. UpTo(0)
    <3>1. PICK none : none = [i \in 0..0 |-> 0]
      OBVIOUS
    <3>2. none \in [0..0 -> Nat] /\ none[0] = 0 /\ \A i \in 1..0 : FALSE
      BY <3>1
    <3> QED
      BY <3>2
  <2>4. m - 1 \in 0..N /\ m \in 1..N /\ ~(m <= m - 1)
    <3>1. m # 0
      <4> HIDE DEF UpTo
      <4> QED
        BY <2>2, <2>3
    <3> QED
      BY <1>1, <2>2, <3>1
  <2>5. UpTo(m - 1)
    <3> HIDE DEF UpTo
    <3> QED
      BY <2>1, <2>4
  <2>6. PICK sum \in [0..(m-1) -> Nat] :
          sum[0] = 0 /\ \A i \in 1..(m-1) : sum[i] = sum[i-1] + deque[i].size
    BY <2>5
  <2> DEFINE more == [i \in 0..m |-> IF i = m THEN sum[m-1] + deque[m].size ELSE sum[i]]
  <2>7. more \in [0..m -> Nat]
    BY <1>1, <2>4
  <2>8. more[0] = 0
    BY <2>4, <2>6
  <2>9. ASSUME NEW i \in 1..m
        PROVE  more[i] = more[i-1] + deque[i].size
    <3>1. i - 1 \in 0..(m-1) /\ i - 1 # m /\ (i = m \/ i \in 1..(m-1))
      BY <2>4
    <3>2. more[i-1] = sum[i-1]
      BY <2>4, <3>1
    <3>3. CASE i = m
      BY <2>4, <3>2, <3>3
    <3>4. CASE i \in 1..(m-1)
      <4>1. more[i] = sum[i]
        BY <2>4, <3>4
      <4> QED
        BY <2>6, <3>2, <3>4, <4>1
    <3> QED
      BY <3>1, <3>3, <3>4
  <2> HIDE DEF more
  <2> QED
    BY <2>2, <2>7, <2>8, <2>9
<1>3. N \in 0..N
  BY <1>1
<1> QED
  BY <1>2, <1>3 DEF PartialSums

LEMMA PayloadIsSum ==
  ASSUME NEW P, \A p \in P : p.size \in Nat,
         NEW deque \in Seq(P), NEW sum, PartialSums(deque, sum)
  PROVE  Payload(deque) = sum[Len(deque)]
<1> DEFINE N == Len(deque)
           Fits(f) == f = [i \in 0..N |-> IF i = 0 THEN 0 ELSE f[i-1] + deque[i].size]
<1>1. N \in Nat
  BY LenProperties
<1>2. Fits(sum)
  BY <1>1 DEF PartialSums
<1>3. PICK f : f = CHOOSE g : Fits(g)
  OBVIOUS
<1>4. Fits(f)
  BY <1>2, <1>3
<1>5. Payload(deque) = f[N]
  BY <1>3 DEF Payload
<1>6. \A i \in 0..N : f[i] = sum[i]
  <2> DEFINE T == {i \in 0..N : f[i] # sum[i]}
  <2> SUFFICES ASSUME T # {} PROVE FALSE
    OBVIOUS
  <2>1. PICK m \in T : \A k \in T : m <= k
    <3>1. T \subseteq Nat
      BY <1>1
    <3> HIDE DEF T
    <3> QED
      BY <3>1, SmallestExists
  <2>2. m \in 0..N /\ f[m] # sum[m]
    BY <2>1
  <2>3. f[0] = 0 /\ sum[0] = 0
    BY <1>1, <1>4 DEF PartialSums
  <2>4. m \in 1..N /\ m - 1 \in 0..N /\ ~(m <= m - 1)
    BY <1>1, <2>2, <2>3
  <2>5. f[m-1] = sum[m-1]
    BY <2>1, <2>4
  <2>6. f[m] = f[m-1] + deque[m].size /\ sum[m] = sum[m-1] + deque[m].size
    BY <1>4, <2>4 DEF PartialSums
  <2> QED
    BY <2>2, <2>5, <2>6
<1> QED
  BY <1>1, <1>5, <1>6

LEMMA PayloadOfNone == Payload(<<>>) = 0
<1>1. /\ <<>> \in Seq([size : Nat]) /\ Len(<<>>) = 0
      /\ \A p \in [size : Nat] : p.size \in Nat
  BY EmptySeq
<1>2. PICK sum : PartialSums(<<>>, sum)
  BY <1>1, SumsExist
<1>3. sum[0] = 0
  BY <1>2 DEF PartialSums
<1> QED
  BY <1>1, <1>2, <1>3, PayloadIsSum

LEMMA PayloadType ==
  ASSUME NEW P, \A p \in P : p.size \in Nat,
         NEW deque \in Seq(P)
  PROVE  Payload(deque) \in Nat
<1>1. PICK sum : PartialSums(deque, sum)
  BY SumsExist
<1>2. Len(deque) \in 0..Len(deque)
  BY LenProperties
<1>3. Payload(deque) = sum[Len(deque)]
  BY <1>1, PayloadIsSum
<1>4. sum[Len(deque)] \in Nat
  BY <1>1, <1>2 DEF PartialSums
<1> QED
  BY <1>3, <1>4

(* A packet that goes in adds its size, wherever it is placed.             *)
LEMMA PayloadInserted ==
  ASSUME NEW P, \A p \in P : p.size \in Nat,
         NEW deque \in Seq(P), NEW packet \in P, NEW k \in 0..Len(deque),
         NEW placed, InsertedBehind(P, deque, packet, placed, k)
  PROVE  Payload(placed) = Payload(deque) + packet.size
<1>1. PICK sum : PartialSums(deque, sum)
  BY SumsExist
<1> DEFINE N == Len(deque)
           more == [i \in 0..(N+1) |-> IF i <= k THEN sum[i] ELSE sum[i-1] + packet.size]
<1>2. /\ N \in Nat /\ packet.size \in Nat /\ k \in 0..N
      /\ \A i \in 1..N : deque[i].size \in Nat
      /\ placed \in Seq(P) /\ Len(placed) = N + 1
      /\ \A i \in 0..N : sum[i] \in Nat
  BY <1>1, SizesAreNat DEF InsertedBehind, PartialSums
<1>3. more \in [0..(N+1) -> Nat]
  <2> SUFFICES ASSUME NEW i \in 0..(N+1)
               PROVE  (IF i <= k THEN sum[i] ELSE sum[i-1] + packet.size) \in Nat
    OBVIOUS
  <2>1. i <= k => i \in 0..N
    BY <1>2
  <2>2. ~(i <= k) => i - 1 \in 0..N
    BY <1>2
  <2> QED
    BY <1>2, <2>1, <2>2
<1>4. more[0] = 0
  BY <1>1, <1>2 DEF PartialSums
<1>5. ASSUME NEW i \in 1..(N+1)
      PROVE  more[i] = more[i-1] + placed[i].size
  <2>1. CASE i <= k
    <3>1. i \in 1..N /\ i - 1 <= k /\ i - 1 \in 0..(N+1) /\ placed[i] = deque[i]
      BY <1>2, <2>1 DEF InsertedBehind
    <3> QED
      BY <1>1, <2>1, <3>1 DEF PartialSums
  <2>2. CASE i = k + 1
    <3>1. ~(i <= k) /\ i - 1 = k /\ placed[i] = packet /\ k \in 0..(N+1)
      BY <1>2, <2>2 DEF InsertedBehind
    <3> QED
      BY <1>2, <3>1
  <2>3. CASE i > k + 1
    <3>1. /\ ~(i <= k) /\ ~(i - 1 <= k) /\ i - 1 \in (k+1)..N /\ i - 1 \in 1..N
          /\ i - 1 \in 0..(N+1) /\ (i - 1) + 1 = i /\ i - 2 \in 0..N /\ (i - 1) - 1 = i - 2
      BY <1>2, <2>3
    <3>2. placed[i] = deque[i-1]
      BY <3>1 DEF InsertedBehind
    <3>3. sum[i-1] = sum[i-2] + deque[i-1].size
      BY <1>1, <3>1 DEF PartialSums
    <3>4. more[i] = sum[i-1] + packet.size /\ more[i-1] = sum[i-2] + packet.size
      BY <3>1
    <3> HIDE DEF more
    <3>5. /\ sum[i-2] \in Nat /\ deque[i-1].size \in Nat /\ packet.size \in Nat
      BY <1>2, <3>1
    <3> QED
      BY <3>2, <3>3, <3>4, <3>5
  <2> QED
    BY <1>2, <2>1, <2>2, <2>3
<1>6. more[N+1] = sum[N] + packet.size
  BY <1>2
<1> HIDE DEF more
<1>7. PartialSums(placed, more)
  BY <1>2, <1>3, <1>4, <1>5 DEF PartialSums
<1> QED
  BY <1>1, <1>2, <1>6, <1>7, PayloadIsSum

LEMMA PayloadOfTail ==
  ASSUME NEW P, \A p \in P : p.size \in Nat,
         NEW deque \in Seq(P), deque # <<>>
  PROVE  Payload(Tail(deque)) = Payload(deque) - Head(deque).size
<1>1. PICK sum : PartialSums(deque, sum)
  BY SumsExist
<1> DEFINE N == Len(deque)
           less == [i \in 0..(N-1) |-> sum[i+1] - sum[1]]
<1>2. /\ N \in Nat /\ N >= 1 /\ Head(deque) = deque[1]
      /\ Tail(deque) \in Seq(P) /\ Len(Tail(deque)) = N - 1
      /\ \A i \in 1..(N-1) : Tail(deque)[i] = deque[i+1]
      /\ \A i \in 1..N : deque[i].size \in Nat
      /\ \A i \in 0..N : sum[i] \in Nat
  <2>1. /\ Tail(deque) \in Seq(P) /\ Len(Tail(deque)) = N - 1
        /\ \A i \in 1..Len(Tail(deque)) : Tail(deque)[i] = deque[i+1]
    BY HeadTailProperties
  <2>2. N \in Nat /\ N >= 1
    BY EmptySeq
  <2>3. Head(deque) = deque[1]
    BY <2>2
  <2> QED
    BY <1>1, <2>1, <2>2, <2>3, SizesAreNat DEF PartialSums
<1>3. sum[1] = deque[1].size
  BY <1>1, <1>2 DEF PartialSums
<1>4. ASSUME NEW i \in 1..(N-1)
      PROVE  less[i] = less[i-1] + Tail(deque)[i].size
  <2>1. /\ i \in 0..(N-1) /\ i - 1 \in 0..(N-1) /\ (i - 1) + 1 = i /\ i + 1 \in 1..N
        /\ (i + 1) - 1 = i /\ i \in 0..N /\ 1 \in 0..N
    BY <1>2
  <2>2. sum[i+1] = sum[i] + deque[i+1].size
    BY <1>1, <2>1 DEF PartialSums
  <2>3. less[i] = sum[i+1] - sum[1] /\ less[i-1] = sum[i] - sum[1]
    BY <2>1
  <2>4. sum[i] \in Nat /\ sum[1] \in Nat /\ deque[i+1].size \in Nat /\ Tail(deque)[i] = deque[i+1]
    BY <1>2, <2>1
  <2> HIDE DEF less
  <2> QED
    BY <2>2, <2>3, <2>4
<1>5. \A i \in 1..N : sum[i] >= sum[1]
  <2> DEFINE T == {i \in 1..N : ~(sum[i] >= sum[1])}
  <2> SUFFICES ASSUME T # {} PROVE FALSE
    OBVIOUS
  <2>1. PICK m \in T : \A j \in T : m <= j
    <3>1. T \subseteq Nat
      BY <1>2
    <3> HIDE DEF T
    <3> QED
      BY <3>1, SmallestExists
  <2>2. m \in 1..N /\ ~(sum[m] >= sum[1])
    BY <2>1
  <2>3. m - 1 \in 1..N /\ ~(m <= m - 1) /\ m - 1 \in 0..N /\ 1 \in 0..N /\ m \in 0..N
    BY <1>2, <2>2
  <2>4. sum[m-1] >= sum[1]
    BY <2>1, <2>3
  <2>5. sum[m] = sum[m-1] + deque[m].size
    BY <1>1, <2>2 DEF PartialSums
  <2>6. sum[m-1] \in Nat /\ sum[m] \in Nat /\ sum[1] \in Nat /\ deque[m].size \in Nat
    BY <1>2, <2>2, <2>3
  <2> QED
    BY <2>2, <2>4, <2>5, <2>6
<1>6. less \in [0..(N-1) -> Nat]
  <2> SUFFICES ASSUME NEW i \in 0..(N-1) PROVE sum[i+1] - sum[1] \in Nat
    OBVIOUS
  <2>1. i + 1 \in 1..N /\ i + 1 \in 0..N /\ 1 \in 0..N
    BY <1>2
  <2>2. sum[i+1] \in Nat /\ sum[1] \in Nat /\ sum[i+1] >= sum[1]
    BY <1>2, <1>5, <2>1
  <2> QED
    BY <2>2
<1>7. less[0] = 0 /\ less[N-1] = sum[N] - sum[1]
  BY <1>2
<1> HIDE DEF less
<1>8. PartialSums(Tail(deque), less)
  BY <1>2, <1>4, <1>6, <1>7 DEF PartialSums
<1> QED
  BY <1>1, <1>2, <1>3, <1>7, <1>8, PayloadIsSum
============================================================================
