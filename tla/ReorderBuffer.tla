--------------------------- MODULE ReorderBuffer ---------------------------
(***************************************************************************)
(* What a flow expects of its packet queue, without the deque, the flag    *)
(* and the condition variable: packets go in in any order and come out by  *)
(* id, 0, 1, 2, ... with none left out and none twice.  The packets that   *)
(* wait can be dropped all at once; the numbering then goes on where the   *)
(* last delivery left it.                                                  *)
(***************************************************************************)
EXTENDS Naturals, Sequences

VARIABLES pending,   \* the packets that went in and did not come out
          delivered  \* the packets that came out, in order

vars == <<pending, delivered>>

Init == pending = {} /\ delivered = <<>>

Put(packet) ==
  /\ packet.id >= Len(delivered)
  /\ \A other \in pending : other.id # packet.id
  /\ pending' = pending \union {packet}
  /\ UNCHANGED delivered

Deliver(packet) ==
  /\ packet \in pending
  /\ packet.id = Len(delivered)
  /\ pending' = pending \ {packet}
  /\ delivered' = Append(delivered, packet)

Drop == pending' = {} /\ UNCHANGED delivered

Next ==
  \/ Drop
  \/ \E packet \in pending' : Put(packet)
  \/ \E packet \in pending : Deliver(packet)

Spec == Init /\ [][Next]_vars
============================================================================
