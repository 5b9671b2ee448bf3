----------------------------- MODULE BytePipes -----------------------------
(***************************************************************************)
(* What the endpoints of a proxied connection may expect: two pipes that   *)
(* deliver the bytes written at the other end in order, possibly not all.  *)
(* Byte number n of a stream is the number n.                              *)
(***************************************************************************)
EXTENDS Integers, Sequences

VARIABLES
  wrote,  \* how many bytes each end wrote
  got     \* the bytes each end received

End == {"near", "far"}
Other(end) == IF end = "near" THEN "far" ELSE "near"

PipesInit == wrote = [near |-> 0, far |-> 0] /\ got = [near |-> <<>>, far |-> <<>>]

Write(end) == wrote' = [wrote EXCEPT ![end] = @ + 1] /\ UNCHANGED got

Deliver(end) ==
  \E last \in Len(got[end])..(wrote[Other(end)] - 1) :
    got' = [got EXCEPT ![end] =
              @ \o [i \in 1..(last + 1 - Len(@)) |-> Len(@) + i - 1]]
  /\ UNCHANGED wrote

PipesNext == \E end \in End : Write(end) \/ Deliver(end)

PipesSpec == PipesInit /\ [][PipesNext]_<<wrote, got>>
============================================================================
