--------------------- MODULE MCLockFreeFlowPacketQueue ---------------------
EXTENDS LockFreeFlowPacketQueue

(* Three inserters: two meet at the head or at one place in the middle, in *)
(* every order, and one brings an id that another one brings too.          *)
MCInserter == {"a", "b", "c"}
MCOutbox == [t \in MCInserter |->
  CASE t = "a" -> <<2, 0>> [] t = "b" -> <<1, 3>> [] t = "c" -> <<1>>]
============================================================================
