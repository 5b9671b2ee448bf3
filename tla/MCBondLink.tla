----------------------------- MODULE MCBondLink -----------------------------
(***************************************************************************)
(* Instances of BondLink for TLC.                                          *)
(***************************************************************************)
EXTENDS BondLink

Data(sender, id, size) ==
  [type |-> "FLOW", sender |-> sender, id |-> id, size |-> size, length |-> size]

TwoFlows == {"flow1", "flow2"}

(* Data and a close packet from one flow, data from another.               *)
TwoOutboxes ==
  [sender \in TwoFlows |->
     IF sender = "flow1" THEN <<Data("flow1", 1, 1), Data("flow1", 2, 0)>>
     ELSE <<Data("flow2", 1, 2)>>]
=============================================================================
