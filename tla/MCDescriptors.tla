--------------------------- MODULE MCDescriptors ---------------------------
EXTENDS Descriptors, TLC

CONSTANTS ter, a, b, proxy

(* The flows are alike, and every property says the same of both.          *)
MCSymmetry == Permutations(FlowConn)
============================================================================
