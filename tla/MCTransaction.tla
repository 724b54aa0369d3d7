---------------------------- MODULE MCTransaction ----------------------------
(* Small instances of Transaction for TLC.                                 *)
EXTENDS Transaction

CONSTANTS b1, b2, p1

BridgeSymmetry == Permutations(Bridges)
=============================================================================
