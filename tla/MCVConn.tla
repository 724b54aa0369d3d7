------------------------------ MODULE MCVConn ------------------------------
(* Instances of VConn for TLC.                                             *)
EXTENDS VConn, TLC

CONSTANTS f1, f2

FlowSymmetry == Permutations(Flows)
=============================================================================
