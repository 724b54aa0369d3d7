-------------------------- MODULE MCOvsdbClient --------------------------
(* Small instances of OvsdbClient for TLC.                                 *)
EXTENDS OvsdbClient, TLC

CONSTANTS r1, r2, a, b

ValueSymmetry == Permutations(Values)
=============================================================================
