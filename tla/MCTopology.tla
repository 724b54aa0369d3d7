----------------------------- MODULE MCTopology -----------------------------
(* Small instances of Topology for TLC.                                    *)
EXTENDS Topology

CONSTANTS b1, b2, b3, p1

BridgeSymmetry == Permutations(Bridges)
=============================================================================
