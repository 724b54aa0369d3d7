----------------------------- MODULE MCPipelines -----------------------------
(* Instances of Pipelines for TLC.                                         *)
EXTENDS Pipelines

(* The theorems of PipelinesProofs apply to these instances.               *)
ASSUME TemplatesApart == LearnsAlone /\ \A ts \in {{"vlan"}, Sparing, NatTemplates} : UsedApart(ts)
=============================================================================
