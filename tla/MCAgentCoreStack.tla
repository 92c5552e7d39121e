-------------------------- MODULE MCAgentCoreStack --------------------------
(* Instances of AgentCoreStack for TLC.                                    *)
EXTENDS AgentCoreStack

(* On both sides of the floor, the threshold and the ends of the scale.    *)
SampleValues == {-20, 0, 49, 50, 69, 70, 100, 120}
=============================================================================
