--------------------------- MODULE MCSoloWorkflow ---------------------------
(* Instances of SoloWorkflow.                                              *)
EXTENDS SoloWorkflow, TLC

CONSTANTS e1, e2

(* Every environment on every node that is there from the start.           *)
AllAttached == [e \in Envs |-> InitialNodes]

(* Every environment on the first node.                                    *)
CoHosted == [e \in Envs |-> {1}]

Symmetric == Permutations(Clis) \cup Permutations(Commits)
=============================================================================
