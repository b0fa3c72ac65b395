------------------------- MODULE MCDeploymentRollout -------------------------
(* DeploymentRollout for TLC: which releases share a commit, and the        *)
(* symmetry of the threads, which no property tells apart.                  *)
EXTENDS DeploymentRollout, TLC

(* Every release of a commit of its own; all releases of one commit.        *)
OwnRevision    == [rel \in Releases |-> rel]
SharedRevision == [rel \in Releases |-> CHOOSE rev \in Revisions : TRUE]

Symmetric == Permutations(Workers) \cup Permutations(Requests)
=============================================================================
