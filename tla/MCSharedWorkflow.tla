--------------------------- MODULE MCSharedWorkflow --------------------------
(* Instances of SharedWorkflow.                                            *)
EXTENDS SharedWorkflow

(* A deploy beside a sign-in, a sign-out or a command that may refresh its *)
(* session or delete its environment; two first inits; two secret updates. *)
BesideDeploy ==
  {<<Deploy, Login>>, <<Deploy, Logout>>, <<Deploy, Delete>>,
   <<InitWorkspace, InitWorkspace>>, <<SecretSet, SecretDelete>>}
==============================================================================
