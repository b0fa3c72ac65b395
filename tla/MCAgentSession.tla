--------------------------- MODULE MCAgentSession ---------------------------
(* Instances of AgentSession for TLC. *)
EXTENDS AgentSession
=============================================================================
