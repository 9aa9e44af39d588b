---------------------------- MODULE MCAgentCall ----------------------------
(* Limits of AgentCall for TLC: as in the pipeline, with small numbers.     *)
EXTENDS AgentCall

Unlimited == -1
=============================================================================
