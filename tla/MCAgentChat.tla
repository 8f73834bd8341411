---------------------------- MODULE MCAgentChat ----------------------------
(* Instances of module AgentChat for TLC.                                   *)
EXTENDS AgentChat
=============================================================================
