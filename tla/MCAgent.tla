------------------------------- MODULE MCAgent -------------------------------
(* TLC instances of AgentProperties. *)
EXTENDS AgentProperties
=============================================================================
