---------------------------- MODULE MCAgentDrain ----------------------------
(***************************************************************************)
(* An instance of AgentDrain for TLC.                                      *)
(***************************************************************************)
EXTENDS AgentDrain

CONSTANT r1
=============================================================================
