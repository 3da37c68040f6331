-------------------------- MODULE MCAgentActions --------------------------
(***************************************************************************)
(* Instances of AgentActions for TLC.                                      *)
(***************************************************************************)
EXTENDS AgentActions, TLC

CONSTANT m1
=============================================================================
