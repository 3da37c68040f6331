---------------------------- MODULE MCComfyTasks ----------------------------
(***************************************************************************)
(* Instances of ComfyTasks for TLC.                                        *)
(***************************************************************************)
EXTENDS ComfyTasks, TLC

CONSTANT c1
=============================================================================
