--------------------------- MODULE MCAiMaterials ---------------------------
(***************************************************************************)
(* Instances of AiMaterials for TLC.                                       *)
(***************************************************************************)
EXTENDS AiMaterials, TLC

CONSTANT u1
=============================================================================
