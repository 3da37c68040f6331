------------------------ MODULE MCContentGeneration ------------------------
(***************************************************************************)
(* Instances of ContentGeneration for TLC.                                 *)
(***************************************************************************)
EXTENDS ContentGeneration, TLC

CONSTANTS a1, u1, p1, p2

OneArticle == a1 :> u1
=============================================================================
