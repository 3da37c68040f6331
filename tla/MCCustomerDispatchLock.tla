----------------------- MODULE MCCustomerDispatchLock -----------------------
(***************************************************************************)
(* Instances of CustomerDispatchLock for TLC.                              *)
(***************************************************************************)
EXTENDS CustomerDispatchLock, TLC

CONSTANTS p1, p2, t1, t2
=============================================================================
