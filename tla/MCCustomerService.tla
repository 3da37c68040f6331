------------------------- MODULE MCCustomerService -------------------------
(***************************************************************************)
(* Instances of CustomerService for TLC.                                   *)
(***************************************************************************)
EXTENDS CustomerService, TLC

CONSTANTS s1, s2, g1, g2, r1, r2, app1

\* Both sessions belong to one application, so that they compete for its slots.
OneApp == [s \in Sessions |-> app1]

Symmetry == Permutations(Sessions) \cup Permutations(Agents)
              \cup Permutations(Requests)
=============================================================================
