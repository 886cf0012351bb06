------------------------- MODULE MCPermissionClient -------------------------
(* Instances of PermissionClient for TLC. *)
EXTENDS PermissionClient, TLC

(* Calls differ in nothing but their names and in what they may call, and  *)
(* users in nothing but their names.                                       *)
Symmetry ==
    Permutations(Calls \ Explainers) \cup Permutations(Explainers) \cup Permutations(Users)
=============================================================================
