------------------------- MODULE MCPermissionSystem -------------------------
(* Instances of PermissionSystem for TLC. *)
EXTENDS PermissionSystem, TLC

(* Calls differ in nothing but their names and in what they may call, and  *)
(* the properties of the runs that use this set are invariants or step     *)
(* properties.                                                             *)
Symmetry == Permutations(Calls \ Explainers) \cup Permutations(Explainers)
=============================================================================
