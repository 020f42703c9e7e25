----------------------------- MODULE MCUserAdmin -----------------------------
(***************************************************************************)
(* A small instance of UserAdmin: three accounts, two overlapping requests *)
(***************************************************************************)
EXTENDS UserAdmin, TLC

Symmetry == Permutations(Ids) \cup Permutations(Requests)
=============================================================================
