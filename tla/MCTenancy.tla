----------------------------- MODULE MCTenancy ------------------------------
(* Instances of Tenancy for TLC. *)
EXTENDS Tenancy, TLC

CONSTANTS r1, r2

\* Requests are interchangeable; ids are not.
Symmetry == Permutations({r1, r2})
=============================================================================
