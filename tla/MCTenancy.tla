------------------------------ MODULE MCTenancy ------------------------------
(***************************************************************************)
(* Tenancy for TLC: users, slugs, names and request slots are each         *)
(* interchangeable.                                                        *)
(***************************************************************************)
EXTENDS Tenancy, TLC

Symmetry ==
    Permutations(User) \cup Permutations(Slug) \cup Permutations(Name)
      \cup Permutations(Request)
=============================================================================
