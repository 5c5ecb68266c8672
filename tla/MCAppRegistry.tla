---------------------------- MODULE MCAppRegistry ----------------------------
(***************************************************************************)
(* AppRegistry for TLC: slugs and request slots are interchangeable.       *)
(***************************************************************************)
EXTENDS AppRegistry, TLC

Symmetry == Permutations(Slug) \cup Permutations(Request)
=============================================================================
