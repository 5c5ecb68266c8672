------------------------------ MODULE MCIdentity ------------------------------
(***************************************************************************)
(* Identity for TLC: emails and request slots are interchangeable.         *)
(***************************************************************************)
EXTENDS Identity, TLC

Symmetry == Permutations(Email) \cup Permutations(Request)
=============================================================================
