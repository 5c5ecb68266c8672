------------------------------ MODULE MCService ------------------------------
(***************************************************************************)
(* Service for TLC: replicas and keys are interchangeable.                 *)
(***************************************************************************)
EXTENDS Service, TLC

Symmetry ==
    Permutations(Process) \cup Permutations(ConfiguredKey) \cup Permutations(EphemeralKey)
=============================================================================
