------------------------------ MODULE MCEngine ------------------------------
(* Engine on small instances. *)
EXTENDS Engine, TLC

Symmetry == Permutations(Key)
=============================================================================
