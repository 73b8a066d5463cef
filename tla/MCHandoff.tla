------------------------------ MODULE MCHandoff ------------------------------
(***************************************************************************)
(* Instances of Handoff for TLC.                                           *)
(***************************************************************************)
EXTENDS Handoff, TLC

\* Requests are interchangeable.
RequestSymmetry == Permutations(Request)
=============================================================================
