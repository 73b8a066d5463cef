---------------------------- MODULE MCDocuments ----------------------------
(* Small instances of Documents: one field with two values, "x" and "y", and *)
(* one with a single value that two documents share.                         *)
EXTENDS Documents, TLC

CONSTANTS x, y, shared

MCEntry == {x, y, shared}
MCDoc   == {{x, shared}, {y, shared}}

Symmetry == Permutations(Call)
=============================================================================
