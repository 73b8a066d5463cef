--------------------------- MODULE MCReplication ---------------------------
(***************************************************************************)
(* Instances of Replication for TLC.                                       *)
(***************************************************************************)
EXTENDS Replication, TLC

\* Values are interchangeable, and so are requests.
Symmetry == Permutations(Value) \union Permutations(Write)
=============================================================================
