------------------------------ MODULE MCLifecycle -----------------------------
(***************************************************************************)
(* Instances of Lifecycle for TLC.                                         *)
(***************************************************************************)
EXTENDS Lifecycle, TLC

CONSTANT h1

\* Two virtual nodes per node.  Nodes 1 and 3 share the hash the walk from 6
\* meets first, so either may be the owner of the key; nodes 2 and 3 share the
\* hash 1, which the walk meets past the end of the slice.
MCVirtualKey == (1 :> {0, 7}) @@ (2 :> {1, 5}) @@ (3 :> {1, 7})
=============================================================================
