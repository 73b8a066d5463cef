------------------------------- MODULE HashRing -------------------------------
(***************************************************************************)
(* The consistent hash ring of cluster/hashring: the entries of a set of   *)
(* nodes sorted by hash, and the walk over them that gives a key its owner *)
(* and its replica owners.  Pure operators; Membership keeps a ring in its *)
(* state.                                                                  *)
(*                                                                         *)
(* Nearest is what the ring promises, stated without a ring: the owners of *)
(* a key are the nodes whose nearest virtual key, clockwise from the hash  *)
(* of the key, is least far away.                                          *)
(***************************************************************************)
EXTENDS Integers, FiniteSets, Sequences

CONSTANTS
    Node,        \* the identifiers of nodes; numbers, for their order
    HashSize,    \* the number of hash values, 2^32 for crc32
    VirtualKey   \* the hashes of the virtual nodes of each node

Hash == 0 .. HashSize - 1

ASSUME HashRingAssumption ==
    /\ IsFiniteSet(Node) /\ Node \subseteq Int
    /\ HashSize \in Nat \ {0}
    /\ VirtualKey \in [Node -> SUBSET Hash]
    /\ \A n \in Node : VirtualKey[n] # {} /\ IsFiniteSet(VirtualKey[n])

\* The entries AddNode puts in for each node of S.  Hashes of two nodes may
\* coincide; equal hashes of one node are one entry.
Entries(S) == UNION {[key : VirtualKey[n], node : {n}] : n \in S}

\* The slices AddNode may build, adding the nodes of S one after the other:
\* their entries sorted by key.  Those with equal keys come in any order, since
\* the nodes come in the order of a map and sort.Slice is not stable.
Sorted(S) ==
    {s \in [1 .. Cardinality(Entries(S)) -> Entries(S)] :
        /\ \A e \in Entries(S) : \E i \in DOMAIN s : s[i] = e
        /\ \A i, j \in DOMAIN s : i < j => s[i].key <= s[j].key}

\* A ring is its set of nodes and the sorted slice.
Rings == UNION {{[nodes |-> S, slice |-> s] : s \in Sorted(S)} : S \in SUBSET Node}

RingsOf(S) == {r \in Rings : r.nodes = S}

\* Mutated form: the place is the hash modulo the size of the ring.
StartIndexModulo(slice, h) == (h % Len(slice)) + 1

\* sort.Search: the first entry at or after h, or the first of all.
StartIndex(slice, h) ==
    IF \E i \in DOMAIN slice : slice[i].key >= h
    THEN CHOOSE i \in DOMAIN slice :
            /\ slice[i].key >= h
            /\ \A j \in DOMAIN slice : j < i => slice[j].key < h
    ELSE 1

\* Index of the i-th entry of the walk: (startIdx + i) % n.
Turn(slice, h, i) ==
    LET t == StartIndex(slice, h) + i - 1
    IN  IF t <= Len(slice) THEN t ELSE t - Len(slice)

Walk(slice, h) == [i \in DOMAIN slice |-> slice[Turn(slice, h, i)].node]

GetNode(ring, h) == ring.slice[StartIndex(ring.slice, h)].node

\* The places of the walk at which a node is met that was not seen before.
FirstSeen(walk) == {i \in DOMAIN walk : \A j \in DOMAIN walk : j < i => walk[j] # walk[i]}

Before(P, i) == {j \in P : j < i}

Least(a, b) == IF a <= b THEN a ELSE b

\* The first rf distinct nodes of the walk, in the order they are met.
ReplicaOwners(ring, h, rf) ==
    LET walk == Walk(ring.slice, h)
        first == FirstSeen(walk)
    IN  [k \in 1 .. Least(rf, Cardinality(first)) |->
            walk[CHOOSE i \in first : Cardinality(Before(first, i)) = k - 1]]

----------------------------------------------------------------------------
(* What the ring promises.                                                 *)

Clockwise(h, k) == IF k >= h THEN k - h ELSE k - h + HashSize

\* n comes no later than m clockwise from h.
Nearer(h, n, m) ==
    \A k \in VirtualKey[m] : \E j \in VirtualKey[n] : Clockwise(h, j) <= Clockwise(h, k)

\* owners are the rf nodes of S nearest to h, each once, the nearest first.
Nearest(owners, S, h, rf) ==
    /\ owners \in [1 .. Least(rf, Cardinality(S)) -> S]
    /\ \A i, j \in DOMAIN owners : i # j => owners[i] # owners[j]
    /\ \A i \in DOMAIN owners : \A n \in S :
          (\A j \in DOMAIN owners : j <= i => owners[j] # n) => Nearer(h, owners[i], n)

\* From ring r to ring s, a node takes the place of another among the owners of
\* h only if it is new, or the other is gone, or they are equally near.
MovesOnlyFor(r, s, h, rf) ==
    LET before == ReplicaOwners(r, h, rf)
        after == ReplicaOwners(s, h, rf)
        Old == {before[i] : i \in DOMAIN before}
        New == {after[i] : i \in DOMAIN after}
    IN  \A x \in New \ Old, y \in Old \ New :
            \/ x \notin r.nodes
            \/ y \notin s.nodes
            \/ Nearer(h, x, y) /\ Nearer(h, y, x)
=============================================================================
