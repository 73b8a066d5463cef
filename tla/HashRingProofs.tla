---------------------------- MODULE HashRingProofs ----------------------------
(***************************************************************************)
(* Theorems about HashRing, for any nodes, hashes and virtual keys: a ring *)
(* answers with the nodes nearest to the key, and so keys move only where  *)
(* they have to.                                                           *)
(***************************************************************************)
EXTENDS HashRing, FiniteSetTheorems, SequenceTheorems, WellFoundedInduction, TLAPS

\* What is needed of a slice s built for the nodes of S.
IsRing(S, s) ==
    /\ S \in SUBSET Node
    /\ s \in Seq([key : Hash, node : S])
    /\ \A i \in DOMAIN s : s[i].key \in VirtualKey[s[i].node]
    /\ \A n \in S : \A k \in VirtualKey[n] :
          \E i \in DOMAIN s : s[i].node = n /\ s[i].key = k
    /\ \A i, j \in DOMAIN s : i < j => s[i].key <= s[j].key

----------------------------------------------------------------------------
(* Numbers and counting.                                                   *)

\* A non-empty set of positions has a first one.
LEMMA Lowest ==
  ASSUME NEW n \in Nat, NEW H, H \subseteq 1..n, H # {}
  PROVE  \E i \in H : \A j \in H : i <= j
<1> DEFINE R == OpToRel(<, Nat)
<1>1. IsWellFoundedOn(R, Nat)
  BY NatLessThanWellFounded
<1>2. H \subseteq Nat
  OBVIOUS
<1>3. PICK x \in H : \A y \in H : ~ (<<y, x>> \in R)
  <2> HIDE DEF R
  <2> QED BY <1>1, <1>2, WFMin
<1>4. \A y \in H : ~ (y < x)
  BY <1>2, <1>3 DEF OpToRel
<1> HIDE DEF R
<1> QED BY <1>4, <1>2

\* The more positions before one, the later it is.
LEMMA RankGrows ==
  ASSUME NEW n \in Nat, NEW H, H \subseteq 1..n, NEW i \in H
  PROVE  /\ Cardinality(Before(H, i)) \in Nat
         /\ Cardinality(Before(H, i)) < Cardinality(H)
         /\ Cardinality(H) \in Nat
         /\ \A j \in H : i < j => Cardinality(Before(H, i)) < Cardinality(Before(H, j))
<1>0. \A x \in H : x \in Int
  OBVIOUS
<1>1. IsFiniteSet(H) /\ Cardinality(H) \in Nat
  <2>1. IsFiniteSet(1..n)
    BY FS_Interval
  <2> QED BY <2>1, FS_Subset, FS_CardinalityType
<1>2. ASSUME NEW A, NEW B, A \subseteq B, A # B, B \subseteq H
      PROVE  Cardinality(A) \in Nat /\ Cardinality(B) \in Nat /\ Cardinality(A) < Cardinality(B)
  <2>1. IsFiniteSet(B)
    BY <1>1, <1>2, FS_Subset
  <2>2. IsFiniteSet(A) /\ Cardinality(A) <= Cardinality(B) /\ (Cardinality(B) = Cardinality(A) => B = A)
    BY <2>1, <1>2, FS_Subset
  <2>3. Cardinality(A) \in Nat /\ Cardinality(B) \in Nat
    BY <2>1, <2>2, FS_CardinalityType
  <2> QED BY <2>2, <2>3, <1>2
<1>3. Before(H, i) \subseteq H /\ Before(H, i) # H
  <2>1. i \notin Before(H, i)
    BY <1>0 DEF Before
  <2> QED BY <2>1 DEF Before
<1>4. Cardinality(Before(H, i)) \in Nat /\ Cardinality(Before(H, i)) < Cardinality(H)
  <2> QED BY <1>2, <1>3
<1>5. ASSUME NEW j \in H, i < j PROVE Cardinality(Before(H, i)) < Cardinality(Before(H, j))
  <2>1. i \in Before(H, j) /\ i \notin Before(H, i) /\ Before(H, j) \subseteq H
    BY <1>5, <1>0 DEF Before
  <2>2. ASSUME NEW x \in H, x < i PROVE x < j
    BY <1>5, <2>2, <1>0
  <2>3. Before(H, i) \subseteq Before(H, j)
    BY <2>2 DEF Before
  <2> QED BY <2>1, <2>3, <1>2
<1> QED BY <1>1, <1>4, <1>5

\* In a set of c positions there is, for each k below c, one with k before it.
LEMMA RankExists ==
  ASSUME NEW n \in Nat, NEW H, H \subseteq 1..n,
         NEW k \in Nat, k < Cardinality(H)
  PROVE  \E i \in H : Cardinality(Before(H, i)) = k
<1> DEFINE c == Cardinality(H)
           T == 0..(c - 1)
           f == [i \in H |-> Cardinality(Before(H, i))]
<1>0. \A i \in H : i \in Int
  OBVIOUS
<1>1. IsFiniteSet(H) /\ c \in Nat
  <2>1. IsFiniteSet(1..n)
    BY FS_Interval
  <2> QED BY <2>1, FS_Subset, FS_CardinalityType
<1>2. \A i \in H : f[i] = Cardinality(Before(H, i))
  OBVIOUS
<1>3. \A i \in H : f[i] \in Nat /\ f[i] < c /\ \A j \in H : i < j => f[i] < f[j]
  <2> SUFFICES ASSUME NEW i \in H
               PROVE  f[i] \in Nat /\ f[i] < c /\ \A j \in H : i < j => f[i] < f[j]
    OBVIOUS
  <2>1. /\ Cardinality(Before(H, i)) \in Nat
        /\ Cardinality(Before(H, i)) < Cardinality(H)
        /\ \A j \in H : i < j => Cardinality(Before(H, i)) < Cardinality(Before(H, j))
    BY RankGrows
  <2> HIDE DEF f
  <2> QED BY <2>1, <1>2
<1>4. IsFiniteSet(T) /\ Cardinality(T) = c
  <2>1. 0 \in Int /\ c - 1 \in Int
    BY <1>1
  <2> HIDE DEF c
  <2> QED BY <1>1, <2>1, FS_Interval
<1>5. f \in Injection(H, T)
  <2>1. f \in [H -> T]
    <3>1. \A i \in H : f[i] \in T
      BY <1>1, <1>3
    <3>2. f = [i \in H |-> f[i]]
      OBVIOUS
    <3> HIDE DEF f, T
    <3> QED BY <3>1, <3>2
  <2>2. ASSUME NEW i \in H, NEW j \in H, f[i] = f[j] PROVE i = j
    <3> HIDE DEF f, c
    <3>1. f[i] \in Int /\ ~ (f[i] < f[j]) /\ ~ (f[j] < f[i])
      BY <1>3, <2>2
    <3> QED BY <3>1, <1>3, <1>0
  <2> HIDE DEF f, T
  <2> QED BY <2>1, <2>2 DEF Injection, IsInjective
<1>6. f \in Surjection(H, T)
  <2> HIDE DEF f, T, c
  <2> QED BY <1>4, <1>5, <1>1, FS_Injection DEF c
<1>7. k \in T
  BY <1>1
<1>8. PICK i \in H : f[i] = k
  <2> HIDE DEF f, T
  <2> QED BY <1>6, <1>7 DEF Surjection
<1> QED BY <1>8

----------------------------------------------------------------------------
(* The slices.                                                             *)

LEMMA EntriesFinite ==
  ASSUME NEW S \in SUBSET Node
  PROVE  /\ IsFiniteSet(Entries(S))
         /\ Entries(S) \subseteq [key : Hash, node : S]
         /\ \A e \in Entries(S) : e.key \in VirtualKey[e.node]
<1>1. \A e \in Entries(S) : e \in [key : Hash, node : S] /\ e.key \in VirtualKey[e.node]
  <2> SUFFICES ASSUME NEW n \in S, NEW e \in [key : VirtualKey[n], node : {n}]
               PROVE  e \in [key : Hash, node : S] /\ e.key \in VirtualKey[e.node]
    BY DEF Entries
  <2>1. VirtualKey[n] \subseteq Hash
    BY HashRingAssumption
  <2> QED BY <2>1
<1>2. IsFiniteSet(Hash \X Node)
  <2>1. HashSize - 1 \in Int /\ 0 \in Int
    BY HashRingAssumption
  <2>2. IsFiniteSet(Hash)
    BY <2>1, FS_Interval DEF Hash
  <2> QED BY <2>2, HashRingAssumption, FS_Product
<1>3. IsFiniteSet(Entries(S))
  <2> DEFINE E == Entries(S)
             f == [e \in E |-> <<e.key, e.node>>]
  <2>1. \A e \in E : e \in [key : Hash, node : S]
    BY <1>1
  <2>2. f \in [E -> Hash \X Node]
    <3> HIDE DEF E
    <3> QED BY <2>1
  <2>3. ASSUME NEW a \in E, NEW b \in E, f[a] = f[b] PROVE a = b
    <3>1. a.key = b.key /\ a.node = b.node
      BY <2>3
    <3> HIDE DEF E, f
    <3> QED BY <2>1, <3>1
  <2>4. f \in Injection(E, Hash \X Node)
    <3> HIDE DEF E, f
    <3> QED BY <2>2, <2>3 DEF Injection, IsInjective
  <2> HIDE DEF f
  <2> QED BY <2>4, <1>2, FS_Injection
<1> QED BY <1>1, <1>3

LEMMA RingShape ==
  ASSUME NEW r \in Rings
  PROVE  /\ IsRing(r.nodes, r.slice)
         /\ r.nodes # {} <=> r.slice # <<>>
<1>0. PICK S \in SUBSET Node : r \in {[nodes |-> S, slice |-> s] : s \in Sorted(S)}
  BY DEF Rings
<1>1. PICK s \in Sorted(S) : r = [nodes |-> S, slice |-> s]
  BY <1>0
<1> DEFINE E == Entries(S)
           N == Cardinality(E)
<1>2. /\ s \in [1..N -> E]
      /\ \A e \in E : \E i \in DOMAIN s : s[i] = e
      /\ \A i, j \in DOMAIN s : i < j => s[i].key <= s[j].key
  BY DEF Sorted
<1>3. N \in Nat
  BY EntriesFinite, FS_CardinalityType
<1>4. /\ E \subseteq [key : Hash, node : S]
      /\ \A e \in E : e.key \in VirtualKey[e.node]
  BY EntriesFinite
<1>5. s \in Seq([key : Hash, node : S]) /\ DOMAIN s = 1..N
  <2> DEFINE R == [key : Hash, node : S]
  <2>1. s \in [1..N -> R]
    <3> HIDE DEF E, N
    <3> QED BY <1>2, <1>4
  <2> HIDE DEF N, R
  <2>2. s \in Seq(R) /\ DOMAIN s = 1..N
    BY <2>1, <1>3
  <2> QED BY <2>2 DEF R
<1>6. ASSUME NEW n \in S, NEW k \in VirtualKey[n]
      PROVE  \E i \in DOMAIN s : s[i].node = n /\ s[i].key = k
  <2>1. [key |-> k, node |-> n] \in E
    BY DEF Entries
  <2>2. PICK i \in DOMAIN s : s[i] = [key |-> k, node |-> n]
    BY <2>1, <1>2
  <2> QED BY <2>2
<1>7. \A i \in DOMAIN s : s[i].key \in VirtualKey[s[i].node]
  <2> HIDE DEF E, N
  <2> QED BY <1>2, <1>4
<1>8. IsRing(S, s)
  <2> HIDE DEF E, N
  <2> QED BY <1>2, <1>5, <1>6, <1>7 DEF IsRing
<1>9. S # {} <=> s # <<>>
  <2>1. CASE S = {}
    <3>1. ~ (\E i \in DOMAIN s : TRUE)
      <4> HIDE DEF E, N
      <4> QED BY <2>1, <1>2, <1>4
    <3>2. DOMAIN s = {}
      BY <3>1
    <3> QED BY <3>2, <1>5, <2>1
  <2>2. CASE S # {}
    <3>1. PICK n \in S : TRUE
      BY <2>2
    <3>2. PICK k \in VirtualKey[n] : TRUE
      BY <3>1, HashRingAssumption
    <3>3. DOMAIN s # {}
      BY <3>2, <1>6
    <3> QED BY <3>3, <2>2
  <2> QED BY <2>1, <2>2
<1> QED BY <1>1, <1>8, <1>9

\* The entries before place st come after h once around; st may be 1.
StartsAt(s, h, st) ==
    /\ st \in 1..Len(s)
    /\ \A i \in 1..Len(s) : i < st => s[i].key < h
    /\ \/ \A i \in 1..Len(s) : i >= st => s[i].key >= h
       \/ st = 1 /\ \A i \in 1..Len(s) : s[i].key < h

\* Where sort.Search finds the place of h.
LEMMA StartFacts ==
  ASSUME NEW S, NEW s, IsRing(S, s), s # <<>>, NEW h \in Hash
  PROVE  /\ Len(s) \in Nat \ {0} /\ DOMAIN s = 1..Len(s)
         /\ \A i \in 1..Len(s) : s[i].key \in Hash
         /\ StartsAt(s, h, StartIndex(s, h))
<1>1. Len(s) \in Nat \ {0} /\ DOMAIN s = 1..Len(s) /\ \A i \in 1..Len(s) : s[i].key \in Hash
  <2> DEFINE R == [key : Hash, node : S]
  <2>1. s \in Seq(R)
    BY DEF IsRing
  <2>2. \A e \in R : e.key \in Hash
    OBVIOUS
  <2> HIDE DEF R
  <2>3. Len(s) \in Nat \ {0} /\ DOMAIN s = 1..Len(s) /\ \A i \in 1..Len(s) : s[i] \in R
    BY <2>1, EmptySeq, LenProperties
  <2> QED BY <2>2, <2>3
<1>2. \A i \in 1..Len(s) : s[i].key \in Int /\ h \in Int
  BY <1>1 DEF Hash
<1>3. CASE \E i \in DOMAIN s : s[i].key >= h
  <2> DEFINE H == {i \in 1..Len(s) : s[i].key >= h}
  <2>1. PICK i \in H : \A j \in H : i <= j
    <3>1. H \subseteq 1..Len(s) /\ H # {}
      BY <1>1, <1>3
    <3> HIDE DEF H
    <3> QED BY <3>1, <1>1, Lowest
  <2>2. i \in DOMAIN s /\ s[i].key >= h /\ \A j \in DOMAIN s : j < i => s[j].key < h
    <3> SUFFICES ASSUME NEW j \in DOMAIN s, j < i PROVE s[j].key < h
      BY <1>1
    <3>1. j \notin H
      BY <2>1, <1>1
    <3> QED BY <3>1, <1>1, <1>2
  <2> DEFINE st == StartIndex(s, h)
  <2>3. st \in DOMAIN s /\ s[st].key >= h /\ \A j \in DOMAIN s : j < st => s[j].key < h
    BY <2>2, <1>3 DEF StartIndex
  <2>4. ASSUME NEW j \in 1..Len(s), j >= st PROVE s[j].key >= h
    <3>1. st < j \/ st = j
      BY <2>3, <2>4, <1>1
    <3>2. s[st].key <= s[j].key
      BY <3>1, <2>3, <1>1, <1>2 DEF IsRing
    <3> QED BY <3>2, <2>3, <1>1, <1>2
  <2> HIDE DEF st, H
  <2> QED BY <1>1, <2>3, <2>4 DEF st, StartsAt
<1>4. CASE ~ \E i \in DOMAIN s : s[i].key >= h
  <2>1. StartIndex(s, h) = 1
    BY <1>4 DEF StartIndex
  <2>2. \A j \in 1..Len(s) : s[j].key < h
    BY <1>4, <1>1, <1>2
  <2> QED BY <1>1, <2>1, <2>2 DEF StartsAt
<1> QED BY <1>3, <1>4

\* Len(s) steps around the ring reach every entry once, in clockwise order.
LEMMA TurnFacts ==
  ASSUME NEW S, NEW s, IsRing(S, s), s # <<>>, NEW h \in Hash
  PROVE  /\ \A i \in 1..Len(s) : Turn(s, h, i) \in 1..Len(s)
         /\ \A t \in 1..Len(s) : \E i \in 1..Len(s) : Turn(s, h, i) = t
         /\ \A i, j \in 1..Len(s) : i < j =>
               Clockwise(h, s[Turn(s, h, i)].key) <= Clockwise(h, s[Turn(s, h, j)].key)
<1> DEFINE n == Len(s)
           st == StartIndex(s, h)
           T(i) == IF st + i - 1 <= n THEN st + i - 1 ELSE st + i - 1 - n
           C(i) == Clockwise(h, s[i].key)
<1>1. n \in Nat \ {0} /\ DOMAIN s = 1..n /\ StartsAt(s, h, st) /\ \A i \in 1..n : s[i].key \in Hash
  BY StartFacts
<1>2. st \in 1..n
  BY <1>1 DEF StartsAt
<1>3. \A i \in 1..n : Turn(s, h, i) = T(i)
  BY <1>1, <1>2 DEF Turn
<1>4. \A i \in 1..n : T(i) \in 1..n
  <2> HIDE DEF n, st
  <2> QED BY <1>1, <1>2
<1>5. ASSUME NEW t \in 1..n PROVE \E i \in 1..n : T(i) = t
  <2> HIDE DEF n, st
  <2>1. CASE t >= st
    <3>1. t - st + 1 \in 1..n /\ T(t - st + 1) = t
      BY <2>1, <1>1, <1>2
    <3> QED BY <3>1
  <2>2. CASE t < st
    <3>1. t - st + 1 + n \in 1..n /\ T(t - st + 1 + n) = t
      BY <2>2, <1>1, <1>2
    <3> QED BY <3>1
  <2> QED BY <2>1, <2>2, <1>1, <1>2
<1>6. \A a, b \in 1..n : a < b => s[a].key <= s[b].key
  BY <1>1 DEF IsRing
<1>7. ASSUME NEW i \in 1..n, NEW j \in 1..n, i < j PROVE C(T(i)) <= C(T(j))
  <2>1. PICK a \in 1..n : a = T(i)
    BY <1>4
  <2>2. PICK b \in 1..n : b = T(j)
    BY <1>4
  <2>3. h \in Int /\ HashSize \in Int /\ s[a].key \in Int /\ s[b].key \in Int
        /\ s[a].key < HashSize /\ s[b].key >= 0 /\ s[a].key >= 0 /\ s[b].key < HashSize /\ h < HashSize /\ h >= 0
    BY <1>1, HashRingAssumption DEF Hash
  <2>4. \/ a < b /\ a >= st
        \/ a < b /\ b < st
        \/ b < st /\ a >= st
    <3> HIDE DEF n, st
    <3> QED BY <1>1, <1>2, <1>7, <2>1, <2>2
  <2>5. /\ a < b => s[a].key <= s[b].key
        /\ a < st => s[a].key < h
        /\ b < st => s[b].key < h
        /\ \/ /\ a >= st => s[a].key >= h
              /\ b >= st => s[b].key >= h
           \/ st = 1 /\ s[a].key < h /\ s[b].key < h
    <3> HIDE DEF n, st
    <3> QED BY <1>1, <1>6 DEF StartsAt, n
  <2>6. st \in Int /\ a \in Int /\ b \in Int /\ st >= 1 /\ b >= 1
    BY <1>1, <1>2
  <2>7. C(a) <= C(b)
    <3>1. PICK x \in Int : x = s[a].key
      BY <2>3
    <3>2. PICK y \in Int : y = s[b].key
      BY <2>3
    <3>3. x < HashSize /\ y < HashSize /\ x >= 0 /\ y >= 0 /\ h < HashSize /\ h >= 0
      BY <2>3, <3>1, <3>2
    <3>4. \/ x <= y /\ (x >= h <=> y >= h)
          \/ x >= h /\ y < h
      <4> HIDE DEF n, st
      <4> QED BY <2>3, <2>4, <2>5, <2>6, <3>1, <3>2
    <3>5. Clockwise(h, x) <= Clockwise(h, y)
      BY <2>3, <3>3, <3>4 DEF Clockwise
    <3> QED BY <3>1, <3>2, <3>5
  <2> QED BY <2>1, <2>2, <2>7
<1> HIDE DEF T
<1> QED BY <1>3, <1>4, <1>5, <1>7

\* Every virtual key of a node of the ring is somewhere on the walk.
LEMMA WalkFacts ==
  ASSUME NEW S, NEW s, IsRing(S, s), s # <<>>, NEW h \in Hash
  PROVE  /\ Len(s) \in Nat \ {0}
         /\ Walk(s, h) \in [1..Len(s) -> S]
         /\ \A i \in 1..Len(s) : s[Turn(s, h, i)].key \in VirtualKey[Walk(s, h)[i]]
         /\ \A n \in S : \A k \in VirtualKey[n] :
               \E i \in 1..Len(s) : Walk(s, h)[i] = n /\ s[Turn(s, h, i)].key = k
<1>1. Len(s) \in Nat \ {0} /\ DOMAIN s = 1..Len(s)
  BY StartFacts
<1>2. \A i \in 1..Len(s) : Walk(s, h)[i] = s[Turn(s, h, i)].node
  BY <1>1 DEF Walk
<1>3. \A i \in 1..Len(s) : s[i].node \in S
  <2> DEFINE R == [key : Hash, node : S]
  <2>1. \A i \in 1..Len(s) : s[i] \in R
    <3>1. s \in Seq(R)
      BY DEF IsRing
    <3> HIDE DEF R
    <3> QED BY <3>1, LenProperties
  <2> QED BY <2>1
<1>4. Walk(s, h) \in [1..Len(s) -> S]
  <2>1. \A i \in 1..Len(s) : s[Turn(s, h, i)].node \in S
    BY <1>3, TurnFacts
  <2> QED BY <2>1, <1>1 DEF Walk
<1>5. ASSUME NEW i \in 1..Len(s)
      PROVE  s[Turn(s, h, i)].key \in VirtualKey[Walk(s, h)[i]]
  <2>1. Turn(s, h, i) \in DOMAIN s
    BY <1>1, TurnFacts
  <2> QED BY <2>1, <1>2 DEF IsRing
<1>6. ASSUME NEW n \in S, NEW k \in VirtualKey[n]
      PROVE  \E i \in 1..Len(s) : Walk(s, h)[i] = n /\ s[Turn(s, h, i)].key = k
  <2>1. PICK t \in DOMAIN s : s[t].node = n /\ s[t].key = k
    BY DEF IsRing
  <2>2. PICK i \in 1..Len(s) : Turn(s, h, i) = t
    BY <1>1, <2>1, TurnFacts
  <2> QED BY <2>1, <2>2, <1>2
<1> QED BY <1>1, <1>4, <1>5, <1>6

----------------------------------------------------------------------------
(* The owners.                                                             *)

\* The walk w of n steps meets the nodes of S and no others.
Covers(w, n, S) == w \in [1..n -> S] /\ \A x \in S : \E i \in 1..n : w[i] = x

\* In the places F it meets each of them for the first time.
SeenOnce(F, w, n, S) ==
    /\ F \subseteq 1..n
    /\ \A i, j \in F : w[i] = w[j] => i = j
    /\ \A i \in 1..n : \E j \in F : w[j] = w[i] /\ j <= i
    /\ Cardinality(F) = Cardinality(S)

\* Each node is first seen at one place of the walk.
LEMMA FirstSeenFacts ==
  ASSUME NEW n \in Nat, NEW S, NEW w, Covers(w, n, S)
  PROVE  SeenOnce(FirstSeen(w), w, n, S)
<1> DEFINE F == FirstSeen(w)
<1>0. w \in [1..n -> S] /\ \A x \in S : \E i \in 1..n : w[i] = x
  BY DEF Covers
<1>1. F \subseteq 1..n /\ \A i \in F : \A j \in 1..n : j < i => w[j] # w[i]
  BY <1>0 DEF FirstSeen
<1>2. \A i, j \in F : w[i] = w[j] => i = j
  <2> SUFFICES ASSUME NEW i \in F, NEW j \in F, w[i] = w[j] PROVE i = j
    OBVIOUS
  <2>1. i \in 1..n /\ j \in 1..n /\ ~ (i < j) /\ ~ (j < i)
    BY <1>1
  <2> QED BY <2>1
<1>3. ASSUME NEW i \in 1..n PROVE \E j \in F : w[j] = w[i] /\ j <= i
  <2> DEFINE H == {j \in 1..n : w[j] = w[i]}
  <2>1. PICK j \in H : \A l \in H : j <= l
    <3>1. H \subseteq 1..n /\ H # {}
      OBVIOUS
    <3> HIDE DEF H
    <3> QED BY <3>1, Lowest
  <2>2. \A l \in 1..n : l < j => w[l] # w[j]
    BY <2>1
  <2>3. j \in F
    BY <1>0, <2>1, <2>2 DEF FirstSeen
  <2> QED BY <2>1, <2>3
<1>4. Cardinality(F) = Cardinality(S)
  <2> DEFINE f == [i \in F |-> w[i]]
  <2> HIDE DEF F
  <2>1. f \in [F -> S]
    BY <1>0, <1>1
  <2>2. \A x \in S : \E i \in F : f[i] = x
    BY <1>0, <1>3
  <2>3. \A i, j \in F : f[i] = f[j] => i = j
    BY <1>2
  <2>4. f \in Bijection(F, S)
    <3> HIDE DEF f
    <3> QED BY <2>1, <2>2, <2>3 DEF Bijection, Injection, Surjection, IsInjective
  <2>5. IsFiniteSet(F)
    <3>1. IsFiniteSet(1..n)
      BY FS_Interval
    <3> QED BY <3>1, <1>1, FS_Subset
  <2> HIDE DEF f
  <2> QED BY <2>4, <2>5, FS_Bijection DEF ExistsBijection
<1> QED BY <1>1, <1>2, <1>3, <1>4 DEF SeenOnce

\* ReplicaOwners answers with the nodes nearest to the hash, the nearest first.
THEOREM OwnersNearest ==
  ASSUME NEW r \in Rings, r.nodes # {}, NEW h \in Hash, NEW rf \in Nat \ {0}
  PROVE  Nearest(ReplicaOwners(r, h, rf), r.nodes, h, rf)
<1> DEFINE S == r.nodes
           s == r.slice
           n == Len(s)
           w == Walk(s, h)
           F == FirstSeen(w)
           rank(i) == Cardinality(Before(F, i))
           m == Least(rf, Cardinality(S))
           P(k) == CHOOSE i \in F : rank(i) = k - 1
           owners == [k \in 1..m |-> w[P(k)]]
<1>1. IsRing(S, s) /\ s # <<>>
  BY RingShape
<1>2. /\ n \in Nat \ {0}
      /\ w \in [1..n -> S]
      /\ \A i \in 1..n : s[Turn(s, h, i)].key \in VirtualKey[w[i]]
      /\ \A x \in S : \A k \in VirtualKey[x] : \E i \in 1..n : w[i] = x /\ s[Turn(s, h, i)].key = k
  <2> HIDE DEF S, s
  <2> QED BY <1>1, WalkFacts
<1>3. \A x \in S : VirtualKey[x] # {}
  BY <1>1, HashRingAssumption DEF IsRing
<1>4. \A x \in S : \E i \in 1..n : w[i] = x
  <2> HIDE DEF S, n, w
  <2> QED BY <1>2, <1>3
<1>5. /\ F \subseteq 1..n
      /\ \A i, j \in F : w[i] = w[j] => i = j
      /\ \A i \in 1..n : \E j \in F : w[j] = w[i] /\ j <= i
      /\ Cardinality(F) = Cardinality(S)
  <2>1. n \in Nat /\ w \in [1..n -> S]
    BY <1>2
  <2>2. Covers(w, n, S)
    BY <2>1, <1>4 DEF Covers
  <2> HIDE DEF S, n, w
  <2>3. SeenOnce(FirstSeen(w), w, n, S)
    BY <2>1, <2>2, FirstSeenFacts
  <2> QED BY <2>3 DEF SeenOnce
<1>0. n \in Nat /\ F \subseteq 1..n /\ Cardinality(F) \in Nat /\ \A i \in F : i \in Int
  <2>1. n \in Nat /\ F \subseteq 1..n
    BY <1>2, <1>5
  <2> HIDE DEF F, n
  <2>2. IsFiniteSet(1..n)
    BY <2>1, FS_Interval
  <2>3. Cardinality(F) \in Nat
    BY <2>1, <2>2, FS_Subset, FS_CardinalityType
  <2> QED BY <2>1, <2>3
<1>6. \A i \in F : rank(i) \in Nat /\ rank(i) < Cardinality(F) /\ \A j \in F : i < j => rank(i) < rank(j)
  <2> SUFFICES ASSUME NEW i \in F
               PROVE  rank(i) \in Nat /\ rank(i) < Cardinality(F) /\ \A j \in F : i < j => rank(i) < rank(j)
    OBVIOUS
  <2> HIDE DEF F, n
  <2> QED BY <1>0, RankGrows
<1>8. m \in Nat /\ \A k \in 1..m : k \in Nat /\ k - 1 \in Nat /\ k - 1 < Cardinality(F)
  <2> HIDE DEF F, S
  <2> QED BY <1>5, <1>0 DEF Least
<1>9. \A k \in 1..m : P(k) \in F /\ rank(P(k)) = k - 1
  <2> HIDE DEF F, m
  <2> SUFFICES ASSUME NEW k \in 1..m PROVE \E i \in F : rank(i) = k - 1
    BY Zenon
  <2>1. k - 1 \in Nat /\ k - 1 < Cardinality(F)
    BY <1>8
  <2> HIDE DEF n
  <2>2. n \in Nat /\ F \subseteq 1..n
    BY <1>0
  <2>3. PICK i \in F : Cardinality(Before(F, i)) = k - 1
    BY <2>1, <2>2, RankExists
  <2> QED BY <2>3
<1>10. ReplicaOwners(r, h, rf) = owners
  <2> HIDE DEF S, w
  <2> QED BY <1>5 DEF ReplicaOwners, w
<1>11. \A k \in 1..m : owners[k] = w[P(k)] /\ w[P(k)] \in S
  <2> HIDE DEF S, F, w, n, m, P
  <2> QED BY <1>2, <1>5, <1>9
<1>12. owners \in [1..m -> S] /\ DOMAIN owners = 1..m
  <2> HIDE DEF S, w, m, P
  <2> QED BY <1>11
<1> HIDE DEF owners, P
<1>13. ASSUME NEW i \in 1..m, NEW j \in 1..m, i # j PROVE owners[i] # owners[j]
  <2>1. P(i) \in F /\ P(j) \in F /\ rank(P(i)) = i - 1 /\ rank(P(j)) = j - 1
    BY <1>9
  <2>2. P(i) # P(j)
    <3> HIDE DEF F, m
    <3> QED BY <2>1, <1>13, <1>8
  <2> HIDE DEF F, S, w, n, m, rank
  <2>3. owners[i] = w[P(i)] /\ owners[j] = w[P(j)]
    BY <1>11
  <2>4. w[P(i)] # w[P(j)]
    BY <2>1, <2>2, <1>5
  <2> QED BY <2>3, <2>4
<1>14. ASSUME NEW i \in 1..m, NEW x \in S, \A j \in 1..m : j <= i => owners[j] # x
       PROVE  Nearer(h, owners[i], x)
  <2> HIDE DEF S, F, w, n, m, s, rank
  <2>1. PICK f \in F : w[f] = x
    BY <1>4, <1>5
  <2>2. ASSUME rank(f) < i PROVE FALSE
    <3> DEFINE j == rank(f) + 1
    <3>1. j \in 1..m /\ j <= i /\ j - 1 = rank(f)
      BY <2>2, <1>6, <1>8
    <3>2. P(j) \in F /\ rank(P(j)) = rank(f)
      BY <3>1, <1>9
    <3>3. P(j) = f
      <4>1. P(j) \in Int /\ f \in Int
        BY <3>2, <1>0
      <4>2. rank(f) \in Int /\ ~ (f < P(j)) /\ ~ (P(j) < f)
        BY <3>2, <1>6
      <4> QED BY <4>1, <4>2
    <3>4. owners[j] = x
      BY <3>1, <3>3, <1>11, <2>1
    <3> QED BY <3>1, <3>4, <1>14
  <2>3. P(i) \in F /\ rank(P(i)) = i - 1 /\ P(i) \in 1..n /\ f \in 1..n
    BY <1>9, <1>5
  <2>4. P(i) < f
    <3>1. i \in Int /\ rank(f) \in Int /\ rank(P(i)) < rank(f)
      BY <2>2, <2>3, <1>6, <1>8
    <3>2. ~ (f < P(i)) /\ f # P(i)
      BY <3>1, <2>3, <1>6
    <3> QED BY <3>2, <2>3
  <2> SUFFICES ASSUME NEW k \in VirtualKey[x]
               PROVE  \E j \in VirtualKey[owners[i]] : Clockwise(h, j) <= Clockwise(h, k)
    BY DEF Nearer
  <2>5. PICK q \in 1..n : w[q] = x /\ s[Turn(s, h, q)].key = k
    BY <1>2
  <2>6. f <= q
    <3>1. PICK g \in F : w[g] = w[q] /\ g <= q
      BY <1>5
    <3>2. g = f
      BY <3>1, <2>1, <2>5, <1>5
    <3> QED BY <3>1, <3>2
  <2>7. P(i) < q
    BY <2>3, <2>4, <2>6
  <2>8. Clockwise(h, s[Turn(s, h, P(i))].key) <= Clockwise(h, s[Turn(s, h, q)].key)
    <3>1. \A a, b \in 1..n : a < b =>
             Clockwise(h, s[Turn(s, h, a)].key) <= Clockwise(h, s[Turn(s, h, b)].key)
      BY <1>1, TurnFacts DEF n
    <3> QED BY <3>1, <2>3, <2>7
  <2>9. s[Turn(s, h, P(i))].key \in VirtualKey[owners[i]]
    BY <2>3, <1>2, <1>11
  <2> QED BY <2>5, <2>8, <2>9
<1>15. Nearest(owners, S, h, rf)
  <2> HIDE DEF S
  <2> QED BY <1>12, <1>13, <1>14 DEF Nearest
<1> QED BY <1>10, <1>15

\* GetNode answers with the first of them.
THEOREM OwnerNearest ==
  ASSUME NEW r \in Rings, r.nodes # {}, NEW h \in Hash
  PROVE  Nearest(<<GetNode(r, h)>>, r.nodes, h, 1)
<1> DEFINE s == r.slice
           w == Walk(s, h)
           owners == ReplicaOwners(r, h, 1)
<1>1. IsRing(r.nodes, s) /\ s # <<>>
  BY RingShape
<1>2. /\ Len(s) \in Nat \ {0} /\ DOMAIN s = 1..Len(s)
      /\ StartIndex(s, h) \in 1..Len(s)
      /\ w \in [1..Len(s) -> r.nodes]
      /\ \A x \in r.nodes : VirtualKey[x] # {}
      /\ \A x \in r.nodes : \A k \in VirtualKey[x] :
            \E i \in 1..Len(s) : w[i] = x /\ s[Turn(s, h, i)].key = k
  <2>1. \A x \in r.nodes : VirtualKey[x] # {}
    BY <1>1, HashRingAssumption DEF IsRing
  <2> HIDE DEF s
  <2>2. Len(s) \in Nat \ {0} /\ DOMAIN s = 1..Len(s) /\ StartsAt(s, h, StartIndex(s, h))
    BY <1>1, StartFacts
  <2>3. /\ w \in [1..Len(s) -> r.nodes]
        /\ \A x \in r.nodes : \A k \in VirtualKey[x] :
              \E i \in 1..Len(s) : w[i] = x /\ s[Turn(s, h, i)].key = k
    BY <1>1, WalkFacts
  <2> QED BY <2>1, <2>2, <2>3 DEF StartsAt
<1>3. Turn(s, h, 1) = StartIndex(s, h)
  BY <1>2 DEF Turn
<1>4. w[1] = GetNode(r, h)
  BY <1>2, <1>3 DEF Walk, GetNode
<1>5. Covers(w, Len(s), r.nodes)
  <2> HIDE DEF s, w
  <2> QED BY <1>2 DEF Covers
<1>6. SeenOnce(FirstSeen(w), w, Len(s), r.nodes)
  <2> HIDE DEF s, w
  <2> QED BY <1>2, <1>5, FirstSeenFacts
<1> DEFINE F == FirstSeen(w)
           P(k) == CHOOSE i \in F : Cardinality(Before(F, i)) = k - 1
<1>7. 1 \in F
  <2> HIDE DEF s, w
  <2> QED BY <1>2 DEF FirstSeen
<1>8. Cardinality(Before(F, 1)) = 0
  <2>1. Before(F, 1) = {}
    <3> HIDE DEF s, w, F
    <3> QED BY <1>2, <1>6 DEF Before, SeenOnce, F
  <2> QED BY <2>1, FS_EmptySet
<1>9. P(1) = 1
  <2> HIDE DEF F
  <2>1. P(1) \in F /\ Cardinality(Before(F, P(1))) = 0
    <3>1. \E i \in F : Cardinality(Before(F, i)) = 1 - 1
      BY <1>7, <1>8
    <3>2. P(1) \in F /\ Cardinality(Before(F, P(1))) = 1 - 1
      BY <3>1
    <3> QED BY <3>2
  <2>2. F \subseteq 1..Len(s) /\ Len(s) \in Nat
    <3> HIDE DEF s, w
    <3> QED BY <1>2, <1>6 DEF SeenOnce, F
  <2>3. PICK c \in F : c = P(1)
    BY <2>1
  <2>4. ASSUME 1 < c PROVE FALSE
    <3>1. Cardinality(Before(F, 1)) < Cardinality(Before(F, c))
      <4> HIDE DEF P, s
      <4> QED BY <2>2, <2>4, <1>7, RankGrows
    <3> QED BY <3>1, <2>1, <2>3, <1>8
  <2> HIDE DEF P, s
  <2> QED BY <2>2, <2>3, <2>4
<1>10. Least(1, Cardinality(F)) = 1
  <2> HIDE DEF F
  <2>1. Cardinality(F) \in Nat /\ 0 < Cardinality(F)
    <3>1. F \subseteq 1..Len(s) /\ Len(s) \in Nat
      BY <1>2, <1>6 DEF SeenOnce, F
    <3> HIDE DEF s
    <3> QED BY <3>1, <1>7, <1>8, RankGrows
  <2> QED BY <2>1 DEF Least
<1>11. owners = [k \in 1..1 |-> w[P(k)]]
  BY <1>10 DEF ReplicaOwners
<1>12. owners = [k \in 1..1 |-> w[1]]
  <2>1. \A k \in 1..1 : k = 1
    OBVIOUS
  <2> HIDE DEF P, w, owners
  <2> QED BY <1>9, <1>11, <2>1
<1>13. owners = <<GetNode(r, h)>>
  <2> HIDE DEF owners, w
  <2> QED BY <1>4, <1>12
<1>14. Nearest(owners, r.nodes, h, 1)
  BY OwnersNearest
<1> QED BY <1>13, <1>14

\* Between any two rings, whatever order equal hashes come in, keys move only
\* from a node that is gone, to a node that is new, or between equals.
THEOREM KeysMoveLittle ==
  ASSUME NEW r \in Rings, r.nodes # {}, NEW t \in Rings, t.nodes # {},
         NEW h \in Hash, NEW rf \in Nat \ {0}
  PROVE  MovesOnlyFor(r, t, h, rf)
<1> DEFINE before == ReplicaOwners(r, h, rf)
           after == ReplicaOwners(t, h, rf)
<1>1. Nearest(before, r.nodes, h, rf) /\ Nearest(after, t.nodes, h, rf)
  BY OwnersNearest
<1> HIDE DEF before, after
<1>2. ASSUME NEW i \in DOMAIN before, NEW j \in DOMAIN after,
             \A l \in DOMAIN before : before[l] # after[j],
             \A l \in DOMAIN after : after[l] # before[i],
             after[j] \in r.nodes, before[i] \in t.nodes
      PROVE  Nearer(h, before[i], after[j]) /\ Nearer(h, after[j], before[i])
  BY <1>1, <1>2 DEF Nearest
<1> QED BY <1>2 DEF MovesOnlyFor, before, after
=============================================================================
