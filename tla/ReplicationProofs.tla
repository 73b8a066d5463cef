-------------------------- MODULE ReplicationProofs --------------------------
(***************************************************************************)
(* Theorems about Replication, for any number of owners, requests, reads   *)
(* and late calls.                                                         *)
(***************************************************************************)
EXTENDS Replication, FiniteSetTheorems, SequenceTheorems, WellFoundedInduction, TLAPS

----------------------------------------------------------------------------
(* majorityValue.                                                          *)

\* A non-empty set of natural numbers has a least element.
LEMMA Least ==
  ASSUME NEW T, T \subseteq Nat, T # {}
  PROVE  \E x \in T : \A y \in T : x <= y
<1> DEFINE R == OpToRel(<, Nat)
<1>1. IsWellFoundedOn(R, Nat)
  BY NatLessThanWellFounded
<1>2. PICK x \in T : \A y \in T : ~ (<<y, x>> \in R)
  <2> HIDE DEF R
  <2> QED BY <1>1, WFMin
<1>3. \A y \in T : ~ (y < x)
  BY <1>2 DEF OpToRel
<1> HIDE DEF R
<1> QED BY <1>3

\* Among owners there is a first one.
LEMMA FirstOwner ==
  ASSUME NEW P, P \subseteq Owner, P # {}
  PROVE  \E o \in Owner : o \in P /\ \A q \in 1..(o - 1) : q \notin P
<1>1. N \in Nat
  BY ReplicationAssumption
<1>2. P \subseteq Nat
  BY <1>1 DEF Owner
<1>3. PICK o \in P : \A q \in P : o <= q
  BY <1>2, Least
<1>4. \A q \in 1..(o - 1) : q \notin P
  BY <1>2, <1>3
<1> QED BY <1>3, <1>4

LEMMA FirstOfIn ==
  ASSUME NEW got, NEW best, NEW p \in Owner, got[p] \in best
  PROVE  FirstOf(got, best) \in best
<1> DEFINE P == {o \in Owner : got[o] \in best}
<1>1. P \subseteq Owner /\ P # {}
  OBVIOUS
<1>2. \E o \in Owner : o \in P /\ \A q \in 1..(o - 1) : q \notin P
  <2> HIDE DEF P
  <2> QED BY <1>1, FirstOwner
<1>3. \E o \in Owner : got[o] \in best /\ \A q \in 1..(o - 1) : got[q] \notin best
  <2>1. PICK o \in Owner : o \in P /\ \A q \in 1..(o - 1) : q \notin P
    BY <1>2
  <2>2. \A q \in 1..(o - 1) : q \in Owner
    BY ReplicationAssumption DEF Owner
  <2> QED BY <2>1, <2>2
<1> QED BY <1>3 DEF FirstOf

\* No more owners answer v than there are.
LEMMA Counted ==
  ASSUME NEW got, NEW v
  PROVE  /\ IsFiniteSet(Owner) /\ Cardinality(Owner) = N
         /\ IsFiniteSet({o \in Owner : got[o] = v})
         /\ Cardinality({o \in Owner : got[o] = v}) \in 0..N
<1>1. N \in Nat /\ N # 0
  BY ReplicationAssumption
<1>2. IsFiniteSet(Owner) /\ Cardinality(Owner) = N
  BY <1>1, FS_Interval DEF Owner
<1> DEFINE A == {o \in Owner : got[o] = v}
<1>3. A \in SUBSET Owner
  OBVIOUS
<1> HIDE DEF A
<1>4. IsFiniteSet(A) /\ Cardinality(A) <= N
  BY <1>2, <1>3, FS_Subset
<1>5. Cardinality(A) \in Nat
  BY <1>4, FS_CardinalityType
<1>6. IsFiniteSet(A) /\ Cardinality(A) \in 0..N
  BY <1>1, <1>4, <1>5
<1> QED BY <1>2, <1>6 DEF A

LEMMA VotesType ==
  ASSUME NEW first, NEW got, NEW v
  PROVE  Votes(first, got, v) \in 0..(N + 1)
<1>1. N \in Nat /\ Cardinality({o \in Owner : got[o] = v}) \in 0..N
  BY Counted, ReplicationAssumption
<1> QED BY <1>1 DEF Votes

\* majorityValue returns one of the values it was given.
LEMMA MajorityIn ==
  ASSUME NEW first, NEW got
  PROVE  Majority(first, got) \in Results(first, got)
<1> DEFINE R == Results(first, got)
           V(v) == Votes(first, got, v)
           T == {n \in Nat : \E v \in R : n = N + 1 - V(v)}
           Best == {v \in R : \A u \in R : V(u) <= V(v)}
<1>1. N \in Nat /\ \A v : V(v) \in 0..(N + 1)
  BY VotesType, ReplicationAssumption
<1>2. first \in R
  BY DEF Results
<1>3. T \subseteq Nat /\ T # {}
  <2>1. N + 1 - V(first) \in Nat
    <3>1. V(first) \in 0..(N + 1)
      BY <1>1
    <3> HIDE DEF V
    <3> QED BY <1>1, <3>1
  <2>2. N + 1 - V(first) \in T
    BY <1>2, <2>1
  <2> QED BY <2>2
<1>4. PICK n \in T : \A k \in T : n <= k
  <2> HIDE DEF T
  <2> QED BY <1>3, Least
<1>5. PICK v \in R : n = N + 1 - V(v)
  BY <1>4
<1>6. ASSUME NEW u \in R PROVE V(u) <= V(v)
  <2>1. V(u) \in 0..(N + 1) /\ V(v) \in 0..(N + 1)
    BY <1>1
  <2>2. N + 1 - V(u) \in T
    <3>1. N + 1 - V(u) \in Nat
      <4> HIDE DEF V
      <4> QED BY <1>1, <2>1
    <3> QED BY <3>1
  <2>3. n <= N + 1 - V(u)
    BY <2>2, <1>4
  <2> HIDE DEF V, T, R
  <2> QED BY <1>1, <1>5, <2>1, <2>3
<1>7. v \in Best
  BY <1>6
<1>8. Majority(first, got) = IF first \in Best THEN first ELSE FirstOf(got, Best)
  BY DEF Majority
<1>9. CASE first \notin Best
  <2>1. v # first
    BY <1>7, <1>9
  <2>2. PICK p \in Owner : v = got[p]
    BY <2>1 DEF Results
  <2>3. FirstOf(got, Best) \in Best
    <3>1. got[p] \in Best
      BY <1>7, <2>2
    <3> HIDE DEF Best
    <3> QED BY <3>1, FirstOfIn
  <2>4. Best \subseteq R
    OBVIOUS
  <2> HIDE DEF Best, R
  <2> QED BY <1>8, <1>9, <2>3, <2>4 DEF R
<1> HIDE DEF Best
<1> QED BY <1>2, <1>8, <1>9

----------------------------------------------------------------------------
(* The invariant: what is held, kept for replay, under way or read was given *)
(* to the primary's storage by a client.                                     *)

Given == accepted \union {Bytes(c) : c \in accepted}

\* A read that polls or repairs has a value to go by; an owner it has still to
\* poll has no result; one that repairs has something to repair.
ReadOK(r, G) ==
    /\ \A o \in Owner : r.got[o] \in G \union {Missing}
    /\ r.pc \in {"poll", "repair"} => r.val \in G
    /\ r.pc = "poll" => \A o \in Owner : o >= r.at => r.got[o] = Missing
    /\ r.pc = "repair" => \E o \in Owner : r.got[o] # Missing

\* A handler that has begun writes what was given; it sends to replicas, and
\* has sent nothing before it has read the key back.
WriteOK(r, G) ==
    /\ r.pc # "new" => r.val \in G
    /\ r.pc \in {"send", "refer"} => r.at \in Replica
    /\ r.pc = "verify" => r.at = 2

IInv ==
    /\ TypeOK
    /\ \A o \in Owner : copy[o] \in Given \union {Missing}
    /\ \A o \in Replica : hints[o] \in Seq(Given)
    /\ late \subseteq Owner \X Given
    /\ \A w \in Write : WriteOK(write[w], Given)
    /\ \A g \in Reader : ReadOK(read[g], Given)

Reads == [pc : {"idle", "ask", "poll", "repair"}, at : Owner,
          val : Content \union {Missing},
          got : [Owner -> Content \union {Missing}]]
Writes == [pc : {"new", "verify", "send", "refer"} \union Finished,
           val : Stored \union {Missing}, at : 2..(N + 1)]

LEMMA OwnerFacts ==
  /\ N \in Nat /\ N # 0 /\ 1 \in Owner /\ N \in Owner
  /\ Owner \subseteq Nat /\ Replica \subseteq Owner
  /\ \A o \in 2..(N + 1) : o <= N => o \in Replica
BY ReplicationAssumption DEF Owner, Replica

LEMMA NoReadOK == NoRead \in Reads /\ \A G : ReadOK(NoRead, G)
BY OwnerFacts DEF NoRead, Reads, ReadOK

LEMMA BytesFacts ==
  /\ \A c \in Stored \union {Missing} : Bytes(c) \in Content \union {Missing}
  /\ \A c : Bytes(c) = Missing => c = Missing
  /\ Bytes(Missing) = Missing
  /\ \A c : Bytes(Bytes(c)) = Bytes(c)
  /\ Missing \notin Stored
BY ReplicationAssumption DEF Bytes, Stored, Content

LEMMA GivenFacts ==
  ASSUME TypeOK
  PROVE  /\ Given \subseteq Stored
         /\ Missing \notin Given
         /\ \A c \in Given \union {Missing} : Bytes(c) \in Given \union {Missing}
<1>1. accepted \subseteq Stored
  BY DEF TypeOK
<1>2. Given \subseteq Stored
  BY <1>1, BytesFacts DEF Given, Stored
<1>3. \A c \in Given : Bytes(c) \in Given
  BY BytesFacts DEF Given
<1> QED BY <1>2, <1>3, BytesFacts

\* Taking one hint out leaves hints.
LEMMA RemoveAtType ==
  ASSUME NEW S, NEW s \in Seq(S), NEW i \in 1..Len(s)
  PROVE  RemoveAt(s, i) \in Seq(S) /\ Len(RemoveAt(s, i)) = Len(s) - 1
<1> DEFINE a == SubSeq(s, 1, i - 1)
           b == SubSeq(s, i + 1, Len(s))
<1>1. RemoveAt(s, i) = a \o b
  BY DEF RemoveAt
<1>2. a \in Seq(S) /\ Len(a) = i - 1
  BY SubSeqProperties
<1>3. b \in Seq(S) /\ Len(b) = Len(s) - i
  BY SubSeqProperties
<1>4. Len(s) \in Nat
  BY LenProperties
<1> HIDE DEF a, b
<1>5. a \o b \in Seq(S) /\ Len(a \o b) = Len(a) + Len(b)
  BY <1>2, <1>3, ConcatProperties
<1>6. Len(a) + Len(b) = Len(s) - 1
  BY <1>2, <1>3, <1>4
<1> QED BY <1>1, <1>5, <1>6

LEMMA InvInit == Init => IInv
<1> SUFFICES ASSUME Init PROVE IInv
  OBVIOUS
<1>1. <<>> \in Seq(Stored) /\ <<>> \in Seq(Given) /\ Len(<<>>) = 0
  BY EmptySeq
<1>2. NoRead \in Reads /\ \A G : ReadOK(NoRead, G)
  BY NoReadOK
<1>3. TypeOK
  <2>1. read \in [Reader -> Reads]
    BY <1>2 DEF Init
  <2>2. write \in [Write -> Writes]
    <3>1. 2 \in 2..(N + 1)
      BY OwnerFacts
    <3> QED BY <3>1 DEF Init, Writes
  <2>3. /\ hints \in [Replica -> Seq(Stored)] /\ replay \in [Replica -> Nat]
        /\ \A o \in Replica : replay[o] <= Len(hints[o])
    BY <1>1 DEF Init
  <2> QED BY <2>1, <2>2, <2>3 DEF Init, TypeOK, Reads, Writes
<1>4. \A w \in Write : WriteOK(write[w], Given)
  BY DEF Init, WriteOK
<1>5. \A g \in Reader : ReadOK(read[g], Given)
  <2>1. \A g \in Reader : read[g] = NoRead
    BY DEF Init
  <2> QED BY <2>1, <1>2
<1>6. /\ \A o \in Owner : copy[o] \in Given \union {Missing}
      /\ \A o \in Replica : hints[o] \in Seq(Given)
      /\ late \subseteq Owner \X Given
  BY <1>1 DEF Init
<1> QED BY <1>3, <1>4, <1>5, <1>6 DEF IInv

\* What a client writes is added to what was given, and nothing is lost.
LEMMA Mono ==
  ASSUME accepted \subseteq accepted'
  PROVE  /\ Given \subseteq Given'
         /\ Seq(Given) \subseteq Seq(Given')
         /\ \A r : ReadOK(r, Given) => ReadOK(r, Given')
<1>1. Given \subseteq Given'
  BY DEF Given
<1>2. Seq(Given) \subseteq Seq(Given')
  BY <1>1, SeqMonotonic
<1> QED BY <1>1, <1>2 DEF ReadOK

\* A step that changes the handler of one request.
LEMMA WriteStep ==
  ASSUME IInv, accepted \subseteq accepted', NEW w \in Write, NEW e \in Writes,
         write' = [write EXCEPT ![w] = e],
         WriteOK(e, Given')
  PROVE  /\ write' \in [Write -> Writes]
         /\ \A x \in Write : WriteOK(write'[x], Given')
<1>1. write \in [Write -> Writes]
  BY DEF IInv, TypeOK, Writes
<1>2. \A x \in Write : write'[x] = IF x = w THEN e ELSE write[x]
  BY <1>1
<1>3. Given \subseteq Given'
  BY Mono
<1>4. \A x \in Write : WriteOK(write[x], Given')
  BY <1>3 DEF IInv, WriteOK
<1> QED BY <1>1, <1>2, <1>4

\* A step that changes one read.
LEMMA ReadStep ==
  ASSUME IInv, accepted' = accepted, NEW g \in Reader, NEW e \in Reads, ReadOK(e, Given),
         read' = [read EXCEPT ![g] = e]
  PROVE  /\ read' \in [Reader -> Reads]
         /\ \A x \in Reader : ReadOK(read'[x], Given')
<1>1. read \in [Reader -> Reads]
  BY DEF IInv, TypeOK, Reads
<1>2. \A x \in Reader : read'[x] = IF x = g THEN e ELSE read[x]
  BY <1>1
<1>3. Given' = Given
  BY DEF Given
<1>4. \A x \in Reader : ReadOK(read'[x], Given)
  BY <1>2 DEF IInv
<1>5. \A x \in Reader : ReadOK(read'[x], Given')
  BY <1>3, <1>4 DEF ReadOK
<1> QED BY <1>1, <1>5

\* A step that changes copies, late calls and hints, and no handler or read.
\* Each new content was given to the primary.
LEMMA CopyStep ==
  ASSUME IInv, NEW o \in Owner, NEW v \in Given,
         copy' = [copy EXCEPT ![o] = v], accepted' = accepted
  PROVE  /\ copy' \in [Owner -> Stored \union {Missing}]
         /\ \A q \in Owner : copy'[q] \in Given \union {Missing}
<1>1. copy \in [Owner -> Stored \union {Missing}] /\ Given \subseteq Stored
  BY GivenFacts DEF IInv, TypeOK
<1>2. \A q \in Owner : copy'[q] = IF q = o THEN v ELSE copy[q]
  BY <1>1
<1> QED BY <1>1, <1>2 DEF IInv

\* A call given up was to an owner and carried what was given.
LEMMA LateStep ==
  ASSUME IInv, NEW o \in Owner, NEW v \in Given, GiveUp(o, v)
  PROVE  late' \subseteq Owner \X Given
<1>1. late' = late \/ late' = late \union {<<o, v>>}
  BY DEF GiveUp
<1> QED BY <1>1 DEF IInv

\* The parts of the invariant, put together when nothing new is given.
LEMMA Assemble ==
  ASSUME IInv, accepted' = accepted, last' = last, up' \in BOOLEAN,
         copy' \in [Owner -> Stored \union {Missing}],
         \A q \in Owner : copy'[q] \in Given \union {Missing},
         hints' \in [Replica -> Seq(Stored)], replay' \in [Replica -> Nat],
         \A o \in Replica : hints'[o] \in Seq(Given),
         \A o \in Replica : replay'[o] <= Len(hints'[o]),
         late' \subseteq Owner \X Given,
         write' \in [Write -> Writes],
         \A x \in Write : WriteOK(write'[x], Given),
         read' \in [Reader -> Reads],
         \A x \in Reader : ReadOK(read'[x], Given')
  PROVE  IInv'
<1>1. Given' = Given
  BY DEF Given
<1>2. Given \subseteq Stored
  BY GivenFacts DEF IInv
<1>3. late' \subseteq Owner \X Stored
  BY <1>2
<1>4. TypeOK'
  BY <1>3 DEF IInv, TypeOK, Reads, Writes
<1> QED BY <1>1, <1>4 DEF IInv

\* What the invariant says of the state before a step, in the form Assemble
\* asks for.
LEMMA Before ==
  ASSUME IInv
  PROVE  /\ up \in BOOLEAN /\ last \in Write /\ accepted \subseteq Stored
         /\ copy \in [Owner -> Stored \union {Missing}]
         /\ \A q \in Owner : copy[q] \in Given \union {Missing}
         /\ hints \in [Replica -> Seq(Stored)] /\ replay \in [Replica -> Nat]
         /\ \A o \in Replica : hints[o] \in Seq(Given)
         /\ \A o \in Replica : replay[o] <= Len(hints[o])
         /\ late \subseteq Owner \X Given
         /\ write \in [Write -> Writes]
         /\ \A x \in Write : WriteOK(write[x], Given)
         /\ read \in [Reader -> Reads]
         /\ \A x \in Reader : ReadOK(read[x], Given)
BY DEF IInv, TypeOK, Reads, Writes

----------------------------------------------------------------------------
(* Every action keeps the invariant.                                        *)

LEMMA OnwardType ==
  ASSUME NEW o \in 1..N
  PROVE  /\ Onward(o + 1) \in {"send", "done"}
         /\ o + 1 \in 2..(N + 1)
         /\ Onward(o + 1) = "send" => o + 1 \in Replica
         /\ 2 \in 2..(N + 1) /\ Onward(2) \in {"send", "done"}
         /\ Onward(2) = "send" => 2 \in Replica
BY OwnerFacts DEF Onward, Replica

LEMMA TakeStep ==
  ASSUME IInv, NEW w \in Write, NEW v \in Value \union {Tombstone}, NEW pc,
         pc \in {"verify", "failed", "done"} \/ pc = Onward(2),
         Take(w, v, pc)
  PROVE  IInv'
<1> DEFINE e == [pc |-> pc, val |-> v, at |-> 2]
<1>1. v \in Stored /\ v \in Given' /\ accepted \subseteq accepted' /\ accepted' \subseteq Stored
  BY Before DEF Take, Stored, Content, Given
<1>2. Given \subseteq Given' /\ Seq(Given) \subseteq Seq(Given')
      /\ \A r : ReadOK(r, Given) => ReadOK(r, Given')
  BY <1>1, Mono
<1>3. e \in Writes /\ WriteOK(e, Given')
  <2>1. /\ 2 \in 2..(N + 1) /\ Onward(2) \in {"send", "done"}
        /\ Onward(2) = "send" => 2 \in Replica
    BY OwnerFacts, OnwardType
  <2> QED BY <1>1, <2>1 DEF Writes, Finished, WriteOK
<1>4. write' = [write EXCEPT ![w] = e]
  BY DEF Take
<1>5. /\ write' \in [Write -> Writes]
      /\ \A x \in Write : WriteOK(write'[x], Given')
  <2> HIDE DEF e
  <2> QED BY <1>1, <1>3, <1>4, WriteStep
<1>6. /\ copy' \in [Owner -> Stored \union {Missing}]
      /\ \A q \in Owner : copy'[q] \in Given' \union {Missing}
  <2>1. copy' = [copy EXCEPT ![1] = v]
    BY DEF Take
  <2>2. \A q \in Owner : copy'[q] = IF q = 1 THEN v ELSE copy[q]
    BY <2>1, Before
  <2> QED BY <1>1, <1>2, <2>1, <2>2, Before
<1>7. /\ \A o \in Replica : hints'[o] \in Seq(Given')
      /\ late' \subseteq Owner \X Given'
      /\ \A x \in Reader : ReadOK(read'[x], Given')
  <2>1. hints' = hints /\ late' = late /\ read' = read
    BY DEF Take
  <2> QED BY <1>2, <2>1, Before
<1>8. TypeOK'
  <2>1. /\ up' = up /\ hints' = hints /\ replay' = replay /\ late' = late /\ read' = read
        /\ last' = w
    BY DEF Take
  <2> QED BY <1>1, <1>5, <1>6, <2>1 DEF IInv, TypeOK, Writes, Reads
<1> QED BY <1>5, <1>6, <1>7, <1>8 DEF IInv

LEMMA HandleStep ==
  ASSUME IInv, NEW w \in Write, Handle(w)
  PROVE  IInv'
<1> DEFINE o == write[w].at
<1>1. accepted' = accepted /\ last' = last /\ up' = up /\ replay' = replay /\ read' = read
  BY DEF Handle, Verify, Replicate, CallFails, StoreHint
<1>2. Given' = Given /\ \A x \in Reader : ReadOK(read'[x], Given')
  BY <1>1, Before DEF Given
<1>3. /\ write[w] \in Writes /\ WriteOK(write[w], Given)
      /\ write[w].pc # "new" /\ write[w].val \in Given
  BY Before DEF Handle, Verify, Replicate, CallFails, StoreHint, WriteOK
<1>4. ASSUME NEW pc \in {"send", "refer", "done", "failed"}, NEW at \in 2..(N + 1),
             pc \in {"send", "refer"} => at \in Replica,
             write' = [write EXCEPT ![w].pc = pc, ![w].at = at]
      PROVE  /\ write' \in [Write -> Writes]
             /\ \A x \in Write : WriteOK(write'[x], Given)
  <2> DEFINE e == [write[w] EXCEPT !.pc = pc, !.at = at]
  <2>1. e \in Writes /\ WriteOK(e, Given')
    BY <1>2, <1>3, <1>4 DEF Writes, WriteOK, Finished
  <2>2. write' = [write EXCEPT ![w] = e]
    BY <1>4, Before
  <2> HIDE DEF e
  <2> QED BY <1>1, <1>2, <2>1, <2>2, WriteStep
<1>5. o \in 2..(N + 1) /\ (write[w].pc \in {"send", "refer"} => o \in Replica)
  BY <1>3 DEF Writes, WriteOK
<1>6. write = [x \in Write |-> write[x]] /\ write[w] = [write[w] EXCEPT !.at = o]
  BY <1>3, Before DEF Writes
<1>7. CASE Verify(w)
  <2> DEFINE pc == IF copy[1] = Tombstone THEN "failed" ELSE Onward(2)
  <2>1. o = 2
    BY <1>3, <1>7 DEF Verify, WriteOK
  <2>2. pc \in {"send", "done", "failed"} /\ (pc = "send" => o \in Replica)
    BY <2>1, OwnerFacts, OnwardType
  <2>3. write' = [write EXCEPT ![w].pc = pc, ![w].at = o]
    <3>1. write' = [write EXCEPT ![w] = [write[w] EXCEPT !.pc = pc]]
      BY <1>7 DEF Verify
    <3> HIDE DEF pc
    <3>2. [write[w] EXCEPT !.pc = pc] = [write[w] EXCEPT !.pc = pc, !.at = o]
      BY <1>3 DEF Writes
    <3> QED BY <3>1, <3>2, Before
  <2>4. /\ write' \in [Write -> Writes]
        /\ \A x \in Write : WriteOK(write'[x], Given)
    <3> HIDE DEF pc, o
    <3> QED BY <1>4, <1>5, <2>2, <2>3
  <2> QED BY <1>1, <1>2, <1>7, <2>4, Before, Assemble DEF Verify
<1>8. CASE Replicate(w)
  <2>1. o \in Replica /\ o \in Owner /\ o \in 1..N
    BY <1>5, <1>8, OwnerFacts DEF Replicate, Owner
  <2>2. /\ copy' \in [Owner -> Stored \union {Missing}]
        /\ \A q \in Owner : copy'[q] \in Given \union {Missing}
    BY <1>1, <1>3, <1>8, <2>1, CopyStep DEF Replicate
  <2>3. /\ write' \in [Write -> Writes]
        /\ \A x \in Write : WriteOK(write'[x], Given)
    <3>1. CASE write' = [write EXCEPT ![w].pc = Onward(o + 1), ![w].at = o + 1]
      <4>1. /\ Onward(o + 1) \in {"send", "done"} /\ o + 1 \in 2..(N + 1)
            /\ Onward(o + 1) = "send" => o + 1 \in Replica
        BY <2>1, OnwardType
      <4> HIDE DEF o
      <4> QED BY <1>4, <3>1, <4>1
    <3>2. CASE write' = [write EXCEPT ![w].pc = "refer"]
      <4>1. write' = [write EXCEPT ![w].pc = "refer", ![w].at = o]
        BY <1>3, <1>6, <3>2, Before DEF Writes
      <4> HIDE DEF o
      <4> QED BY <1>4, <1>5, <2>1, <4>1
    <3> QED BY <1>8, <3>1, <3>2 DEF Replicate
  <2> QED BY <1>1, <1>2, <1>8, <2>2, <2>3, Before, Assemble DEF Replicate
<1>9. CASE CallFails(w)
  <2>1. o \in Replica /\ o \in Owner
    BY <1>5, <1>9, OwnerFacts DEF CallFails
  <2>2. write' = [write EXCEPT ![w].pc = "refer", ![w].at = o]
    BY <1>3, <1>6, <1>9, Before DEF CallFails, Writes
  <2>3. /\ write' \in [Write -> Writes]
        /\ \A x \in Write : WriteOK(write'[x], Given)
    <3> HIDE DEF o
    <3> QED BY <1>4, <1>5, <2>1, <2>2
  <2>4. late' \subseteq Owner \X Given
    BY <1>3, <1>9, <2>1, LateStep DEF CallFails
  <2> QED BY <1>1, <1>2, <1>9, <2>3, <2>4, Before, Assemble DEF CallFails
<1>10. CASE StoreHint(w)
  <2>1. o \in Replica /\ o \in Owner /\ o \in 1..N
    BY <1>5, <1>10, OwnerFacts DEF StoreHint, Owner
  <2>2. /\ write' \in [Write -> Writes]
        /\ \A x \in Write : WriteOK(write'[x], Given)
    <3>1. /\ Onward(o + 1) \in {"send", "done"} /\ o + 1 \in 2..(N + 1)
          /\ Onward(o + 1) = "send" => o + 1 \in Replica
      BY <2>1, OnwardType
    <3>2. write' = [write EXCEPT ![w].pc = Onward(o + 1), ![w].at = o + 1]
      BY <1>10 DEF StoreHint
    <3> HIDE DEF o
    <3> QED BY <1>4, <3>1, <3>2
  <2>3. /\ hints' \in [Replica -> Seq(Stored)]
        /\ \A q \in Replica : hints'[q] \in Seq(Given)
        /\ \A q \in Replica : replay[q] <= Len(hints'[q])
    <3> DEFINE h == Append(hints[o], write[w].val)
    <3>1. /\ hints[o] \in Seq(Given) /\ hints[o] \in Seq(Stored)
          /\ write[w].val \in Given /\ write[w].val \in Stored
      BY <1>3, <2>1, Before, GivenFacts DEF IInv
    <3>2. h \in Seq(Given) /\ h \in Seq(Stored) /\ Len(h) = Len(hints[o]) + 1
      BY <3>1, AppendProperties
    <3>3. hints' = [hints EXCEPT ![o] = h]
      BY <1>10 DEF StoreHint
    <3>4. Len(hints[o]) \in Nat /\ replay[o] \in Nat /\ replay[o] <= Len(hints[o])
      BY <2>1, <3>1, Before, LenProperties
    <3> HIDE DEF h, o
    <3>5. \A q \in Replica : hints'[q] = IF q = o THEN h ELSE hints[q]
      BY <3>3, Before
    <3>6. replay[o] <= Len(h)
      BY <3>2, <3>4
    <3> QED BY <3>2, <3>3, <3>5, <3>6, Before
  <2> QED BY <1>1, <1>2, <1>10, <2>2, <2>3, Before, Assemble DEF StoreHint
<1> QED BY <1>7, <1>8, <1>9, <1>10 DEF Handle

LEMMA ReplayStep ==
  ASSUME IInv, NEW o \in Replica, ReplayHints(o) \/ Replay(o)
  PROVE  IInv'
<1>1. /\ accepted' = accepted /\ last' = last /\ up' = up /\ write' = write /\ read' = read
      /\ o \in Owner
  BY OwnerFacts DEF ReplayHints, Replay, ServeReplay, ReplayFails
<1>2. /\ Given' = Given
      /\ \A x \in Write : WriteOK(write'[x], Given)
      /\ \A x \in Reader : ReadOK(read'[x], Given')
  BY <1>1, Before DEF Given
<1>3. /\ hints[o] \in Seq(Given) /\ hints[o] \in Seq(Stored)
      /\ Len(hints[o]) \in Nat /\ replay[o] \in Nat /\ replay[o] <= Len(hints[o])
  BY Before, LenProperties
<1>4. CASE ReplayHints(o)
  <2>1. /\ replay' \in [Replica -> Nat]
        /\ \A q \in Replica : replay'[q] <= Len(hints[q])
    <3>1. \A q \in Replica : replay'[q] = IF q = o THEN Len(hints[o]) ELSE replay[q]
      BY <1>4, Before DEF ReplayHints
    <3> QED BY <1>3, <1>4, <3>1, Before DEF ReplayHints
  <2> QED BY <1>1, <1>2, <1>4, <2>1, Before, Assemble DEF ReplayHints
<1>5. CASE Replay(o)
  <2> DEFINE k == replay[o]
             v == hints[o][k]
             h == RemoveAt(hints[o], k)
  <2>1. k \in 1..Len(hints[o]) /\ k - 1 \in Nat
    BY <1>3, <1>5 DEF Replay, ServeReplay, ReplayFails
  <2>2. v \in Given
    BY <1>3, <2>1, ElementOfSeq
  <2>3. h \in Seq(Given) /\ h \in Seq(Stored) /\ Len(h) = Len(hints[o]) - 1
    <3> HIDE DEF k
    <3> QED BY <1>3, <2>1, RemoveAtType
  <2>4. /\ replay' \in [Replica -> Nat]
        /\ \A q \in Replica : replay'[q] = IF q = o THEN k - 1 ELSE replay[q]
    <3>1. replay' = [replay EXCEPT ![o] = k - 1]
      BY <1>5 DEF Replay, ServeReplay, ReplayFails
    <3> HIDE DEF k
    <3> QED BY <2>1, <3>1, Before
  <2>5. hints' = hints \/ hints' = [hints EXCEPT ![o] = h]
    BY <1>5 DEF Replay, ServeReplay, ReplayFails
  <2>6. /\ hints' \in [Replica -> Seq(Stored)]
        /\ \A q \in Replica : hints'[q] \in Seq(Given)
        /\ \A q \in Replica : replay'[q] <= Len(hints'[q])
    <3>1. CASE hints' = hints
      <4>1. k - 1 <= Len(hints[o])
        BY <1>3, <2>1
      <4> HIDE DEF k
      <4>2. \A q \in Replica : replay'[q] <= Len(hints'[q])
        BY <2>4, <3>1, <4>1, Before
      <4> QED BY <3>1, <4>2, Before
    <3>2. CASE hints' = [hints EXCEPT ![o] = h]
      <4> HIDE DEF h, k
      <4>1. \A q \in Replica : hints'[q] = IF q = o THEN h ELSE hints[q]
        BY <3>2, Before
      <4>2. k - 1 <= Len(h)
        BY <1>3, <2>1, <2>3
      <4>3. hints' \in [Replica -> Seq(Stored)]
        BY <2>3, <3>2, Before
      <4>4. \A q \in Replica : hints'[q] \in Seq(Given)
        BY <2>3, <4>1, Before
      <4>5. \A q \in Replica : replay'[q] <= Len(hints'[q])
        BY <2>4, <4>1, <4>2, Before
      <4> QED BY <4>3, <4>4, <4>5
    <3> QED BY <2>5, <3>1, <3>2
  <2>7. CASE ServeReplay(o)
    <3>1. copy' = [copy EXCEPT ![o] = v]
      BY <2>7 DEF ServeReplay
    <3>2. /\ copy' \in [Owner -> Stored \union {Missing}]
          /\ \A q \in Owner : copy'[q] \in Given \union {Missing}
      <4> HIDE DEF v
      <4> QED BY <1>1, <2>2, <3>1, CopyStep
    <3> QED BY <1>1, <1>2, <2>4, <2>6, <2>7, <3>2, Before, Assemble DEF ServeReplay
  <2>8. CASE ReplayFails(o)
    <3>1. late' = late \/ GiveUp(o, v)
      BY <2>8 DEF ReplayFails
    <3>2. late' \subseteq Owner \X Given
      <4> HIDE DEF v
      <4> QED BY <1>1, <2>2, <3>1, LateStep, Before
    <3> QED BY <1>1, <1>2, <2>4, <2>6, <2>8, <3>2, Before, Assemble DEF ReplayFails
  <2> QED BY <1>5, <2>7, <2>8 DEF Replay
<1> QED BY <1>4, <1>5

\* What a read leaves to be repaired is a read again.
LEMMA ToRepairType ==
  ASSUME IInv, NEW v \in Given \intersect Content,
         NEW got \in [Owner -> Content \union {Missing}],
         \A o \in Owner : got[o] \in Given \union {Missing}
  PROVE  /\ ToRepair(v, got) \in Reads
         /\ ReadOK(ToRepair(v, got), Given)
<1>1. CASE got = NoRead.got
  BY <1>1, NoReadOK DEF ToRepair
<1>2. CASE got # NoRead.got
  <2> DEFINE r == [pc |-> "repair", at |-> 1, val |-> v, got |-> got]
  <2>1. ToRepair(v, got) = r
    BY <1>2 DEF ToRepair
  <2>2. \E o \in Owner : got[o] # Missing
    <3>1. NoRead.got = [o \in Owner |-> Missing]
      BY DEF NoRead
    <3> QED BY <1>2, <3>1
  <2>3. r \in Reads
    BY OwnerFacts DEF Reads
  <2>4. ReadOK(r, Given)
    BY <2>2 DEF ReadOK
  <2> QED BY <2>1, <2>3, <2>4
<1> QED BY <1>1, <1>2

\* The result of polling owner o, with those of the owners before it.
LEMMA PollType ==
  ASSUME IInv, NEW g \in Reader, read[g].pc = "poll"
  PROVE  LET o   == read[g].at
             got == [read[g].got EXCEPT ![o] = IF up THEN Bytes(copy[o]) ELSE Missing]
             val == Majority(read[g].val, got)
         IN  /\ o \in Owner
             /\ got \in [Owner -> Content \union {Missing}]
             /\ \A q \in Owner : got[q] \in Given \union {Missing}
             /\ \A q \in Owner : q > o => got[q] = Missing
             /\ val \in Given \intersect Content
<1> DEFINE o == read[g].at
           a == IF up THEN Bytes(copy[o]) ELSE Missing
           got == [read[g].got EXCEPT ![o] = a]
           val == Majority(read[g].val, got)
<1>1. read[g] \in Reads /\ ReadOK(read[g], Given)
  BY Before
<1>2. /\ o \in Owner /\ read[g].got \in [Owner -> Content \union {Missing}]
      /\ read[g].val \in Given \intersect Content
      /\ \A q \in Owner : read[g].got[q] \in Given \union {Missing}
      /\ \A q \in Owner : q >= o => read[g].got[q] = Missing
  <2>1. read[g].val \in Content \union {Missing} /\ read[g].val \in Given
    BY <1>1 DEF Reads, ReadOK
  <2>2. Missing \notin Given
    BY GivenFacts DEF IInv
  <2> QED BY <1>1, <2>1, <2>2 DEF Reads, ReadOK
<1>3. a \in Content \union {Missing} /\ a \in Given \union {Missing}
  <2>1. copy[o] \in Stored \union {Missing} /\ copy[o] \in Given \union {Missing}
    BY <1>2, Before
  <2>2. Bytes(copy[o]) \in Content \union {Missing}
    BY <2>1, BytesFacts
  <2>3. Bytes(copy[o]) \in Given \union {Missing}
    BY <2>1, GivenFacts DEF IInv
  <2> QED BY <2>2, <2>3
<1> HIDE DEF a
<1>4. \A q \in Owner : got[q] = IF q = o THEN a ELSE read[g].got[q]
  BY <1>2
<1>5. /\ got \in [Owner -> Content \union {Missing}]
      /\ \A q \in Owner : got[q] \in Given \union {Missing}
  BY <1>2, <1>3, <1>4
<1>6. \A q \in Owner : q > o => got[q] = Missing
  <2> HIDE DEF o, got
  <2>1. o \in Nat /\ \A q \in Owner : q \in Nat
    BY <1>2, OwnerFacts
  <2>2. \A q \in Owner : q > o => q >= o /\ q # o
    BY <2>1
  <2> QED BY <1>2, <1>4, <2>2
<1>7. val \in Given \intersect Content
  <2>1. val \in Results(read[g].val, got)
    BY MajorityIn
  <2>2. Results(read[g].val, got) \subseteq Given \intersect Content
    <3> HIDE DEF got
    <3> QED BY <1>2, <1>5 DEF Results
  <2> QED BY <2>1, <2>2
<1> QED BY <1>2, <1>5, <1>6, <1>7 DEF a

\* The owner Repair turns to is one whose result differs.
LEMMA RepairOwner ==
  ASSUME IInv, NEW g \in Reader, read[g].pc = "repair"
  PROVE  (CHOOSE o \in Owner : /\ read[g].got[o] # Missing
                               /\ \A q \in 1..(o - 1) : read[g].got[q] = Missing) \in Owner
<1> DEFINE P == {o \in Owner : read[g].got[o] # Missing}
<1>1. P \subseteq Owner /\ P # {}
  BY Before DEF ReadOK
<1>2. PICK o \in Owner : o \in P /\ \A q \in 1..(o - 1) : q \notin P
  <2> HIDE DEF P
  <2> QED BY <1>1, FirstOwner
<1>3. \A q \in 1..(o - 1) : q \in Owner
  BY ReplicationAssumption DEF Owner
<1> QED BY <1>2, <1>3

LEMMA ReadBeginsStep ==
  ASSUME IInv, NEW g \in Reader, ReadBegins(g) \/ NextOwner(g) \/ Answered(g) \/ Poll(g)
  PROVE  IInv'
<1>1. /\ accepted' = accepted /\ last' = last /\ up' = up /\ write' = write /\ copy' = copy
      /\ hints' = hints /\ replay' = replay /\ late' = late
  BY DEF ReadBegins, NextOwner, Answered, Poll
<1>2. Given' = Given /\ \A x \in Write : WriteOK(write'[x], Given)
  BY <1>1, Before DEF Given
<1>3. ASSUME NEW e \in Reads, ReadOK(e, Given), read' = [read EXCEPT ![g] = e]
      PROVE  IInv'
  <2>1. /\ read' \in [Reader -> Reads]
        /\ \A x \in Reader : ReadOK(read'[x], Given')
    BY <1>1, <1>3, ReadStep
  <2> QED BY <1>1, <1>2, <2>1, Before, Assemble
<1>4. read[g] \in Reads /\ ReadOK(read[g], Given) /\ read[g].at \in Owner
  BY Before DEF Reads
<1>5. CASE ReadBegins(g)
  <2> DEFINE e == [read[g] EXCEPT !.pc = "ask"]
  <2>1. e \in Reads /\ ReadOK(e, Given)
    BY <1>4 DEF Reads, ReadOK
  <2>2. read' = [read EXCEPT ![g] = e]
    BY <1>5 DEF ReadBegins
  <2> HIDE DEF e
  <2> QED BY <1>3, <2>1, <2>2
<1>6. CASE NextOwner(g)
  <2> DEFINE o == read[g].at
             e == IF o < N THEN [read[g] EXCEPT !.at = o + 1] ELSE NoRead
  <2>1. e \in Reads /\ ReadOK(e, Given)
    <3>1. CASE o < N
      <4>1. o + 1 \in Owner
        BY <1>4, <3>1, OwnerFacts DEF Owner
      <4>2. read[g].pc = "ask"
        BY <1>6 DEF NextOwner
      <4> QED BY <1>4, <3>1, <4>1, <4>2 DEF Reads, ReadOK
    <3>2. CASE ~(o < N)
      BY <3>2, NoReadOK
    <3> QED BY <3>1, <3>2
  <2>2. read' = [read EXCEPT ![g] = e]
    BY <1>6 DEF NextOwner
  <2> HIDE DEF e
  <2> QED BY <1>3, <2>1, <2>2
<1>7. CASE Answered(g)
  <2> DEFINE b == Bytes(copy[read[g].at])
             e == [NoRead EXCEPT !.pc = "poll", !.val = b]
  <2>1. b \in Given /\ b \in Content
    <3>1. copy[read[g].at] # Missing
      BY <1>7 DEF Answered
    <3>2. copy[read[g].at] \in Stored /\ copy[read[g].at] \in Given
      BY <1>4, <3>1, Before
    <3>3. b # Missing
      BY <3>1, BytesFacts
    <3>4. b \in Content \union {Missing} /\ b \in Given \union {Missing}
      BY <3>2, BytesFacts, GivenFacts DEF IInv
    <3> QED BY <3>3, <3>4
  <2>2. e \in Reads /\ ReadOK(e, Given)
    <3> HIDE DEF b
    <3>1. NoRead \in Reads /\ \A o \in Owner : NoRead.got[o] = Missing
      BY NoReadOK DEF NoRead
    <3>2. /\ e \in Reads
          /\ e.pc = "poll" /\ e.val = b /\ e.got = NoRead.got
      BY <2>1, <3>1 DEF Reads
    <3> HIDE DEF e
    <3> QED BY <2>1, <3>1, <3>2 DEF ReadOK
  <2>3. read' = [read EXCEPT ![g] = e]
    BY <1>7 DEF Answered
  <2> HIDE DEF e
  <2> QED BY <1>3, <2>2, <2>3
<1>8. CASE Poll(g)
  <2> DEFINE o   == read[g].at
             got == [read[g].got EXCEPT ![o] = IF up THEN Bytes(copy[o]) ELSE Missing]
             val == Majority(read[g].val, got)
             e   == IF o < N THEN [read[g] EXCEPT !.at = o + 1, !.got = got]
                    ELSE ToRepair(val, Stale(val, got))
  <2>1. /\ o \in Owner
        /\ got \in [Owner -> Content \union {Missing}]
        /\ \A q \in Owner : got[q] \in Given \union {Missing}
        /\ \A q \in Owner : q > o => got[q] = Missing
        /\ val \in Given \intersect Content
    BY <1>8, PollType DEF Poll
  <2>2. read[g].pc = "poll" /\ read' = [read EXCEPT ![g] = e]
    BY <1>8 DEF Poll
  <2>3. e \in Reads /\ ReadOK(e, Given)
    <3>1. CASE o < N
      <4> HIDE DEF got
      <4>1. o + 1 \in Owner
        BY <2>1, <3>1, OwnerFacts DEF Owner
      <4>2. \A q \in Owner : q >= o + 1 => q > o
        <5> HIDE DEF o
        <5>1. o \in Nat /\ \A q \in Owner : q \in Nat
          BY <2>1, OwnerFacts
        <5> QED BY <5>1
      <4>3. e = [read[g] EXCEPT !.at = o + 1, !.got = got]
        BY <3>1
      <4>4. e \in Reads
        BY <1>4, <2>1, <4>1, <4>3 DEF Reads
      <4>5. e.pc = "poll" /\ e.val = read[g].val /\ e.at = o + 1 /\ e.got = got
        BY <1>4, <2>2, <4>3 DEF Reads
      <4> HIDE DEF e
      <4> QED BY <1>4, <2>1, <2>2, <4>2, <4>4, <4>5 DEF ReadOK
    <3>2. CASE ~(o < N)
      <4> DEFINE s == Stale(val, got)
      <4>1. /\ s \in [Owner -> Content \union {Missing}]
            /\ \A q \in Owner : s[q] \in Given \union {Missing}
        <5> HIDE DEF got, val
        <5> QED BY <2>1 DEF Stale
      <4> HIDE DEF s, got, val
      <4>2. ToRepair(val, s) \in Reads /\ ReadOK(ToRepair(val, s), Given)
        BY <2>1, <4>1, ToRepairType
      <4> QED BY <3>2, <4>2 DEF s
    <3> QED BY <3>1, <3>2
  <2> HIDE DEF e
  <2> QED BY <1>3, <2>2, <2>3
<1> QED BY <1>5, <1>6, <1>7, <1>8

LEMMA RepairStep ==
  ASSUME IInv, NEW g \in Reader, Repair(g)
  PROVE  IInv'
<1> DEFINE o == CHOOSE o \in Owner : /\ read[g].got[o] # Missing
                                     /\ \A q \in 1..(o - 1) : read[g].got[q] = Missing
           v == read[g].val
           got == [read[g].got EXCEPT ![o] = Missing]
           e == ToRepair(v, got)
<1>1. /\ accepted' = accepted /\ last' = last /\ up' = up /\ write' = write
      /\ hints' = hints /\ replay' = replay
  BY DEF Repair
<1>2. Given' = Given /\ \A x \in Write : WriteOK(write'[x], Given)
  BY <1>1, Before DEF Given
<1>3. o \in Owner
  BY RepairOwner DEF Repair
<1>4. read[g] \in Reads /\ ReadOK(read[g], Given)
  BY Before
<1>5. read[g].got \in [Owner -> Content \union {Missing}] /\ v \in Given \intersect Content
  <2>1. v \in Content \union {Missing} /\ v \in Given
    BY <1>4 DEF Repair, Reads, ReadOK
  <2>2. Missing \notin Given
    BY GivenFacts DEF IInv
  <2> QED BY <1>4, <2>1, <2>2 DEF Reads
<1>6. read' = [read EXCEPT ![g] = e]
  BY DEF Repair
<1>7. IF up THEN copy' = [copy EXCEPT ![o] = v] /\ late' = late
      ELSE copy' = copy /\ GiveUp(o, v)
  BY DEF Repair
<1> HIDE DEF o
<1>8. e \in Reads /\ ReadOK(e, Given)
  <2>1. /\ got \in [Owner -> Content \union {Missing}]
        /\ \A q \in Owner : got[q] \in Given \union {Missing}
    BY <1>4, <1>5 DEF ReadOK
  <2> HIDE DEF got, v
  <2> QED BY <1>5, <2>1, ToRepairType
<1> HIDE DEF e
<1>9. /\ read' \in [Reader -> Reads]
      /\ \A x \in Reader : ReadOK(read'[x], Given')
  BY <1>1, <1>6, <1>8, ReadStep
<1> HIDE DEF v
<1>10. CASE up
  <2>1. /\ copy' \in [Owner -> Stored \union {Missing}]
        /\ \A q \in Owner : copy'[q] \in Given \union {Missing}
    BY <1>1, <1>3, <1>5, <1>7, <1>10, CopyStep
  <2> QED BY <1>1, <1>2, <1>7, <1>9, <1>10, <2>1, Before, Assemble
<1>11. CASE ~up
  <2>1. late' \subseteq Owner \X Given
    BY <1>3, <1>5, <1>7, <1>11, LateStep
  <2> QED BY <1>1, <1>2, <1>7, <1>9, <1>11, <2>1, Before, Assemble
<1> QED BY <1>10, <1>11

LEMMA OtherStep ==
  ASSUME IInv,
         LinkChanges \/ UNCHANGED vars \/ \E o \in Owner, v \in Stored : ServeLate(o, v)
  PROVE  IInv'
<1>1. /\ accepted' = accepted /\ last' = last /\ write' = write /\ read' = read
      /\ hints' = hints /\ replay' = replay
  BY DEF LinkChanges, ServeLate, vars
<1>2. /\ Given' = Given
      /\ \A x \in Write : WriteOK(write'[x], Given)
      /\ \A x \in Reader : ReadOK(read'[x], Given')
  BY <1>1, Before DEF Given
<1>3. CASE LinkChanges \/ UNCHANGED vars
  <2>1. copy' = copy /\ late' = late /\ up' \in BOOLEAN
    BY <1>3, Before DEF LinkChanges, vars
  <2> QED BY <1>1, <1>2, <2>1, Before, Assemble
<1>4. ASSUME NEW o \in Owner, NEW v \in Stored, ServeLate(o, v)
      PROVE  IInv'
  <2>1. v \in Given
    BY <1>4, Before DEF ServeLate
  <2>2. /\ copy' \in [Owner -> Stored \union {Missing}]
        /\ \A q \in Owner : copy'[q] \in Given \union {Missing}
    BY <1>1, <1>4, <2>1, CopyStep DEF ServeLate
  <2>3. late' \subseteq Owner \X Given /\ up' \in BOOLEAN
    BY <1>4, Before DEF ServeLate
  <2> QED BY <1>1, <1>2, <2>2, <2>3, Before, Assemble
<1> QED BY <1>3, <1>4

LEMMA InvStep == IInv /\ [Next]_vars => IInv'
<1> SUFFICES ASSUME IInv, [Next]_vars PROVE IInv'
  OBVIOUS
<1>1. ASSUME NEW w \in Write, PutLocal(w) PROVE IInv'
  <2>1. PICK v \in Value, pc \in {"verify", "failed"} : Take(w, v, pc)
    BY <1>1 DEF PutLocal
  <2> QED BY <2>1, TakeStep
<1>2. ASSUME NEW w \in Write, DeleteLocal(w) PROVE IInv'
  <2>1. PICK pc \in {Onward(2), "failed"} : Take(w, Tombstone, pc)
    BY <1>2 DEF DeleteLocal
  <2> QED BY <2>1, TakeStep
<1>3. ASSUME NEW w \in Write, Forward(w) PROVE IInv'
  <2>1. PICK v \in Value \union {Tombstone} : Take(w, v, "done")
    BY <1>3 DEF Forward
  <2> QED BY <2>1, TakeStep
<1>4. ASSUME NEW g \in Reader, ReadBegins(g) \/ ReadOn(g) PROVE IInv'
  BY <1>4, ReadBeginsStep, RepairStep DEF ReadOn
<1> QED BY <1>1, <1>2, <1>3, <1>4, HandleStep, ReplayStep, OtherStep DEF Next

----------------------------------------------------------------------------
(* The theorems.                                                           *)

THEOREM Invariance == Spec => []IInv
BY InvInit, InvStep, PTL DEF Spec

\* Copies, hints, handlers and reads keep their types with any number of
\* owners, requests, reads and late calls.
THEOREM TypeCorrect == Spec => []TypeOK
<1>1. IInv => TypeOK
  BY DEF IInv
<1> QED BY <1>1, Invariance, PTL

\* No owner ever holds a value that the storage of the primary did not take
\* from a client before, but for the empty value after a delete.
THEOREM NothingInvented == Spec => []Authentic
<1>1. IInv => Authentic
  BY DEF IInv, Authentic, Given
<1> QED BY <1>1, Invariance, PTL

----------------------------------------------------------------------------
(* The refinement of RecordCopies. Writes, hints and calls to replicas      *)
(* carry what was accepted as it is; only what a read returned goes to the  *)
(* primary.                                                                 *)

Shown == {Bytes(c) : c \in accepted}

Carried(o, v) == v \in Shown \/ (o \in Replica /\ v \in accepted)

SInv ==
    /\ IInv
    /\ accepted \subseteq Value \union {Tombstone}
    /\ \A w \in Write : write[w].pc # "new" => write[w].val \in accepted
    /\ \A o \in Replica : hints[o] \in Seq(accepted)
    /\ \A c \in late : Carried(c[1], c[2])

\* What was given and can be read was returned by some read.
LEMMA ShownContent ==
  ASSUME NEW v \in Given \intersect Content
  PROVE  v \in Shown
<1>1. CASE v \in accepted
  <2>1. Bytes(v) = v
    BY ReplicationAssumption DEF Bytes, Content
  <2> QED BY <1>1, <2>1 DEF Shown
<1> QED BY <1>1 DEF Given, Shown

\* Calls given up carry what the sender was to send.
LEMMA CarriedLate ==
  ASSUME SInv, NEW o, NEW v, Carried(o, v), UNCHANGED accepted,
         late' = late \/ GiveUp(o, v)
  PROVE  \A c \in late' : Carried(c[1], c[2])'
<1>1. late' = late \/ late' = late \union {<<o, v>>}
  BY DEF GiveUp
<1>2. \A c \in late' : Carried(c[1], c[2])
  BY <1>1 DEF SInv
<1> QED BY <1>2 DEF Carried, Shown

LEMMA CarriedInit == Init => SInv
<1> SUFFICES ASSUME Init PROVE SInv
  OBVIOUS
<1>1. <<>> \in Seq(accepted)
  BY EmptySeq
<1> QED BY <1>1, InvInit DEF Init, SInv

\* A client's request adds to what was accepted.
LEMMA CarriedTake ==
  ASSUME SInv, IInv', NEW w \in Write, NEW v \in Value \union {Tombstone}, NEW pc, pc # "new",
         Take(w, v, pc)
  PROVE  SInv'
<1>1. accepted \subseteq accepted' /\ v \in accepted' /\ accepted' \subseteq Value \union {Tombstone}
  BY DEF Take, SInv
<1>2. \A x \in Write : write'[x].pc # "new" => write'[x].val \in accepted'
  <2>1. \A x \in Write : write'[x] = IF x = w THEN [pc |-> pc, val |-> v, at |-> 2] ELSE write[x]
    BY Before DEF Take, SInv
  <2> QED BY <1>1, <2>1 DEF SInv
<1>3. \A o \in Replica : hints'[o] \in Seq(accepted')
  <2>1. Seq(accepted) \subseteq Seq(accepted')
    BY <1>1, SeqMonotonic
  <2> QED BY <2>1 DEF Take, SInv
<1>4. \A c \in late' : Carried(c[1], c[2])'
  BY <1>1 DEF Take, SInv, Carried, Shown
<1> QED BY <1>1, <1>2, <1>3, <1>4 DEF SInv

\* The handler of a request passes its value on.
LEMMA CarriedHandle ==
  ASSUME SInv, IInv', NEW w \in Write, Handle(w)
  PROVE  SInv'
<1>1. /\ UNCHANGED accepted /\ write[w] \in Writes /\ write \in [Write -> Writes]
      /\ write[w].pc # "new" /\ write[w].val \in accepted
      /\ write[w].pc \in {"send", "refer"} => write[w].at \in Replica
  BY Before DEF Handle, Verify, Replicate, CallFails, StoreHint, SInv, WriteOK
<1>2. \A x \in Write : write'[x].pc # "new" => write'[x].val \in accepted'
  <2>1. \A x \in Write : x # w => write'[x] = write[x]
    BY <1>1 DEF Handle, Verify, Replicate, CallFails, StoreHint
  <2>2. write'[w].val = write[w].val
    BY <1>1 DEF Handle, Verify, Replicate, CallFails, StoreHint, Writes
  <2> QED BY <1>1, <2>1, <2>2 DEF SInv
<1>3. \A q \in Replica : hints'[q] \in Seq(accepted')
  <2>1. CASE StoreHint(w)
    <3> DEFINE o == write[w].at
               h == Append(hints[o], write[w].val)
    <3>1. o \in Replica /\ hints' = [hints EXCEPT ![o] = h]
      BY <1>1, <2>1 DEF StoreHint
    <3>2. h \in Seq(accepted)
      BY <1>1, <3>1, AppendProperties DEF SInv
    <3> HIDE DEF h, o
    <3>3. \A q \in Replica : hints'[q] = IF q = o THEN h ELSE hints[q]
      BY <3>1, Before DEF SInv
    <3> QED BY <1>1, <3>2, <3>3 DEF SInv
  <2>2. CASE hints' = hints
    BY <1>1, <2>2 DEF SInv
  <2> QED BY <2>1, <2>2 DEF Handle, Verify, Replicate, CallFails
<1>4. \A c \in late' : Carried(c[1], c[2])'
  <2>1. CASE CallFails(w)
    <3>1. Carried(write[w].at, write[w].val) /\ GiveUp(write[w].at, write[w].val)
      BY <1>1, <2>1 DEF CallFails, Carried
    <3> QED BY <1>1, <3>1, CarriedLate
  <2>2. CASE late' = late
    BY <1>1, <2>2 DEF SInv, Carried, Shown
  <2> QED BY <2>1, <2>2 DEF Handle, Verify, Replicate, StoreHint
<1> QED BY <1>1, <1>2, <1>3, <1>4 DEF SInv

\* The hint a replay is at was accepted.
LEMMA HintAccepted ==
  ASSUME SInv, NEW o \in Replica, replay[o] # 0
  PROVE  replay[o] \in 1..Len(hints[o]) /\ hints[o][replay[o]] \in accepted
<1>1. /\ hints[o] \in Seq(accepted) /\ Len(hints[o]) \in Nat /\ replay[o] \in Nat
      /\ replay[o] <= Len(hints[o])
  BY Before, LenProperties DEF SInv
<1>2. replay[o] \in 1..Len(hints[o])
  BY <1>1
<1> QED BY <1>1, <1>2, ElementOfSeq

LEMMA CarriedReplay ==
  ASSUME SInv, IInv', NEW o \in Replica, ReplayHints(o) \/ Replay(o)
  PROVE  SInv'
<1>1. UNCHANGED <<accepted, write>>
  BY DEF ReplayHints, Replay, ServeReplay, ReplayFails
<1>2. CASE ReplayHints(o)
  <2>1. UNCHANGED <<hints, late>>
    BY <1>2 DEF ReplayHints
  <2> QED BY <1>1, <2>1 DEF SInv, Carried, Shown
<1>3. CASE Replay(o)
  <2>1. replay[o] # 0
    BY <1>3 DEF Replay, ServeReplay, ReplayFails
  <2> DEFINE v == hints[o][replay[o]]
             h == RemoveAt(hints[o], replay[o])
  <2>2. replay[o] \in 1..Len(hints[o]) /\ v \in accepted
    BY <2>1, HintAccepted
  <2>3. h \in Seq(accepted)
    BY <2>2, RemoveAtType DEF SInv
  <2>4. hints' = hints \/ hints' = [hints EXCEPT ![o] = h]
    BY <1>3 DEF Replay, ServeReplay, ReplayFails
  <2>5. late' = late \/ GiveUp(o, v)
    BY <1>3 DEF Replay, ServeReplay, ReplayFails
  <2>6. Carried(o, v)
    BY <2>2 DEF Carried
  <2> HIDE DEF v, h
  <2>7. \A c \in late' : Carried(c[1], c[2])'
    BY <1>1, <2>5, <2>6, CarriedLate
  <2>8. \A q \in Replica : hints'[q] = hints[q] \/ hints'[q] = h
    BY <2>4, Before DEF SInv
  <2> QED BY <1>1, <2>3, <2>7, <2>8 DEF SInv
<1> QED BY <1>2, <1>3

\* The value a read repairs with was returned by a read.
LEMMA RepairShown ==
  ASSUME SInv, NEW g \in Reader, read[g].pc = "repair"
  PROVE  read[g].val \in Shown
<1>1. read[g] \in Reads /\ ReadOK(read[g], Given) /\ Missing \notin Given
  BY Before, GivenFacts DEF SInv, IInv
<1>2. read[g].val \in Given \intersect Content
  BY <1>1 DEF Reads, ReadOK
<1> QED BY <1>2, ShownContent

LEMMA CarriedOther ==
  ASSUME SInv, IInv',
         \/ LinkChanges \/ UNCHANGED vars
         \/ \E o \in Owner, v \in Stored : ServeLate(o, v)
         \/ \E g \in Reader : ReadBegins(g) \/ ReadOn(g)
  PROVE  SInv'
<1>1. UNCHANGED <<accepted, write, hints>>
  BY DEF LinkChanges, vars, ServeLate, ReadBegins, ReadOn, Answered, NextOwner, Poll, Repair
<1>2. ASSUME NEW g \in Reader, Repair(g)
      PROVE  \A c \in late' : Carried(c[1], c[2])'
  <2>1. PICK o, v : v = read[g].val /\ (late' = late \/ GiveUp(o, v))
    BY <1>2 DEF Repair
  <2>2. Carried(o, v)
    BY <1>2, <2>1, RepairShown DEF Repair, Carried
  <2> QED BY <1>1, <2>1, <2>2, CarriedLate
<1>3. late' \subseteq late => \A c \in late' : Carried(c[1], c[2])'
  BY <1>1 DEF SInv, Carried, Shown
<1>4. late' \subseteq late \/ \E g \in Reader : Repair(g)
  <2>1. CASE LinkChanges \/ UNCHANGED vars
    BY <2>1 DEF LinkChanges, vars
  <2>2. CASE \E o \in Owner, v \in Stored : ServeLate(o, v)
    BY <2>2 DEF ServeLate
  <2>3. ASSUME NEW g \in Reader, ReadBegins(g) \/ ReadOn(g), ~ Repair(g)
        PROVE  late' \subseteq late
    BY <2>3 DEF ReadBegins, ReadOn, Answered, NextOwner, Poll
  <2> QED BY <2>1, <2>2, <2>3
<1>5. \A c \in late' : Carried(c[1], c[2])'
  BY <1>2, <1>3, <1>4
<1> QED BY <1>1, <1>5 DEF SInv

\* A client's request, taken apart.
LEMMA TakeSteps ==
  ASSUME NEW w \in Write, PutLocal(w) \/ DeleteLocal(w) \/ Forward(w)
  PROVE  \E v \in Value \union {Tombstone} :
            \E pc \in {"verify", "failed", "done", "send"} : Take(w, v, pc)
<1>1. Onward(2) \in {"send", "done"}
  BY DEF Onward
<1> QED BY <1>1 DEF PutLocal, DeleteLocal, Forward

LEMMA CarriedStep == SInv /\ [Next]_vars => SInv'
<1> SUFFICES ASSUME SInv, [Next]_vars PROVE SInv'
  OBVIOUS
<1>1. IInv'
  BY InvStep DEF SInv
<1>2. ASSUME NEW w \in Write, PutLocal(w) \/ DeleteLocal(w) \/ Forward(w) PROVE SInv'
  <2>1. PICK v \in Value \union {Tombstone}, pc \in {"verify", "failed", "done", "send"} : Take(w, v, pc)
    BY <1>2, TakeSteps
  <2> QED BY <1>1, <2>1, CarriedTake
<1> QED BY <1>1, <1>2, CarriedHandle, CarriedReplay, CarriedOther DEF Next

\* The requests taken, as Copies maps them.
Taken == {w \in Write : write[w].pc # "new"}

\* A change of one copy to what it was given.
LEMMA CopiesChange ==
  ASSUME SInv, UNCHANGED <<accepted, Taken>>, NEW o \in Owner, NEW v, Carried(o, v),
         copy' = [copy EXCEPT ![o] = v]
  PROVE  Copies!Next
<1>1. CASE v \in Shown
  <2>1. PICK c \in accepted : v = Bytes(c)
    BY <1>1 DEF Shown
  <2>2. Copies!Repair(o, c) /\ c \in Value \union {Tombstone}
    BY <2>1 DEF Copies!Repair, Copies!AsRead, Bytes, Taken, SInv
  <2> QED BY <2>2 DEF Copies!Next, Owner
<1>2. CASE o \in Replica /\ v \in accepted
  <2>1. Copies!Spread(o, v) /\ v \in Value \union {Tombstone}
    BY <1>2 DEF Copies!Spread, Taken, SInv
  <2> QED BY <1>2, <2>1 DEF Copies!Next, Replica
<1> QED BY <1>1, <1>2 DEF Carried

LEMMA CopiesStep == SInv /\ [Next]_vars => [Copies!Next]_(Copies!vars)
<1> SUFFICES ASSUME SInv, [Next]_vars
             PROVE  Copies!Next \/ UNCHANGED Copies!vars
  OBVIOUS
<1>0. IInv /\ write \in [Write -> Writes]
  BY Before DEF SInv
<1>1. ASSUME NEW w \in Write, PutLocal(w) \/ DeleteLocal(w) \/ Forward(w)
      PROVE  Copies!Next
  <2>1. PICK v \in Value \union {Tombstone}, pc \in {"verify", "failed", "done", "send"} : Take(w, v, pc)
    BY <1>1, TakeSteps
  <2>2. \A x \in Write : write'[x] = IF x = w THEN [pc |-> pc, val |-> v, at |-> 2] ELSE write[x]
    BY <1>0, <2>1 DEF Take
  <2>3. w \notin Taken /\ Taken' = Taken \union {w}
    BY <2>1, <2>2 DEF Take, Taken
  <2>4. Copies!Accept(w, v)
    BY <2>1, <2>3 DEF Take, Copies!Accept, Taken
  <2> QED BY <2>4 DEF Copies!Next
<1>2. ASSUME UNCHANGED <<accepted, copy, Taken>>
      PROVE  UNCHANGED Copies!vars
  BY <1>2 DEF Copies!vars, Taken
<1>3. ASSUME NEW w \in Write, Handle(w)
      PROVE  Copies!Next \/ UNCHANGED Copies!vars
  <2>1. /\ write[w] \in Writes /\ WriteOK(write[w], Given)
        /\ write[w].pc # "new" /\ write[w].val \in accepted
        /\ UNCHANGED accepted
    BY <1>0, <1>3, Before DEF Handle, Verify, Replicate, CallFails, StoreHint, SInv
  <2>2. Taken' = Taken
    <3>1. \A x \in Write : x # w => write'[x] = write[x]
      BY <1>0, <1>3 DEF Handle, Verify, Replicate, CallFails, StoreHint
    <3>2. write'[w].pc # "new"
      BY <1>0, <1>3, <2>1
         DEF Handle, Verify, Replicate, CallFails, StoreHint, Writes, Onward
    <3> QED BY <2>1, <3>1, <3>2 DEF Taken
  <2>3. CASE Replicate(w)
    <3>1. write[w].at \in Replica /\ write[w].at \in Owner
      BY <2>1, <2>3, OwnerFacts DEF Replicate, WriteOK
    <3>2. Carried(write[w].at, write[w].val)
      BY <2>1, <3>1 DEF Carried
    <3>3. copy' = [copy EXCEPT ![write[w].at] = write[w].val]
      BY <2>3 DEF Replicate
    <3> QED BY <2>1, <2>2, <3>1, <3>2, <3>3, CopiesChange
  <2>4. CASE copy' = copy
    BY <1>2, <2>1, <2>2, <2>4
  <2> QED BY <1>3, <2>3, <2>4 DEF Handle, Verify, CallFails, StoreHint
<1>4. ASSUME UNCHANGED <<accepted, write>>
      PROVE  UNCHANGED <<accepted, Taken>>
  BY <1>4 DEF Taken
<1>5. ASSUME NEW o \in Replica, ReplayHints(o) \/ Replay(o)
      PROVE  Copies!Next \/ UNCHANGED Copies!vars
  <2>1. UNCHANGED <<accepted, Taken>>
    BY <1>4, <1>5 DEF ReplayHints, Replay, ServeReplay, ReplayFails
  <2>2. CASE ServeReplay(o)
    <3>1. Carried(o, hints[o][replay[o]]) /\ o \in Owner
      BY <2>2, HintAccepted, OwnerFacts DEF ServeReplay, Carried
    <3>2. copy' = [copy EXCEPT ![o] = hints[o][replay[o]]]
      BY <2>2 DEF ServeReplay
    <3> QED BY <2>1, <3>1, <3>2, CopiesChange
  <2>3. CASE copy' = copy
    BY <1>2, <2>1, <2>3
  <2> QED BY <1>5, <2>2, <2>3 DEF ReplayHints, Replay, ReplayFails
<1>6. ASSUME NEW o \in Owner, NEW v \in Stored, ServeLate(o, v)
      PROVE  Copies!Next
  <2>1. UNCHANGED <<accepted, Taken>> /\ copy' = [copy EXCEPT ![o] = v]
    BY <1>4, <1>6 DEF ServeLate
  <2>2. Carried(o, v)
    BY <1>6 DEF ServeLate, SInv
  <2> QED BY <2>1, <2>2, CopiesChange
<1>7. ASSUME NEW g \in Reader, ReadBegins(g) \/ ReadOn(g)
      PROVE  Copies!Next \/ UNCHANGED Copies!vars
  <2>1. UNCHANGED <<accepted, Taken>>
    BY <1>4, <1>7 DEF ReadBegins, ReadOn, Answered, NextOwner, Poll, Repair
  <2>2. CASE Repair(g) /\ copy' # copy
    <3> DEFINE o == CHOOSE o \in Owner : /\ read[g].got[o] # Missing
                                         /\ \A q \in 1..(o - 1) : read[g].got[q] = Missing
    <3>1. read[g].pc = "repair" /\ copy' = [copy EXCEPT ![o] = read[g].val]
      BY <2>2 DEF Repair
    <3>2. o \in Owner
      BY <1>0, <3>1, RepairOwner
    <3>3. Carried(o, read[g].val)
      BY <3>1, RepairShown DEF Carried
    <3> HIDE DEF o
    <3> QED BY <2>1, <3>1, <3>2, <3>3, CopiesChange
  <2>3. CASE copy' = copy
    BY <1>2, <2>1, <2>3
  <2> QED BY <1>7, <2>2, <2>3 DEF ReadBegins, ReadOn, Answered, NextOwner, Poll
<1>8. CASE LinkChanges \/ UNCHANGED vars
  <2>1. UNCHANGED <<accepted, write, copy>>
    BY <1>8 DEF LinkChanges, vars
  <2> QED BY <1>2, <1>4, <2>1
<1> QED BY <1>1, <1>3, <1>5, <1>6, <1>7, <1>8 DEF Next

\* The copies are those RecordCopies describes, for any number of owners,
\* requests, reads and late calls: the primary accepts a request once, and no
\* replay, late call or repair deletes it there or takes a record away.
THEOREM CopiesImplemented == Spec => ImplementsRecordCopies
<1>1. Init => SInv /\ Copies!Init
  <2>1. Init => Copies!Init
    BY DEF Init, Copies!Init, Owner
  <2> QED BY <2>1, CarriedInit
<1>2. SInv /\ [Next]_vars => SInv'
  BY CarriedStep
<1>3. SInv /\ [Next]_vars => [Copies!Next]_(Copies!vars)
  BY CopiesStep
<1> QED BY <1>1, <1>2, <1>3, PTL DEF Spec, ImplementsRecordCopies, Copies!Spec

\* As long as no owner restarts, a copy that has a record keeps one, and the
\* primary comes to hold a tombstone only in the step in which it accepts a
\* request, whatever reads repair (kv.go: asyncReadRepair) and hints replay.
THEOREM RecordsStay ==
  Spec => [][/\ \A o \in Owner : copy[o] # Missing => copy'[o] # Missing
             /\ copy[1] # Tombstone /\ copy'[1] = Tombstone =>
                  \E w \in Write : write[w].pc = "new" /\ write'[w].pc # "new"]_vars
<1> DEFINE A == /\ \A o \in Owner : copy[o] # Missing => copy'[o] # Missing
                /\ copy[1] # Tombstone /\ copy'[1] = Tombstone =>
                     \E w \in Write : write[w].pc = "new" /\ write'[w].pc # "new"
<1>1. SInv /\ [Next]_vars => [A]_vars
  <2> SUFFICES ASSUME SInv, [Next]_vars PROVE A
    OBVIOUS
  <2>1. copy \in [Owner -> Stored \union {Missing}] /\ 1 \in Owner
    BY ReplicationAssumption DEF SInv, IInv, TypeOK, Owner
  <2>2. Copies!Next \/ UNCHANGED Copies!vars
    BY CopiesStep
  <2>3. ASSUME NEW v \in Value \union {Tombstone}, NEW i \in Write, Copies!Accept(i, v)
        PROVE  A
    <3>1. i \notin Taken /\ i \in Taken' /\ copy' = [copy EXCEPT ![1] = v]
      BY <2>3 DEF Copies!Accept, Taken
    <3>2. write[i].pc = "new" /\ write'[i].pc # "new"
      BY <3>1 DEF Taken
    <3> QED BY <2>1, <3>1, <3>2, ReplicationAssumption
  <2>4. ASSUME NEW v \in Value \union {Tombstone}, NEW o \in 2..N, Copies!Spread(o, v)
        PROVE  A
    <3>1. copy' = [copy EXCEPT ![o] = v] /\ o # 1 /\ v # Missing
      BY <2>4, ReplicationAssumption DEF Copies!Spread
    <3> QED BY <2>1, <3>1
  <2>5. ASSUME NEW v \in Value \union {Tombstone}, NEW o \in 1..N, Copies!Repair(o, v)
        PROVE  A
    <3>1. copy' = [copy EXCEPT ![o] = Copies!AsRead(v)]
      BY <2>5 DEF Copies!Repair
    <3>2. Copies!AsRead(v) # Missing /\ Copies!AsRead(v) # Tombstone
      BY ReplicationAssumption DEF Copies!AsRead
    <3> QED BY <2>1, <3>1, <3>2
  <2>6. CASE UNCHANGED Copies!vars
    BY <2>6 DEF Copies!vars
  <2> QED BY <2>2, <2>3, <2>4, <2>5, <2>6 DEF Copies!Next
<1>2. Init => SInv
  BY CarriedInit
<1>3. SInv /\ [Next]_vars => SInv'
  BY CarriedStep
<1> QED BY <1>1, <1>2, <1>3, PTL DEF Spec
=============================================================================
