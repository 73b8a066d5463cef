---------------------------- MODULE LifecycleProofs ---------------------------
(***************************************************************************)
(* Theorems about Membership and Lifecycle, for any nodes, handlers, hash  *)
(* values and numbers of operations.                                       *)
(***************************************************************************)
EXTENDS Lifecycle, HashRingProofs

----------------------------------------------------------------------------
(* The steps a goroutine has still to take.                                *)

LookStep == {"read", "first", "entries"}

\* A listing is followed by its store, and a store comes after nothing else;
\* an entry is put first of all.
Ordered(q) ==
    /\ q \in Seq(StepName)
    /\ \A i \in 1..Len(q) : q[i] = "list" => i < Len(q) /\ q[i+1] = "store"
    /\ \A i \in 1..Len(q) : i > 1 /\ q[i] = "store" => q[i-1] = "list"
    /\ \A i \in 1..Len(q) : i > 1 => q[i] # "put"

Without(q, T) == \A i \in 1..Len(q) : q[i] \notin T

ReadSteps == {<<"list", "store", "read", "entries">>, <<"store", "read", "entries">>, <<"read", "entries">>}
FirstSteps == {<<"list", "store", "first", "entries">>, <<"store", "first", "entries">>, <<"first", "entries">>}
LookSteps == ReadSteps \cup FirstSteps \cup {<<"entries">>}

Joined(a, b, c) ==
    /\ a \in Seq(StepName) /\ b \in Seq(StepName) /\ c \in Seq(StepName)
    /\ Len(c) = Len(a) + Len(b)
    /\ \A i \in 1..Len(a) : c[i] = a[i]
    /\ \A i \in 1..Len(b) : c[Len(a) + i] = b[i]

LEMMA Join ==
  ASSUME NEW a, NEW b, NEW c, Joined(a, b, c)
  PROVE  a \o b = c
<1>1. a \in Seq(StepName) /\ b \in Seq(StepName) /\ c \in Seq(StepName) /\ Len(c) = Len(a) + Len(b)
  BY DEF Joined
<1>2. a \o b \in Seq(StepName) /\ Len(a \o b) = Len(c)
  BY <1>1, ConcatProperties
<1>3. \A i \in 1..Len(a \o b) : (a \o b)[i] = IF i <= Len(a) THEN a[i] ELSE b[i - Len(a)]
  BY <1>1, ConcatProperties
<1>4. ASSUME NEW i \in 1..Len(c) PROVE (a \o b)[i] = c[i]
  <2>1. Len(a) \in Nat /\ Len(b) \in Nat
    BY <1>1, LenProperties
  <2>2. CASE i <= Len(a)
    BY <1>1, <1>2, <1>3, <2>1, <2>2 DEF Joined
  <2>3. CASE ~ (i <= Len(a))
    <3>1. i - Len(a) \in 1..Len(b) /\ Len(a) + (i - Len(a)) = i
      BY <1>1, <2>1, <2>3
    <3> QED BY <1>1, <1>2, <1>3, <2>1, <2>3, <3>1 DEF Joined
  <2> QED BY <2>2, <2>3
<1> QED BY <1>1, <1>2, <1>4, SeqEqual

\* The programs of Membership, written out.
LEMMA Programs ==
  /\ Sync = <<"list", "store">>
  /\ Sync \o <<"peers">> = <<"list", "store", "peers">>
  /\ Sync \o <<"send">> = <<"list", "store", "send">>
  /\ <<"elect">> \o Sync = <<"elect", "list", "store">>
  /\ <<"put">> \o Sync = <<"put", "list", "store">>
  /\ <<"put">> \o Sync \o Sync = <<"put", "list", "store", "list", "store">>
  /\ Sync \o Sync \o Sync = <<"list", "store", "list", "store", "list", "store">>
  /\ Registered = <<"list", "store", "list", "store", "elect", "list", "store">>
  /\ Sync \o <<"read", "entries">> = <<"list", "store", "read", "entries">>
  /\ Sync \o <<"first", "entries">> = <<"list", "store", "first", "entries">>
<1> DEFINE Two == <<"list", "store", "list", "store">>
<1>1. Joined(Sync, <<"peers">>, <<"list", "store", "peers">>)
  BY DEF Joined, Sync, StepName
<1>2. Joined(Sync, <<"send">>, <<"list", "store", "send">>)
  BY DEF Joined, Sync, StepName
<1>3. Joined(<<"elect">>, Sync, <<"elect", "list", "store">>)
  BY DEF Joined, Sync, StepName
<1>4. Joined(<<"put">>, Sync, <<"put", "list", "store">>)
  BY DEF Joined, Sync, StepName
<1>5. Joined(<<"put", "list", "store">>, Sync, <<"put", "list", "store", "list", "store">>)
  BY DEF Joined, Sync, StepName
<1>6. Joined(Sync, Sync, Two)
  BY DEF Joined, Sync, StepName
<1>7. Joined(Two, Sync, <<"list", "store", "list", "store", "list", "store">>)
  BY DEF Joined, Sync, StepName
<1>8. Joined(Two, <<"elect">>, <<"list", "store", "list", "store", "elect">>)
  BY DEF Joined, Sync, StepName
<1>9. Joined(<<"list", "store", "list", "store", "elect">>, Sync,
             <<"list", "store", "list", "store", "elect", "list", "store">>)
  BY DEF Joined, Sync, StepName
<1>10. Joined(Sync, <<"read", "entries">>, <<"list", "store", "read", "entries">>)
  BY DEF Joined, Sync, StepName
<1>11. Joined(Sync, <<"first", "entries">>, <<"list", "store", "first", "entries">>)
  BY DEF Joined, Sync, StepName
<1>12. Sync \o Sync = Two /\ <<"put">> \o Sync = <<"put", "list", "store">>
       /\ Two \o <<"elect">> = <<"list", "store", "list", "store", "elect">>
  BY <1>4, <1>6, <1>8, Join
<1> HIDE DEF Two
<1>13. /\ <<"put">> \o Sync \o Sync = <<"put", "list", "store", "list", "store">>
       /\ Sync \o Sync \o Sync = <<"list", "store", "list", "store", "list", "store">>
  BY <1>5, <1>7, <1>12, Join
<1>14. Registered = <<"list", "store", "list", "store", "elect", "list", "store">>
  BY <1>9, <1>12, Join DEF Registered
<1>15. Sync = <<"list", "store">>
  BY DEF Sync
<1>16. Sync \o <<"peers">> = <<"list", "store", "peers">>
  BY <1>1, Join
<1>17. Sync \o <<"send">> = <<"list", "store", "send">>
  BY <1>2, Join
<1>18. <<"elect">> \o Sync = <<"elect", "list", "store">>
  BY <1>3, Join
<1>19. Sync \o <<"read", "entries">> = <<"list", "store", "read", "entries">>
  BY <1>10, Join
<1>20. Sync \o <<"first", "entries">> = <<"list", "store", "first", "entries">>
  BY <1>11, Join
<1> QED BY <1>12, <1>13, <1>14, <1>15, <1>16, <1>17, <1>18, <1>19, <1>20, Zenon

LEMMA OrderedPrograms ==
  /\ Ordered(<<>>) /\ Ordered(<<"peers">>) /\ Ordered(<<"send">>) /\ Ordered(<<"entries">>)
  /\ Ordered(<<"list", "store">>)
  /\ Ordered(<<"list", "store", "peers">>)
  /\ Ordered(<<"list", "store", "send">>)
  /\ Ordered(<<"elect", "list", "store">>)
  /\ Ordered(<<"put", "list", "store">>)
  /\ Ordered(<<"put", "list", "store", "list", "store">>)
  /\ Ordered(<<"list", "store", "list", "store", "list", "store">>)
  /\ Ordered(<<"list", "store", "list", "store", "elect", "list", "store">>)
  /\ Ordered(<<"list", "store", "read", "entries">>)
  /\ Ordered(<<"list", "store", "first", "entries">>)
BY DEF Ordered, StepName

LEMMA OrderedTail ==
  ASSUME NEW q, Ordered(q), q # <<>>
  PROVE  /\ Head(q) = q[1] /\ Head(q) \in StepName
         /\ Ordered(Tail(q))
         /\ Head(q) = "list" => Tail(q) # <<>> /\ Head(Tail(q)) = "store"
         /\ Head(q) # "list" /\ Tail(q) # <<>> => Head(Tail(q)) # "store"
         /\ Tail(q) # <<>> => Head(Tail(q)) # "put"
         /\ \A T : Without(q, T) => Without(Tail(q), T)
<1>1. q \in Seq(StepName)
  BY DEF Ordered
<1>2. /\ Len(q) \in Nat \ {0} /\ Head(q) = q[1] /\ Head(q) \in StepName
      /\ Tail(q) \in Seq(StepName) /\ Len(Tail(q)) = Len(q) - 1
      /\ \A i \in 1..Len(Tail(q)) : Tail(q)[i] = q[i+1]
  BY <1>1, HeadTailProperties, EmptySeq
<1>3. Tail(q) # <<>> => Len(Tail(q)) \in Nat \ {0} /\ Head(Tail(q)) = Tail(q)[1] /\ Head(Tail(q)) = q[2]
  BY <1>2, HeadTailProperties, EmptySeq
<1>4. Ordered(Tail(q))
  <2>1. \A i \in 1..Len(Tail(q)) : i + 1 \in 1..Len(q) /\ Tail(q)[i] = q[i+1] /\ (i + 1) + 1 = i + 2 /\ (i + 1) - 1 = i
    BY <1>2
  <2>2. ASSUME NEW i \in 1..Len(Tail(q)), Tail(q)[i] = "list"
        PROVE  i < Len(Tail(q)) /\ Tail(q)[i+1] = "store"
    <3>1. i + 1 < Len(q) /\ q[(i+1)+1] = "store"
      BY <2>1, <2>2 DEF Ordered
    <3>2. i < Len(Tail(q)) /\ i + 1 \in 1..Len(Tail(q))
      BY <3>1, <1>2
    <3> QED BY <3>1, <3>2, <2>1
  <2>3. ASSUME NEW i \in 1..Len(Tail(q)), i > 1, Tail(q)[i] = "store"
        PROVE  Tail(q)[i-1] = "list"
    <3>1. q[(i+1)-1] = "list"
      BY <2>1, <2>3 DEF Ordered
    <3>2. i - 1 \in 1..Len(Tail(q)) /\ (i - 1) + 1 = i
      BY <2>3, <1>2
    <3> QED BY <3>1, <3>2, <2>1
  <2>4. ASSUME NEW i \in 1..Len(Tail(q)), i > 1 PROVE Tail(q)[i] # "put"
    BY <2>1, <2>4 DEF Ordered
  <2> QED BY <1>2, <2>2, <2>3, <2>4 DEF Ordered
<1>5. Head(q) = "list" => Tail(q) # <<>> /\ Head(Tail(q)) = "store"
  <2> SUFFICES ASSUME Head(q) = "list" PROVE Tail(q) # <<>> /\ Head(Tail(q)) = "store"
    OBVIOUS
  <2>1. 1 < Len(q) /\ q[1+1] = "store"
    BY <1>2 DEF Ordered
  <2>2. Len(Tail(q)) # 0
    BY <1>2, <2>1
  <2>3. Tail(q) # <<>>
    BY <2>2, EmptySeq
  <2> QED BY <2>1, <2>3, <1>3
<1>6. Tail(q) # <<>> => 2 \in 1..Len(q) /\ Head(Tail(q)) = q[2]
  BY <1>2, <1>3
<1>7. Head(q) # "list" /\ Tail(q) # <<>> => Head(Tail(q)) # "store"
  <2> SUFFICES ASSUME Head(q) # "list", Tail(q) # <<>>, q[2] = "store" PROVE FALSE
    BY <1>6
  <2>1. q[2-1] = "list"
    BY <1>6 DEF Ordered
  <2> QED BY <2>1, <1>2
<1>8. Tail(q) # <<>> => Head(Tail(q)) # "put"
  BY <1>6 DEF Ordered
<1>9. \A T : Without(q, T) => Without(Tail(q), T)
  <2>1. \A i \in 1..Len(Tail(q)) : i + 1 \in 1..Len(q) /\ Tail(q)[i] = q[i+1]
    BY <1>2
  <2> QED BY <2>1 DEF Without
<1> QED BY <1>2, <1>4, <1>5, <1>7, <1>8, <1>9

\* The first of the steps q is s: At(p, s) is Begins(todo[p], s).
Begins(q, s) == q # <<>> /\ Head(q) = s

Shifted(q, t) ==
    /\ q \in Seq(StepName) /\ q # <<>> /\ t \in Seq(StepName)
    /\ Len(q) = Len(t) + 1
    /\ \A i \in 1..Len(t) : t[i] = q[i + 1]

LEMMA Shift ==
  ASSUME NEW q, NEW t, Shifted(q, t)
  PROVE  Tail(q) = t
<1>1. q \in Seq(StepName) /\ q # <<>> /\ t \in Seq(StepName) /\ Len(q) = Len(t) + 1
  BY DEF Shifted
<1>2. Tail(q) \in Seq(StepName) /\ Len(Tail(q)) = Len(t)
      /\ \A i \in 1..Len(Tail(q)) : Tail(q)[i] = q[i + 1]
  BY <1>1, HeadTailProperties, LenProperties
<1>3. \A i \in 1..Len(t) : Tail(q)[i] = t[i]
  BY <1>2 DEF Shifted
<1> QED BY <1>1, <1>2, <1>3, SeqEqual

LEMMA Beginnings ==
  /\ \A s : ~ Begins(<<>>, s)
  /\ \A q \in ReadSteps \cup FirstSteps : Begins(q, "list") \/ Begins(q, "store") \/ Begins(q, "read") \/ Begins(q, "first")
  /\ \A q \in LookSteps : ~ Begins(q, "elect") /\ ~ Begins(q, "put") /\ q # <<>>
  /\ \A q \in LookSteps : Begins(q, "entries") => q = <<"entries">>
  /\ \A q \in LookSteps : Begins(q, "list") =>
        /\ q \in ReadSteps => Tail(q) \in ReadSteps /\ Tail(q) \notin FirstSteps
        /\ q \in FirstSteps => Tail(q) \in FirstSteps
        /\ Begins(Tail(q), "store")
  /\ \A q \in LookSteps : Begins(q, "store") =>
        /\ q \in ReadSteps => Tail(q) = <<"read", "entries">>
        /\ q \in FirstSteps => Tail(q) = <<"first", "entries">>
  /\ \A q \in LookSteps : Begins(q, "read") => q = <<"read", "entries">> /\ Tail(q) = <<"entries">>
  /\ \A q \in LookSteps : Begins(q, "first") => q = <<"first", "entries">> /\ Tail(q) = <<"entries">>
<1>1. \A s : ~ Begins(<<>>, s)
  BY DEF Begins
<1>2. \A q \in LookSteps :
        /\ q # <<>>
        /\ Head(q) \in {"list", "store", "read", "first", "entries"}
        /\ q \in ReadSteps \cup FirstSteps => Head(q) # "entries"
  BY DEF LookSteps, ReadSteps, FirstSteps
<1>3. \A q \in LookSteps : Head(q) = "entries" => q = <<"entries">>
  BY DEF LookSteps, ReadSteps, FirstSteps
<1>0. /\ Tail(<<"list", "store", "read", "entries">>) = <<"store", "read", "entries">>
      /\ Tail(<<"list", "store", "first", "entries">>) = <<"store", "first", "entries">>
      /\ Tail(<<"store", "read", "entries">>) = <<"read", "entries">>
      /\ Tail(<<"store", "first", "entries">>) = <<"first", "entries">>
      /\ Tail(<<"read", "entries">>) = <<"entries">>
      /\ Tail(<<"first", "entries">>) = <<"entries">>
  <2>1. /\ Shifted(<<"list", "store", "read", "entries">>, <<"store", "read", "entries">>)
        /\ Shifted(<<"list", "store", "first", "entries">>, <<"store", "first", "entries">>)
        /\ Shifted(<<"store", "read", "entries">>, <<"read", "entries">>)
        /\ Shifted(<<"store", "first", "entries">>, <<"first", "entries">>)
        /\ Shifted(<<"read", "entries">>, <<"entries">>)
        /\ Shifted(<<"first", "entries">>, <<"entries">>)
    BY DEF Shifted, StepName
  <2> QED BY <2>1, Shift
<1>4. \A q \in LookSteps : Head(q) = "list" =>
        \/ q = <<"list", "store", "read", "entries">> /\ Tail(q) = <<"store", "read", "entries">>
        \/ q = <<"list", "store", "first", "entries">> /\ Tail(q) = <<"store", "first", "entries">>
  <2>1. \A q \in LookSteps : Head(q) = "list" =>
          q = <<"list", "store", "read", "entries">> \/ q = <<"list", "store", "first", "entries">>
    BY DEF LookSteps, ReadSteps, FirstSteps
  <2> QED BY <1>0, <2>1
<1>5. \A q \in LookSteps : Head(q) = "store" =>
        \/ q = <<"store", "read", "entries">> /\ Tail(q) = <<"read", "entries">>
        \/ q = <<"store", "first", "entries">> /\ Tail(q) = <<"first", "entries">>
  <2>1. \A q \in LookSteps : Head(q) = "store" =>
          q = <<"store", "read", "entries">> \/ q = <<"store", "first", "entries">>
    BY DEF LookSteps, ReadSteps, FirstSteps
  <2> QED BY <1>0, <2>1
<1>6. \A q \in LookSteps : Head(q) = "read" => q = <<"read", "entries">> /\ Tail(q) = <<"entries">>
  <2>1. \A q \in LookSteps : Head(q) = "read" => q = <<"read", "entries">>
    BY DEF LookSteps, ReadSteps, FirstSteps
  <2> QED BY <1>0, <2>1
<1>7. \A q \in LookSteps : Head(q) = "first" => q = <<"first", "entries">> /\ Tail(q) = <<"entries">>
  <2>1. \A q \in LookSteps : Head(q) = "first" => q = <<"first", "entries">>
    BY DEF LookSteps, ReadSteps, FirstSteps
  <2> QED BY <1>0, <2>1
<1>8. ReadSteps \cap FirstSteps = {}
  BY DEF ReadSteps, FirstSteps
<1>9. ASSUME NEW q \in LookSteps, Begins(q, "list")
      PROVE  /\ q \in ReadSteps => Tail(q) \in ReadSteps /\ Tail(q) \notin FirstSteps
             /\ q \in FirstSteps => Tail(q) \in FirstSteps
             /\ Begins(Tail(q), "store")
  <2>1. CASE q = <<"list", "store", "read", "entries">> /\ Tail(q) = <<"store", "read", "entries">>
    BY <2>1, <1>8 DEF ReadSteps, FirstSteps, Begins
  <2>2. CASE q = <<"list", "store", "first", "entries">> /\ Tail(q) = <<"store", "first", "entries">>
    BY <2>2, <1>8 DEF ReadSteps, FirstSteps, Begins
  <2> QED BY <1>4, <1>9, <2>1, <2>2 DEF Begins
<1>10. ASSUME NEW q \in LookSteps, Begins(q, "store")
       PROVE  /\ q \in ReadSteps => Tail(q) = <<"read", "entries">>
              /\ q \in FirstSteps => Tail(q) = <<"first", "entries">>
  BY <1>5, <1>8, <1>10 DEF ReadSteps, FirstSteps, Begins
<1>11. ReadSteps \cup FirstSteps \subseteq LookSteps
  BY DEF LookSteps
<1>12. \A q \in LookSteps : ~ Begins(q, "elect") /\ ~ Begins(q, "put") /\ q # <<>>
  BY <1>2 DEF Begins
<1>13. \A q \in ReadSteps \cup FirstSteps : Begins(q, "list") \/ Begins(q, "store") \/ Begins(q, "read") \/ Begins(q, "first")
  BY <1>2, <1>11 DEF Begins
<1> QED BY <1>1, <1>3, <1>6, <1>7, <1>9, <1>10, <1>12, <1>13 DEF Begins

----------------------------------------------------------------------------
(* The invariant of Membership.                                            *)

\* The steps q of a goroutine fit the list, the entry and the lookup it holds.
StepOK(q, l, e, k) ==
    /\ Ordered(q)
    /\ (l # None) <=> Begins(q, "store")
    /\ Begins(q, "put") => e # None
    /\ k = None => Without(q, LookStep)

Reading == {<<"read", "entries">>, <<"first", "entries">>}

\* The lookup k with the steps q has seen the nodes alive, every list under way
\* and, once it reads the ring, the nodes of the ring.
SeesOK(q, k, alive, lists, nodes) ==
    /\ q \in LookSteps
    /\ alive \in k.seen
    /\ \A r \in Proc : lists[r] # None => lists[r] \in k.seen
    /\ q \in Reading => nodes \in k.seen
    /\ q \in FirstSteps => k.want = 1
    /\ q = <<"entries">> => \E S \in k.seen : Nearest(k.owners, S, k.hash, k.want)

Tables == [Node -> Status \cup {Absent}]

Core ==
    /\ table \in Tables
    /\ leader \in SUBSET Node
    /\ ring \in Rings
    /\ todo \in [Proc -> Seq(StepName)]
    /\ list \in [Proc -> {None} \cup SUBSET Node]
    /\ look \in [Proc -> {None} \cup Lookup]
    /\ \A p \in Proc : look[p] # None => p \in Handler
    /\ \A p \in Proc : StepOK(todo[p], list[p], entry[p], look[p])
    /\ \A p \in Handler : look[p] # None =>
          SeesOK(todo[p], look[p], Alive, list, ring.nodes)

Rest ==
    /\ entry \in [Proc -> {None} \cup Entry]
    /\ peers \in SUBSET (Node \ {Local})
    /\ cluster \in {"new", "starting", "started", "stopping", "waiting", "stopped"}
    /\ loop \in [Loop -> {"off", "on", "ended"}]
    /\ ops \in 0 .. MaxOps
    /\ cluster = "new" => todo[Main] = <<>>

IInv == Core /\ Rest

LEMMA Names ==
  /\ Main \in Proc /\ Monitor \in Proc /\ Gossiper \in Proc
  /\ Main # Monitor /\ Main # Gossiper
  /\ Main \notin Handler /\ Monitor \notin Handler /\ Gossiper \notin Handler
  /\ Handler \subseteq Proc /\ Loop \subseteq Proc
BY MembershipAssumption DEF Proc, Loop, Main, Monitor, Gossiper

\* A table in one critical section: lookups see the nodes that are alive then.
LEMMA TableFacts ==
  ASSUME Core, NEW t \in Tables, SetTable(t)
  PROVE  /\ table' \in Tables /\ leader' \in SUBSET Node
         /\ look' \in [Proc -> {None} \cup Lookup]
         /\ Alive' \in SUBSET Node
         /\ \A p \in Proc :
               /\ look'[p] = None <=> look[p] = None
               /\ look[p] # None => /\ look'[p] = [look[p] EXCEPT !.seen = @ \cup {Alive'}]
                                    /\ Alive' \in look'[p].seen
<1>1. table' = t /\ leader' = Elected(t) /\ look' = Witnessed(t)
  BY DEF SetTable
<1>2. Alive' = AliveIn(t) /\ AliveIn(t) \in SUBSET Node /\ Elected(t) \in SUBSET Node
  BY <1>1 DEF Alive, AliveIn, Elected
<1>3. ASSUME NEW k \in Lookup, NEW A \in SUBSET Node
      PROVE  /\ [k EXCEPT !.seen = @ \cup {A}] \in Lookup
             /\ A \in [k EXCEPT !.seen = @ \cup {A}].seen
  BY DEF Lookup
<1>4. ASSUME NEW p \in Proc
      PROVE  /\ look'[p] \in {None} \cup Lookup
             /\ look'[p] = None <=> look[p] = None
             /\ look[p] # None => /\ look'[p] = [look[p] EXCEPT !.seen = @ \cup {Alive'}]
                                  /\ Alive' \in look'[p].seen
  <2>1. look'[p] = IF look[p] = None THEN None ELSE [look[p] EXCEPT !.seen = @ \cup {AliveIn(t)}]
    BY <1>1 DEF Witnessed
  <2>2. CASE look[p] = None
    BY <2>1, <2>2
  <2>3. CASE look[p] # None
    <3>1. look[p] \in Lookup
      BY <2>3 DEF Core
    <3> QED BY <2>1, <2>3, <3>1, <1>2, <1>3, MembershipAssumption
  <2> QED BY <2>2, <2>3
<1>5. look' = [p \in Proc |-> look'[p]]
  BY <1>1 DEF Witnessed
<1>6. look' \in [Proc -> {None} \cup Lookup]
  BY <1>4, <1>5
<1> QED BY <1>1, <1>2, <1>4, <1>6

\* What the steps of others do to a lookup.
Others(L, L2, A2, R, R2) ==
    /\ \A r \in Proc : L2[r] # None => L2[r] = L[r] \/ L2[r] = A2
    /\ R2 = R \/ \E r \in Proc : L[r] # None /\ R2 = L[r]

LEMMA SeesKeeps ==
  ASSUME NEW q, NEW k \in Lookup, NEW k2, NEW A, NEW A2, NEW L, NEW L2, NEW R, NEW R2,
         SeesOK(q, k, A, L, R),
         k2 = k \/ k2 = [k EXCEPT !.seen = @ \cup {A2}],
         A2 \in k2.seen,
         Others(L, L2, A2, R, R2)
  PROVE  SeesOK(q, k2, A2, L2, R2)
<1>1. /\ k.seen \subseteq k2.seen /\ k2.want = k.want /\ k2.owners = k.owners /\ k2.hash = k.hash
  BY DEF Lookup
<1>2. \A r \in Proc : L2[r] # None => L2[r] \in k2.seen
  BY <1>1 DEF SeesOK, Others
<1>3. q \in Reading => R2 \in k2.seen
  BY <1>1 DEF SeesOK, Others
<1>4. q = <<"entries">> => \E S \in k2.seen : Nearest(k2.owners, S, k2.hash, k2.want)
  BY <1>1 DEF SeesOK
<1> QED BY <1>1, <1>2, <1>3, <1>4 DEF SeesOK

LEMMA QuietKeeps ==
  ASSUME Core, UNCHANGED <<table, leader, ring, todo, list, entry, look>>
  PROVE  Core'
BY DEF Core, Alive, AliveIn

\* A goroutine that does no lookup and holds no list goes on with the steps q.
Plain(p, q) ==
    /\ \/ \E t \in Tables : SetTable(t)
       \/ UNCHANGED <<table, leader, look>>
    /\ UNCHANGED <<ring, list>>
    /\ todo' = [todo EXCEPT ![p] = q]
    /\ ~ Begins(todo[p], "store")
    /\ look[p] = None
    /\ Ordered(q) /\ ~ Begins(q, "store") /\ Without(q, LookStep)
    /\ Begins(q, "put") => entry'[p] # None
    /\ \A r \in Proc : r # p => entry'[r] = entry[r]

LEMMA PlainKeeps ==
  ASSUME Core, NEW p \in Proc, NEW q, Plain(p, q)
  PROVE  Core'
<1>1. /\ table' \in Tables /\ leader' \in SUBSET Node
      /\ look' \in [Proc -> {None} \cup Lookup]
      /\ \A r \in Proc :
            /\ look'[r] = None <=> look[r] = None
            /\ look[r] # None => /\ look'[r] = look[r] \/ look'[r] = [look[r] EXCEPT !.seen = @ \cup {Alive'}]
                                 /\ (r \in Handler => Alive' \in look'[r].seen)
  <2>1. CASE \E t \in Tables : SetTable(t)
    <3>1. PICK t \in Tables : SetTable(t)
      BY <2>1
    <3> QED BY <3>1, TableFacts
  <2>2. CASE UNCHANGED <<table, leader, look>>
    <3>1. \A r \in Handler : look[r] # None => Alive \in look[r].seen
      BY DEF Core, SeesOK
    <3>2. Alive' = Alive
      BY <2>2 DEF Alive, AliveIn
    <3> QED BY <2>2, <3>1, <3>2 DEF Core
  <2> QED BY <2>1, <2>2 DEF Plain
<1>2. ring' = ring /\ list' = list
  BY DEF Plain
<1>3. /\ todo' \in [Proc -> Seq(StepName)] /\ todo'[p] = q
      /\ \A r \in Proc : r # p => todo'[r] = todo[r]
  BY DEF Core, Plain, Ordered
<1>4. \A r \in Proc : look'[r] # None => r \in Handler
  BY <1>1 DEF Core
<1>5. ASSUME NEW r \in Proc PROVE StepOK(todo'[r], list'[r], entry'[r], look'[r])
  <2>1. StepOK(todo[r], list[r], entry[r], look[r])
    BY DEF Core
  <2>2. CASE r = p
    BY <2>1, <2>2, <1>1, <1>2, <1>3 DEF Plain, StepOK
  <2>3. CASE r # p
    BY <2>1, <2>3, <1>1, <1>2, <1>3 DEF Plain, StepOK
  <2> QED BY <2>2, <2>3
<1>6. ASSUME NEW r \in Handler, look'[r] # None
      PROVE  SeesOK(todo'[r], look'[r], Alive', list', ring'.nodes)
  <2>1. r \in Proc /\ look[r] # None /\ look[r] \in Lookup
    BY <1>1, <1>6, Names DEF Core
  <2>2. SeesOK(todo[r], look[r], Alive, list, ring.nodes)
    BY <2>1 DEF Core
  <2>3. todo'[r] = todo[r]
    BY <2>1, <1>3 DEF Plain
  <2>4. Others(list, list', Alive', ring.nodes, ring'.nodes)
    BY <1>2 DEF Others
  <2>5. /\ look'[r] = look[r] \/ look'[r] = [look[r] EXCEPT !.seen = @ \cup {Alive'}]
        /\ Alive' \in look'[r].seen
    BY <2>1, <1>1
  <2> QED BY <2>1, <2>2, <2>3, <2>4, <2>5, SeesKeeps
<1> QED BY <1>1, <1>2, <1>3, <1>4, <1>5, <1>6 DEF Core

\* The steps of a rebuild, whoever takes them.
LEMMA ListKeeps ==
  ASSUME Core, NEW p \in Proc, List(p)
  PROVE  Core'
<1>1. /\ Begins(todo[p], "list") /\ list' = [list EXCEPT ![p] = Alive]
      /\ todo' = [todo EXCEPT ![p] = Tail(todo[p])]
      /\ UNCHANGED <<table, leader, ring, entry, look>>
  BY DEF List, At, Begins, Continue, Go
<1>2. Alive' = Alive /\ Alive \in SUBSET Node /\ Alive # None
  BY <1>1, MembershipAssumption DEF Alive, AliveIn
<1>3. /\ Ordered(todo[p]) /\ todo[p] # <<>> /\ Head(todo[p]) = "list"
      /\ look[p] = None => Without(todo[p], LookStep)
  BY <1>1 DEF Core, StepOK, Begins
<1>4. /\ Ordered(Tail(todo[p])) /\ Begins(Tail(todo[p]), "store")
      /\ ~ Begins(Tail(todo[p]), "put")
      /\ look[p] = None => Without(Tail(todo[p]), LookStep)
  BY <1>3, OrderedTail DEF Begins
<1>5. /\ todo' \in [Proc -> Seq(StepName)] /\ todo'[p] = Tail(todo[p])
      /\ list' \in [Proc -> {None} \cup SUBSET Node] /\ list'[p] = Alive
      /\ \A r \in Proc : r # p => todo'[r] = todo[r] /\ list'[r] = list[r]
  BY <1>1, <1>2, <1>4 DEF Core, Ordered
<1>6. ASSUME NEW r \in Proc PROVE StepOK(todo'[r], list'[r], entry'[r], look'[r])
  <2>1. StepOK(todo[r], list[r], entry[r], look[r])
    BY DEF Core
  <2>2. CASE r = p
    BY <2>2, <1>1, <1>2, <1>4, <1>5 DEF StepOK
  <2>3. CASE r # p
    BY <2>1, <2>3, <1>1, <1>5
  <2> QED BY <2>2, <2>3
<1>7. ASSUME NEW r \in Handler, look'[r] # None
      PROVE  SeesOK(todo'[r], look'[r], Alive', list', ring'.nodes)
  <2>1. r \in Proc /\ look[r] # None /\ look[r] \in Lookup /\ look'[r] = look[r]
    BY <1>1, <1>7, Names DEF Core
  <2>2. SeesOK(todo[r], look[r], Alive, list, ring.nodes)
    BY <2>1 DEF Core
  <2>3. Others(list, list', Alive', ring.nodes, ring'.nodes)
    BY <1>1, <1>2, <1>5 DEF Others
  <2>4. Alive' \in look'[r].seen
    BY <1>2, <2>1, <2>2 DEF SeesOK
  <2>5. SeesOK(todo[r], look'[r], Alive', list', ring'.nodes)
    BY <2>1, <2>2, <2>3, <2>4, SeesKeeps
  <2>6. CASE r = p
    <3>1. todo[p] \in LookSteps /\ Begins(todo[p], "list")
      BY <1>1, <2>2, <2>6 DEF SeesOK
    <3>2. todo[p] \in ReadSteps \cup FirstSteps
      BY <3>1 DEF LookSteps, Begins
    <3>3. /\ Tail(todo[p]) \in LookSteps /\ Begins(Tail(todo[p]), "store")
          /\ Tail(todo[p]) \in FirstSteps => todo[p] \in FirstSteps
      BY <3>1, <3>2, Beginnings DEF LookSteps
    <3>4. Tail(todo[p]) \notin Reading /\ Tail(todo[p]) # <<"entries">>
      <4>1. /\ Head(<<"read", "entries">>) # "store" /\ Head(<<"first", "entries">>) # "store"
            /\ Head(<<"entries">>) # "store"
        OBVIOUS
      <4> QED BY <3>3, <4>1 DEF Reading, Begins
    <3> QED BY <2>5, <2>6, <1>5, <3>3, <3>4 DEF SeesOK
  <2>7. CASE r # p
    BY <2>1, <2>5, <2>7, <1>5
  <2> QED BY <2>6, <2>7
<1> QED BY <1>1, <1>5, <1>6, <1>7 DEF Core

LEMMA StoreKeeps ==
  ASSUME Core, NEW p \in Proc, StoreRing(p)
  PROVE  Core'
<1>1. /\ Begins(todo[p], "store") /\ list' = [list EXCEPT ![p] = None]
      /\ ring' \in RingsOf(list[p])
      /\ todo' = [todo EXCEPT ![p] = Tail(todo[p])]
      /\ UNCHANGED <<table, leader, entry, look>>
  BY DEF StoreRing, At, Begins, Continue, Go
<1>2. Alive' = Alive
  BY <1>1 DEF Alive, AliveIn
<1>3. /\ Ordered(todo[p]) /\ todo[p] # <<>> /\ Head(todo[p]) = "store" /\ list[p] # None
      /\ look[p] = None => Without(todo[p], LookStep)
  BY <1>1 DEF Core, StepOK, Begins
<1>4. ring' \in Rings /\ ring'.nodes = list[p]
  BY <1>1 DEF RingsOf
<1>5. /\ Ordered(Tail(todo[p])) /\ ~ Begins(Tail(todo[p]), "store")
      /\ ~ Begins(Tail(todo[p]), "put")
      /\ look[p] = None => Without(Tail(todo[p]), LookStep)
  BY <1>3, OrderedTail DEF Begins
<1>6. /\ todo' \in [Proc -> Seq(StepName)] /\ todo'[p] = Tail(todo[p])
      /\ list' \in [Proc -> {None} \cup SUBSET Node] /\ list'[p] = None
      /\ \A r \in Proc : r # p => todo'[r] = todo[r] /\ list'[r] = list[r]
  BY <1>1, <1>5 DEF Core, Ordered
<1>7. ASSUME NEW r \in Proc PROVE StepOK(todo'[r], list'[r], entry'[r], look'[r])
  <2>1. StepOK(todo[r], list[r], entry[r], look[r])
    BY DEF Core
  <2>2. CASE r = p
    BY <2>2, <1>1, <1>5, <1>6 DEF StepOK
  <2>3. CASE r # p
    BY <2>1, <2>3, <1>1, <1>6
  <2> QED BY <2>2, <2>3
<1>8. ASSUME NEW r \in Handler, look'[r] # None
      PROVE  SeesOK(todo'[r], look'[r], Alive', list', ring'.nodes)
  <2>1. r \in Proc /\ look[r] # None /\ look[r] \in Lookup /\ look'[r] = look[r]
    BY <1>1, <1>8, Names DEF Core
  <2>2. SeesOK(todo[r], look[r], Alive, list, ring.nodes)
    BY <2>1 DEF Core
  <2>3. Others(list, list', Alive', ring.nodes, ring'.nodes)
    BY <1>3, <1>4, <1>6 DEF Others
  <2>4. Alive' \in look'[r].seen
    BY <1>2, <2>1, <2>2 DEF SeesOK
  <2>5. SeesOK(todo[r], look'[r], Alive', list', ring'.nodes)
    BY <2>1, <2>2, <2>3, <2>4, SeesKeeps
  <2>6. CASE r = p
    <3>1. todo[p] \in LookSteps /\ Begins(todo[p], "store")
      BY <1>1, <2>2, <2>6 DEF SeesOK
    <3>2. todo[p] \in ReadSteps \cup FirstSteps
      BY <3>1 DEF LookSteps, Begins
    <3>3. \/ Tail(todo[p]) = <<"read", "entries">>
          \/ Tail(todo[p]) = <<"first", "entries">> /\ todo[p] \in FirstSteps
      BY <3>1, <3>2, Beginnings
    <3>4. /\ Tail(todo[p]) \in LookSteps /\ Tail(todo[p]) # <<"entries">>
          /\ Tail(todo[p]) \in FirstSteps => todo[p] \in FirstSteps
      <4>1. <<"read", "entries">> # <<"entries">> /\ <<"first", "entries">> # <<"entries">>
            /\ <<"read", "entries">> \notin FirstSteps
        BY DEF FirstSteps
      <4>2. <<"read", "entries">> \in LookSteps /\ <<"first", "entries">> \in LookSteps
        BY DEF LookSteps, ReadSteps, FirstSteps
      <4> QED BY <3>3, <4>1, <4>2
    <3>5. ring'.nodes \in look'[r].seen
      BY <1>3, <1>4, <2>1, <2>2 DEF SeesOK
    <3> QED BY <2>5, <2>6, <1>6, <3>4, <3>5 DEF SeesOK
  <2>7. CASE r # p
    BY <2>1, <2>5, <2>7, <1>6
  <2> QED BY <2>6, <2>7
<1> QED BY <1>1, <1>4, <1>6, <1>7, <1>8 DEF Core

----------------------------------------------------------------------------
(* Lookups.                                                                *)

LEMMA NearestSeq ==
  ASSUME NEW o, NEW S \in SUBSET Node, NEW h, NEW rf \in Nat \ {0}, Nearest(o, S, h, rf)
  PROVE  o \in Seq(Node)
<1>1. IsFiniteSet(S)
  BY HashRingAssumption, FS_Subset
<1>2. Cardinality(S) \in Nat
  BY <1>1, FS_CardinalityType
<1>3. PICK n \in Nat : n = Least(rf, Cardinality(S))
  BY <1>2 DEF Least
<1>4. o \in [1..n -> S]
  BY <1>3 DEF Nearest
<1>5. o \in [1..n -> Node]
  BY <1>4
<1> QED BY <1>5

\* p is the only one whose lookup or program changes.
LookOnly(p, q, k) ==
    /\ UNCHANGED <<table, leader, ring, list, entry>>
    /\ todo' = [todo EXCEPT ![p] = q]
    /\ look' = [look EXCEPT ![p] = k]

LEMMA LookOnlyKeeps ==
  ASSUME Core, NEW p \in Handler, NEW q, NEW k \in {None} \cup Lookup, LookOnly(p, q, k),
         list[p] = None, Ordered(q), ~ Begins(q, "store"), ~ Begins(q, "put"),
         k = None => Without(q, LookStep),
         k # None => SeesOK(q, k, Alive, list, ring.nodes)
  PROVE  Core'
<1>1. /\ UNCHANGED <<table, leader, ring, list, entry>>
      /\ todo' = [todo EXCEPT ![p] = q]
      /\ look' = [look EXCEPT ![p] = k]
  BY DEF LookOnly
<1>2. Alive' = Alive
  BY <1>1 DEF Alive, AliveIn
<1>3. p \in Proc
  BY Names
<1>4. /\ todo' \in [Proc -> Seq(StepName)] /\ todo'[p] = q
      /\ look' \in [Proc -> {None} \cup Lookup] /\ look'[p] = k
      /\ \A r \in Proc : r # p => todo'[r] = todo[r] /\ look'[r] = look[r]
  BY <1>1, <1>3 DEF Core, Ordered
<1>5. \A r \in Proc : look'[r] # None => r \in Handler
  BY <1>4 DEF Core
<1>6. ASSUME NEW r \in Proc PROVE StepOK(todo'[r], list'[r], entry'[r], look'[r])
  <2>1. StepOK(todo[r], list[r], entry[r], look[r])
    BY DEF Core
  <2>2. CASE r = p
    BY <2>2, <1>1, <1>4 DEF StepOK
  <2>3. CASE r # p
    BY <2>1, <2>3, <1>1, <1>4
  <2> QED BY <2>2, <2>3
<1>7. ASSUME NEW r \in Handler, look'[r] # None
      PROVE  SeesOK(todo'[r], look'[r], Alive', list', ring'.nodes)
  <2>1. CASE r = p
    BY <2>1, <1>1, <1>2, <1>4, <1>7
  <2>2. CASE r # p
    BY <2>2, <1>1, <1>2, <1>4, <1>7, Names DEF Core
  <2> QED BY <2>1, <2>2
<1> QED BY <1>1, <1>4, <1>5, <1>6, <1>7 DEF Core

\* Owners and Owner begin with a rebuild of the ring.
LEMMA BeginsLook ==
  ASSUME Core, NEW p \in Handler, NEW h \in KeyHash, Owners(p, h) \/ Owner(p, h)
  PROVE  Core'
<1>1. Idle(p) /\ UNCHANGED <<table, leader, ring, list, entry>>
  BY DEF Owners, Owner, Begin
<1>2. list[p] = None
  BY <1>1, Beginnings, Names DEF Core, StepOK, Idle
<1>3. Visible \in SUBSET SUBSET Node /\ Alive \in Visible
      /\ \A r \in Proc : list[r] # None => list[r] \in Visible
  BY DEF Visible, Alive, AliveIn, Core
<1>4. ASSUME NEW rf \in {1, ReplicationFactor}
      PROVE  /\ NewLookup(h, rf) \in Lookup
             /\ NewLookup(h, rf).seen = Visible /\ NewLookup(h, rf).want = rf
  BY <1>3 DEF NewLookup, Lookup
<1>5. CASE Owners(p, h)
  <2> DEFINE q == <<"list", "store", "read", "entries">>
             k == NewLookup(h, ReplicationFactor)
  <2>1. LookOnly(p, q, k)
    BY <1>1, <1>5, Programs DEF Owners, Go, LookOnly
  <2>2. /\ Ordered(q) /\ ~ Begins(q, "store") /\ ~ Begins(q, "put") /\ q \in LookSteps
        /\ q \notin FirstSteps /\ q # <<"entries">> /\ q \notin Reading
    BY OrderedPrograms DEF Begins, LookSteps, ReadSteps, FirstSteps, Reading
  <2>3. SeesOK(q, k, Alive, list, ring.nodes)
    <3> HIDE DEF q, k
    <3> QED BY <2>2, <1>3, <1>4 DEF SeesOK, k
  <2>4. k \in Lookup /\ k # None
    BY <1>4, MembershipAssumption
  <2> HIDE DEF q, k
  <2> QED BY <1>2, <2>1, <2>2, <2>3, <2>4, LookOnlyKeeps
<1>6. CASE Owner(p, h)
  <2> DEFINE q == <<"list", "store", "first", "entries">>
             k == NewLookup(h, 1)
  <2>1. LookOnly(p, q, k)
    BY <1>1, <1>6, Programs DEF Owner, Go, LookOnly
  <2>2. /\ Ordered(q) /\ ~ Begins(q, "store") /\ ~ Begins(q, "put") /\ q \in LookSteps
        /\ q # <<"entries">> /\ q \notin Reading
    BY OrderedPrograms DEF Begins, LookSteps, ReadSteps, FirstSteps, Reading
  <2>3. SeesOK(q, k, Alive, list, ring.nodes)
    <3> HIDE DEF q, k
    <3> QED BY <2>2, <1>3, <1>4 DEF SeesOK, k
  <2>4. k \in Lookup /\ k # None
    BY <1>4, MembershipAssumption
  <2> HIDE DEF q, k
  <2> QED BY <1>2, <2>1, <2>2, <2>3, <2>4, LookOnlyKeeps
<1> QED BY <1>5, <1>6

\* A lookup that may be read from has a goroutine that looks.
LEMMA Looking ==
  ASSUME Core, NEW p \in Proc, NEW s \in LookStep, At(p, s)
  PROVE  /\ p \in Handler /\ look[p] \in Lookup /\ look[p] # None
         /\ SeesOK(todo[p], look[p], Alive, list, ring.nodes)
         /\ list[p] = None /\ Ordered(todo[p]) /\ todo[p] # <<>> /\ Head(todo[p]) = s
<1>1. StepOK(todo[p], list[p], entry[p], look[p]) /\ todo[p] # <<>> /\ Head(todo[p]) = s
  BY DEF Core, At
<1>2. Ordered(todo[p]) /\ todo[p][1] = s /\ 1 \in 1..Len(todo[p])
  <2>1. Ordered(todo[p]) /\ Head(todo[p]) = todo[p][1]
    BY <1>1, OrderedTail DEF StepOK
  <2>2. Len(todo[p]) \in Nat \ {0}
    BY <1>1, EmptySeq, LenProperties DEF Core
  <2> QED BY <1>1, <2>1, <2>2
<1>3. look[p] # None
  BY <1>1, <1>2 DEF StepOK, Without
<1>4. list[p] = None
  BY <1>1 DEF StepOK, Begins, LookStep
<1> QED BY <1>1, <1>2, <1>3, <1>4 DEF Core

LEMMA EmptyPrograms ==
  /\ Ordered(<<>>) /\ ~ Begins(<<>>, "store") /\ ~ Begins(<<>>, "put") /\ Without(<<>>, LookStep)
  /\ Ordered(<<"entries">>) /\ ~ Begins(<<"entries">>, "store") /\ ~ Begins(<<"entries">>, "put")
  /\ <<"entries">> \in LookSteps /\ <<"entries">> \notin FirstSteps /\ <<"entries">> \notin Reading
BY OrderedPrograms DEF Begins, Without, LookSteps, FirstSteps, Reading

LEMMA ReadRingKeeps ==
  ASSUME Core, NEW p \in Proc, ReadRing(p)
  PROVE  Core'
<1>1. UNCHANGED <<table, leader, ring, list, entry>> /\ (At(p, "read") \/ At(p, "first"))
  BY DEF ReadRing
<1>2. /\ p \in Handler /\ look[p] \in Lookup /\ look[p] # None
      /\ SeesOK(todo[p], look[p], Alive, list, ring.nodes)
      /\ list[p] = None /\ todo[p] # <<>>
  BY <1>1, Looking DEF LookStep
<1>3. CASE ring.slice = <<>>
  <2>1. LookOnly(p, <<>>, None)
    BY <1>1, <1>3 DEF ReadRing, LookOnly, Go
  <2> QED BY <1>2, <2>1, EmptyPrograms, LookOnlyKeeps
<1>4. CASE ring.slice # <<>>
  <2> DEFINE o == IF At(p, "read") THEN ReplicaOwners(ring, look[p].hash, look[p].want)
                  ELSE <<GetNode(ring, look[p].hash)>>
             k == [look[p] EXCEPT !.owners = o]
  <2>1. look' = [look EXCEPT ![p] = k] /\ todo' = [todo EXCEPT ![p] = Tail(todo[p])]
    BY <1>4 DEF ReadRing, Continue, Go
  <2>2. /\ look[p].hash \in Hash /\ look[p].want \in Nat \ {0} /\ look[p].seen \in SUBSET SUBSET Node
    BY <1>2, MembershipAssumption DEF Lookup
  <2>3. ring \in Rings /\ ring.nodes # {}
    BY <1>4, RingShape DEF Core
  <2>4. /\ todo[p] \in Reading /\ Tail(todo[p]) = <<"entries">>
        /\ ~ At(p, "read") => todo[p] \in FirstSteps
    <3>1. /\ Begins(todo[p], "read") => todo[p] = <<"read", "entries">> /\ Tail(todo[p]) = <<"entries">>
          /\ Begins(todo[p], "first") => todo[p] = <<"first", "entries">> /\ Tail(todo[p]) = <<"entries">>
      BY <1>2, Beginnings DEF SeesOK
    <3>2. Begins(todo[p], "read") \/ (~ At(p, "read") /\ Begins(todo[p], "first"))
      BY <1>1 DEF At, Begins
    <3>3. <<"first", "entries">> \in FirstSteps
      BY DEF FirstSteps
    <3>4. ~ At(p, "read") => Begins(todo[p], "first")
      BY <3>2 DEF At, Begins
    <3> QED BY <3>1, <3>2, <3>3, <3>4 DEF Reading
  <2>5. ring.nodes \in look[p].seen
    BY <1>2, <2>4 DEF SeesOK
  <2>6. Nearest(o, ring.nodes, look[p].hash, look[p].want)
    <3>1. CASE At(p, "read")
      BY <3>1, <2>2, <2>3, OwnersNearest
    <3>2. CASE ~ At(p, "read")
      <4>1. look[p].want = 1
        BY <1>2, <2>4, <3>2 DEF SeesOK
      <4> QED BY <3>2, <4>1, <2>2, <2>3, OwnerNearest
    <3> QED BY <3>1, <3>2
  <2>7. o \in Seq(Node)
    <3>1. ring.nodes \in SUBSET Node
      BY <2>2, <2>5
    <3> HIDE DEF o
    <3> QED BY <3>1, <2>2, <2>6, NearestSeq
  <2> HIDE DEF o
  <2>8. /\ k \in Lookup /\ k.seen = look[p].seen /\ k.want = look[p].want
        /\ k.hash = look[p].hash /\ k.owners = o
    BY <1>2, <2>7 DEF Lookup
  <2> HIDE DEF k
  <2>9. SeesOK(<<"entries">>, k, Alive, list, ring.nodes)
    BY <1>2, <2>5, <2>6, <2>8, EmptyPrograms DEF SeesOK
  <2>10. LookOnly(p, <<"entries">>, k)
    BY <1>1, <2>1, <2>4 DEF LookOnly
  <2> QED BY <1>2, <2>8, <2>9, <2>10, EmptyPrograms, MembershipAssumption, LookOnlyKeeps
<1> QED BY <1>3, <1>4

LEMMA ReadEntryKeeps ==
  ASSUME Core, NEW p \in Proc, ReadEntry(p)
  PROVE  Core'
<1>1. UNCHANGED <<table, leader, ring, todo, list, entry>> /\ At(p, "entries")
  BY DEF ReadEntry
<1>2. /\ p \in Handler /\ look[p] \in Lookup /\ look[p] # None
      /\ SeesOK(todo[p], look[p], Alive, list, ring.nodes)
      /\ list[p] = None
  BY <1>1, Looking DEF LookStep
<1>3. todo[p] = <<"entries">>
  <2>1. todo[p] \in LookSteps /\ Begins(todo[p], "entries")
    BY <1>1, <1>2 DEF SeesOK, At, Begins
  <2> QED BY <2>1, Beginnings
<1> DEFINE n == look[p].owners[look[p].next]
           k == [look[p] EXCEPT !.next = @ + 1,
                                !.answer = IF table[n] = Absent THEN @ ELSE Append(@, n)]
<1>4. look' = [look EXCEPT ![p] = k] /\ look[p].next <= Len(look[p].owners)
  BY DEF ReadEntry
<1>5. /\ look[p].owners \in Seq(Node) /\ look[p].next \in Nat \ {0} /\ look[p].answer \in Seq(Node)
  BY <1>2 DEF Lookup
<1>6. n \in Node
  BY <1>4, <1>5
<1> HIDE DEF n
<1>7. /\ k \in Lookup /\ k.seen = look[p].seen /\ k.want = look[p].want
      /\ k.hash = look[p].hash /\ k.owners = look[p].owners
  <2>1. PICK a : a = IF table[n] = Absent THEN look[p].answer ELSE Append(look[p].answer, n)
    OBVIOUS
  <2>2. a \in Seq(Node)
    BY <1>5, <1>6, <2>1
  <2>3. PICK b \in Nat \ {0} : b = look[p].next + 1
    BY <1>5
  <2>4. k = [look[p] EXCEPT !.next = b, !.answer = a]
    BY <1>2, <2>1, <2>3 DEF Lookup
  <2>5. ASSUME NEW x \in Lookup
        PROVE  /\ [x EXCEPT !.next = b, !.answer = a] \in Lookup
               /\ [x EXCEPT !.next = b, !.answer = a].seen = x.seen
               /\ [x EXCEPT !.next = b, !.answer = a].want = x.want
               /\ [x EXCEPT !.next = b, !.answer = a].hash = x.hash
               /\ [x EXCEPT !.next = b, !.answer = a].owners = x.owners
    BY <2>2 DEF Lookup
  <2> HIDE DEF k
  <2> QED BY <1>2, <2>4, <2>5
<1> HIDE DEF k
<1>8. SeesOK(<<"entries">>, k, Alive, list, ring.nodes)
  BY <1>2, <1>3, <1>7 DEF SeesOK
<1>9. todo' = [todo EXCEPT ![p] = <<"entries">>]
  BY <1>1, <1>3 DEF Core
<1>10. LookOnly(p, <<"entries">>, k)
  BY <1>1, <1>4, <1>9 DEF LookOnly
<1> QED BY <1>2, <1>7, <1>8, <1>10, EmptyPrograms, MembershipAssumption, LookOnlyKeeps

LEMMA AnswerKeeps ==
  ASSUME Core, NEW p \in Proc, Answer(p)
  PROVE  Core'
<1>1. At(p, "entries") /\ LookOnly(p, <<>>, None)
  BY DEF Answer, LookOnly, Go
<1>2. p \in Handler /\ list[p] = None
  BY <1>1, Looking DEF LookStep
<1> QED BY <1>1, <1>2, EmptyPrograms, LookOnlyKeeps

----------------------------------------------------------------------------
(* Every step keeps the invariant.                                         *)

LEMMA Plainness ==
  /\ \A q \in {Sync, Sync \o <<"peers">>, Sync \o <<"send">>, <<"elect">> \o Sync,
               Sync \o Sync \o Sync, Registered, <<"peers">>, <<"send">>} :
        Ordered(q) /\ ~ Begins(q, "store") /\ ~ Begins(q, "put") /\ Without(q, LookStep)
  /\ \A q \in {<<"put">> \o Sync, <<"put">> \o Sync \o Sync} :
        Ordered(q) /\ ~ Begins(q, "store") /\ Without(q, LookStep)
<1> DEFINE A == {<<"list", "store">>, <<"list", "store", "peers">>, <<"list", "store", "send">>,
                 <<"elect", "list", "store">>, <<"list", "store", "list", "store", "list", "store">>,
                 <<"list", "store", "list", "store", "elect", "list", "store">>, <<"peers">>, <<"send">>}
           B == {<<"put", "list", "store">>, <<"put", "list", "store", "list", "store">>}
<1>1. \A q \in A : Ordered(q)
  BY OrderedPrograms
<1>2. \A q \in A : ~ Begins(q, "store") /\ ~ Begins(q, "put")
  BY DEF Begins
<1>3. \A q \in A : Without(q, LookStep)
  BY DEF Without, LookStep
<1>4. \A q \in B : Ordered(q)
  BY OrderedPrograms
<1>5. \A q \in B : ~ Begins(q, "store") /\ Without(q, LookStep)
  BY DEF Without, LookStep, Begins
<1>6. /\ {Sync, Sync \o <<"peers">>, Sync \o <<"send">>, <<"elect">> \o Sync,
          Sync \o Sync \o Sync, Registered, <<"peers">>, <<"send">>} = A
      /\ {<<"put">> \o Sync, <<"put">> \o Sync \o Sync} = B
  BY Programs
<1> HIDE DEF A, B
<1> QED BY <1>1, <1>2, <1>3, <1>4, <1>5, <1>6

\* A goroutine that is idle, or about to add, elect or send, does no lookup.
LEMMA NoLookup ==
  ASSUME Core, NEW p \in Proc,
         \/ Idle(p) \/ At(p, "elect") \/ At(p, "put")
         \/ p \notin Handler /\ ~ At(p, "store")
  PROVE  /\ look[p] = None /\ ~ Begins(todo[p], "store")
         /\ todo[p] # <<>> => /\ Ordered(Tail(todo[p])) /\ Without(Tail(todo[p]), LookStep)
                              /\ ~ Begins(Tail(todo[p]), "put")
                              /\ Head(todo[p]) # "list" => ~ Begins(Tail(todo[p]), "store")
<1>1. ~ Begins(todo[p], "store")
  BY DEF Idle, At, Begins
<1>2. look[p] = None
  <2>1. CASE p \notin Handler
    BY <2>1 DEF Core
  <2>2. CASE p \in Handler /\ (Idle(p) \/ At(p, "elect") \/ At(p, "put"))
    <3>1. todo[p] \notin LookSteps
      BY <2>2, Beginnings DEF Idle, At, Begins
    <3> QED BY <2>2, <3>1 DEF Core, SeesOK
  <2> QED BY <2>1, <2>2
<1>3. Ordered(todo[p]) /\ Without(todo[p], LookStep)
  BY <1>2 DEF Core, StepOK
<1> QED BY <1>1, <1>2, <1>3, OrderedTail DEF Begins

LEMMA StatusTable ==
  ASSUME Core, NEW n \in Node, NEW st \in Status \cup {Absent}, SetStatus(n, st)
  PROVE  \E t \in Tables : SetTable(t)
BY DEF SetStatus, Core, Tables

\* A goroutine begins a program, with or without a change of the table.
LEMMA BeginsPlain ==
  ASSUME Core, NEW p \in Proc, NEW q, Go(p, q),
         Idle(p) \/ (p \notin Handler /\ ~ At(p, "store")),
         q \in {Sync, Sync \o <<"peers">>, Sync \o <<"send">>, <<"elect">> \o Sync,
                Sync \o Sync \o Sync, Registered, <<"peers">>, <<"send">>},
         UNCHANGED <<ring, list, entry>>,
         (\E t \in Tables : SetTable(t)) \/ UNCHANGED <<table, leader, look>>
  PROVE  Core'
<1>1. Plain(p, q)
  BY NoLookup, Plainness DEF Plain, Go
<1> QED BY <1>1, PlainKeeps

LEMMA BeginsPut ==
  ASSUME Core, NEW p \in Proc, NEW q, Go(p, q), Idle(p), NEW e \in Entry,
         q \in {<<"put">> \o Sync, <<"put">> \o Sync \o Sync},
         entry \in [Proc -> {None} \cup Entry],
         entry' = [entry EXCEPT ![p] = e],
         UNCHANGED <<table, leader, ring, list, look>>
  PROVE  Core' /\ entry' \in [Proc -> {None} \cup Entry]
<1>1. entry'[p] # None /\ \A r \in Proc : r # p => entry'[r] = entry[r]
  BY MembershipAssumption
<1>2. Plain(p, q)
  BY <1>1, NoLookup, Plainness DEF Plain, Go
<1> QED BY <1>2, PlainKeeps

\* What the other variables need of a step.
LEMMA RestKeeps ==
  ASSUME IInv, NEW p \in Proc, NEW q, UNCHANGED <<peers, cluster, loop>>,
         todo' = todo \/ todo' = [todo EXCEPT ![p] = q],
         p = Main => todo[p] # <<>>,
         entry' \in [Proc -> {None} \cup Entry], ops' = ops \/ (ops < MaxOps /\ ops' = ops + 1)
  PROVE  Rest'
<1>1. ops' \in 0 .. MaxOps
  BY MembershipAssumption DEF IInv, Rest
<1>2. cluster' = "new" => todo'[Main] = <<>>
  <2>1. cluster = "new" => todo[Main] = <<>>
    BY DEF IInv, Rest
  <2>2. todo \in [Proc -> Seq(StepName)] /\ Main \in Proc
    BY Names DEF IInv, Core
  <2>3. p # Main => todo'[Main] = todo[Main]
    BY <2>2
  <2>4. todo' = todo => todo'[Main] = todo[Main]
    OBVIOUS
  <2> QED BY <2>1, <2>3, <2>4
<1> QED BY <1>1, <1>2 DEF IInv, Rest

LEMMA RequestKeeps ==
  ASSUME IInv, NEW p \in Handler, Request(p)
  PROVE  IInv'
<1>1. p \in Proc /\ p # Main
  BY Names
<1>2. Core /\ entry \in [Proc -> {None} \cup Entry]
  BY DEF IInv, Rest
<1>3. ASSUME NEW n \in Node, HandleJoin(p, n) PROVE IInv'
  <2>1. Core'
    BY <1>1, <1>2, <1>3, StatusTable, BeginsPlain DEF HandleJoin, Begin, Status
  <2>2. Rest'
    BY <1>1, <1>2, <1>3, RestKeeps DEF HandleJoin, Begin, Go
  <2> QED BY <2>1, <2>2 DEF IInv
<1>4. ASSUME NEW n \in Node, HandleLeave(p, n) PROVE IInv'
  <2>1. Core'
    BY <1>1, <1>2, <1>4, StatusTable, BeginsPlain DEF HandleLeave, Begin
  <2>2. Rest'
    BY <1>1, <1>2, <1>4, RestKeeps DEF HandleLeave, Begin, Go
  <2> QED BY <2>1, <2>2 DEF IInv
<1>5. ASSUME NEW n \in Node, HandleHeartbeat(p, n) PROVE IInv'
  <2>1. Core'
    BY <1>1, <1>2, <1>5, StatusTable, BeginsPlain DEF HandleHeartbeat, Begin, Status
  <2>2. Rest'
    BY <1>1, <1>2, <1>5, RestKeeps DEF HandleHeartbeat, Begin, Go
  <2> QED BY <2>1, <2>2 DEF IInv
<1>6. ASSUME NEW n \in Node, HandleFirstHeartbeat(p, n) PROVE IInv'
  <2>1. [node |-> n, status |-> "alive"] \in Entry
    BY DEF Entry, Status
  <2>2. Core' /\ entry' \in [Proc -> {None} \cup Entry]
    BY <1>1, <1>2, <1>6, <2>1, BeginsPut DEF HandleFirstHeartbeat, Begin
  <2>3. Rest'
    BY <1>1, <1>6, <2>2, RestKeeps DEF HandleFirstHeartbeat, Begin, Go
  <2> QED BY <2>2, <2>3 DEF IInv
<1>7. ASSUME NEW n \in Node, NEW st \in Status, Merge(p, n, st) PROVE IInv'
  <2>1. [node |-> n, status |-> st] \in Entry
    BY DEF Entry
  <2>2. Core' /\ entry' \in [Proc -> {None} \cup Entry]
    BY <1>1, <1>2, <1>7, <2>1, BeginsPut DEF Merge, Begin
  <2>3. Rest'
    BY <1>1, <1>7, <2>2, RestKeeps DEF Merge, Begin, Go
  <2> QED BY <2>2, <2>3 DEF IInv
<1>8. ASSUME LocalNode(p) PROVE IInv'
  <2>1. Core'
    BY <1>1, <1>2, <1>8, BeginsPlain DEF LocalNode, Begin
  <2>2. Rest'
    BY <1>1, <1>2, <1>8, RestKeeps DEF LocalNode, Begin, Go
  <2> QED BY <2>1, <2>2 DEF IInv
<1>9. ASSUME NEW h \in KeyHash, Owners(p, h) \/ Owner(p, h) PROVE IInv'
  <2>1. Core'
    BY <1>2, <1>9, BeginsLook
  <2>2. Rest'
    BY <1>1, <1>2, <1>9, RestKeeps DEF Owners, Owner, Begin, Go
  <2> QED BY <2>1, <2>2 DEF IInv
<1> QED BY <1>3, <1>4, <1>5, <1>6, <1>7, <1>8, <1>9 DEF Request

LEMMA GossipKeeps ==
  ASSUME IInv, Gossip
  PROVE  IInv'
<1>1. Gossiper \in Proc /\ Gossiper # Main
  BY Names
<1>2. Core /\ entry \in [Proc -> {None} \cup Entry]
  BY DEF IInv, Rest
<1>3. ASSUME NEW n \in Node, NEW st \in Status, Merge(Gossiper, n, st) PROVE IInv'
  <2>1. [node |-> n, status |-> st] \in Entry
    BY DEF Entry
  <2>2. Core' /\ entry' \in [Proc -> {None} \cup Entry]
    BY <1>1, <1>2, <1>3, <2>1, BeginsPut DEF Merge, Begin
  <2>3. Rest'
    BY <1>1, <1>3, <2>2, RestKeeps DEF Merge, Begin, Go
  <2> QED BY <2>2, <2>3 DEF IInv
<1>4. ASSUME NEW n \in Node, NEW st \in {"suspect", "dead"}, Mark(n, st) PROVE IInv'
  <2>1. Core'
    BY <1>1, <1>2, <1>4, StatusTable, BeginsPlain DEF Mark, Begin, Status
  <2>2. Rest'
    BY <1>1, <1>2, <1>4, RestKeeps DEF Mark, Begin, Go
  <2> QED BY <2>1, <2>2 DEF IInv
<1> QED BY <1>3, <1>4 DEF Gossip

LEMMA StepKeeps ==
  ASSUME IInv, NEW p \in Proc, Step(p)
  PROVE  IInv'
<1>1. Core /\ entry \in [Proc -> {None} \cup Entry]
  BY DEF IInv, Rest
<1>2. CASE List(p)
  <2>1. Rest'
    BY <1>1, <1>2, RestKeeps DEF List, At, Continue, Go
  <2> QED BY <1>1, <1>2, <2>1, ListKeeps DEF IInv
<1>3. CASE StoreRing(p)
  <2>1. Rest'
    BY <1>1, <1>3, RestKeeps DEF StoreRing, At, Continue, Go
  <2> QED BY <1>1, <1>3, <2>1, StoreKeeps DEF IInv
<1>4. CASE Elect(p)
  <2>1. Rest'
    BY <1>1, <1>4, RestKeeps DEF Elect, At, Continue, Go
  <2>2. \E t \in Tables : SetTable(t)
    BY <1>1, <1>4 DEF Elect, Core
  <2>3. Plain(p, Tail(todo[p]))
    BY <1>1, <1>4, <2>2, NoLookup DEF Elect, Plain, Continue, Go, At
  <2> QED BY <1>1, <2>1, <2>3, PlainKeeps DEF IInv
<1>5. CASE Put(p)
  <2>1. entry' = [entry EXCEPT ![p] = None] /\ entry[p] \in Entry
    BY <1>1, <1>5 DEF Put, At, Core, StepOK, Begins
  <2>2. Rest'
    BY <1>1, <1>5, <2>1, RestKeeps DEF Put, At, Continue, Go
  <2>3. \E t \in Tables : SetTable(t)
    <3>1. entry[p].node \in Node /\ entry[p].status \in Status
      BY <2>1 DEF Entry
    <3> QED BY <1>1, <1>5, <3>1, StatusTable DEF Put
  <2>4. Plain(p, Tail(todo[p]))
    BY <1>1, <1>5, <2>1, <2>3, NoLookup DEF Put, Plain, Continue, Go, At
  <2> QED BY <1>1, <2>2, <2>4, PlainKeeps DEF IInv
<1>6. CASE ReadRing(p)
  <2>1. Rest'
    BY <1>1, <1>6, RestKeeps DEF ReadRing, At, Continue, Go
  <2> QED BY <1>1, <1>6, <2>1, ReadRingKeeps DEF IInv
<1>7. CASE ReadEntry(p)
  <2>1. Rest'
    BY <1>1, <1>7, RestKeeps DEF ReadEntry, At
  <2> QED BY <1>1, <1>7, <2>1, ReadEntryKeeps DEF IInv
<1>8. CASE Answer(p)
  <2>1. Rest'
    BY <1>1, <1>8, RestKeeps DEF Answer, At, Go
  <2> QED BY <1>1, <1>8, <2>1, AnswerKeeps DEF IInv
<1> QED BY <1>2, <1>3, <1>4, <1>5, <1>6, <1>7, <1>8 DEF Step

LEMMA MonitorKeeps ==
  ASSUME IInv, Tick \/ Heartbeats
  PROVE  IInv'
<1>1. Monitor \in Proc /\ Monitor \notin Handler /\ Monitor # Main
  BY Names
<1>2. Core /\ entry \in [Proc -> {None} \cup Entry]
  BY DEF IInv, Rest
<1>3. CASE Tick
  <2>1. Core'
    <3>1. CASE table[Local] = Absent
      BY <1>1, <1>2, <1>3, <3>1, BeginsPlain DEF Tick
    <3>2. CASE table[Local] # Absent
      <4>1. \E t \in Tables : SetTable(t)
        BY <1>2, <1>3, <3>2, StatusTable, MembershipAssumption DEF Tick, Status
      <4> QED BY <1>1, <1>2, <1>3, <3>2, <4>1, BeginsPlain DEF Tick
    <3> QED BY <3>1, <3>2
  <2>2. Rest'
    BY <1>1, <1>2, <1>3, RestKeeps DEF Tick, Go
  <2> QED BY <2>1, <2>2 DEF IInv
<1>4. CASE ListPeers
  <2>1. Core'
    BY <1>1, <1>2, <1>4, BeginsPlain DEF ListPeers, At
  <2>2. Rest'
    BY <1>1, <1>4 DEF ListPeers, Go, IInv, Core, Rest, Alive, AliveIn
  <2> QED BY <2>1, <2>2 DEF IInv
<1>5. CASE SendsDone
  <2>1. Core'
    BY <1>1, <1>2, <1>5, BeginsPlain DEF SendsDone, At
  <2>2. Rest'
    BY <1>1, <1>2, <1>5, RestKeeps DEF SendsDone, Go
  <2> QED BY <2>1, <2>2 DEF IInv
<1>6. ASSUME NEW n \in Node, SendFails(n) PROVE IInv'
  <2>1. Core'
    BY <1>2, <1>6, QuietKeeps DEF SendFails
  <2>2. Rest'
    BY <1>6 DEF SendFails, IInv, Rest
  <2> QED BY <2>1, <2>2 DEF IInv
<1>7. ASSUME NEW n \in Node, SendAnswered(n) PROVE IInv'
  <2>1. \E t \in Tables : SetTable(t)
    BY <1>2, <1>7, StatusTable DEF SendAnswered, Status
  <2>2. Core'
    BY <1>1, <1>2, <1>7, <2>1, BeginsPlain DEF SendAnswered, At
  <2>3. Rest'
    BY <1>1, <1>7 DEF SendAnswered, Go, IInv, Core, Rest
  <2> QED BY <2>2, <2>3 DEF IInv
<1> QED BY <1>3, <1>4, <1>5, <1>6, <1>7 DEF Heartbeats

LEMMA ClusterKeeps ==
  ASSUME IInv, Start \/ Started \/ Stop \/ StopGossip \/ Stopped \/ \E l \in Loop : LoopEnds(l)
  PROVE  IInv'
<1>1. Main \in Proc /\ Main \notin Handler
  BY Names
<1>2. CASE Start
  <2>1. Core /\ Idle(Main)
    BY <1>2 DEF Start, IInv, Rest, Idle
  <2>2. \E t \in Tables : SetTable(t)
    BY <1>2, <2>1, StatusTable, MembershipAssumption DEF Start, Status
  <2>3. Core'
    BY <1>1, <1>2, <2>1, <2>2, BeginsPlain DEF Start
  <2>4. Rest'
    BY <1>2 DEF Start, IInv, Rest
  <2> QED BY <2>3, <2>4 DEF IInv
<1>3. CASE Started \/ Stop \/ StopGossip \/ Stopped \/ \E l \in Loop : LoopEnds(l)
  <2>1. UNCHANGED <<table, leader, ring, todo, list, entry, peers, look, ops>>
    BY <1>3 DEF Started, Stop, StopGossip, Stopped, LoopEnds
  <2>2. Core'
    BY <2>1, QuietKeeps DEF IInv
  <2>3. Rest'
    BY <1>3, <2>1 DEF Started, Stop, StopGossip, Stopped, LoopEnds, IInv, Rest
  <2> QED BY <2>2, <2>3 DEF IInv
<1> QED BY <1>2, <1>3

LEMMA InitHolds == Init => IInv
<1> SUFFICES ASSUME Init PROVE IInv
  OBVIOUS
<1>1. ring \in Rings
  <2>1. Entries({}) = {}
    BY DEF Entries
  <2>2. Cardinality(Entries({})) = 0
    BY <2>1, FS_EmptySet
  <2>3. <<>> \in [1 .. 0 -> {}]
    OBVIOUS
  <2>4. <<>> \in Sorted({})
    BY <2>1, <2>2, <2>3 DEF Sorted
  <2>5. [nodes |-> {}, slice |-> <<>>] \in {[nodes |-> {}, slice |-> s] : s \in Sorted({})}
    BY <2>4
  <2>6. [nodes |-> {}, slice |-> <<>>] \in Rings
    BY <2>5 DEF Rings
  <2> QED BY <2>6 DEF Init
<1>2. \A p \in Proc : StepOK(todo[p], list[p], entry[p], look[p])
  BY EmptyPrograms DEF Init, StepOK
<1>3. table \in Tables /\ leader \in SUBSET Node /\ todo \in [Proc -> Seq(StepName)]
      /\ list \in [Proc -> {None} \cup SUBSET Node] /\ look \in [Proc -> {None} \cup Lookup]
      /\ \A p \in Proc : look[p] = None
  BY DEF Init, Tables
<1>4. Core
  BY <1>1, <1>2, <1>3, Names DEF Core
<1>5. Rest
  BY Names, MembershipAssumption DEF Init, Rest
<1> QED BY <1>4, <1>5 DEF IInv

LEMMA NextKeeps == IInv /\ [Next]_vars => IInv'
<1> SUFFICES ASSUME IInv, [Next]_vars PROVE IInv'
  OBVIOUS
<1>1. CASE \E p \in Handler : Request(p)
  BY <1>1, RequestKeeps
<1>2. CASE \E p \in Proc : Step(p)
  BY <1>2, StepKeeps
<1>3. CASE Gossip
  BY <1>3, GossipKeeps
<1>4. CASE Tick \/ Heartbeats
  BY <1>4, MonitorKeeps
<1>5. CASE Start \/ Started \/ Stop \/ StopGossip \/ Stopped \/ \E l \in Loop : LoopEnds(l)
  BY <1>5, ClusterKeeps
<1>6. CASE UNCHANGED vars
  <2>1. Core'
    BY <1>6, QuietKeeps DEF IInv, vars
  <2>2. Rest'
    BY <1>6 DEF IInv, Rest, vars
  <2> QED BY <2>1, <2>2 DEF IInv
<1> QED BY <1>1, <1>2, <1>3, <1>4, <1>5, <1>6 DEF Next

LEMMA InvariantHolds == Spec => []IInv
BY InitHolds, NextKeeps, PTL DEF Spec

\* Whatever goroutines run beside each other, every variable has its type, and
\* each goroutine holds a list just between the two steps of syncHashRing.
THEOREM TypeCorrect == Spec => []TypeOK
<1>1. IInv => TypeOK
  <2> SUFFICES ASSUME IInv PROVE TypeOK
    OBVIOUS
  <2>1. \A p \in Proc : (list[p] # None) <=> (todo[p] # <<>> /\ Head(todo[p]) = "store")
    BY DEF IInv, Core, StepOK, Begins
  <2> QED BY <2>1 DEF IInv, Core, Rest, TypeOK, Tables
<1> QED BY <1>1, InvariantHolds, PTL

\* Owners and Owner of the manager: for any nodes and hashes, however many
\* rebuilds overtake each other, a lookup answers with the nodes nearest to its
\* key among those alive at some moment of the call or of a rebuild then under way.
THEOREM LookupsRegular == Spec => []OwnersRegular
<1>1. IInv => OwnersRegular
  <2> SUFFICES ASSUME IInv, NEW p \in Handler, look[p] # None, At(p, "entries")
               PROVE  \E S \in look[p].seen : Nearest(look[p].owners, S, look[p].hash, look[p].want)
    BY DEF OwnersRegular
  <2>1. SeesOK(todo[p], look[p], Alive, list, ring.nodes)
    BY DEF IInv, Core
  <2>2. todo[p] = <<"entries">>
    <3>1. todo[p] \in LookSteps /\ Begins(todo[p], "entries")
      BY <2>1 DEF SeesOK, At, Begins
    <3> QED BY <3>1, Beginnings
  <2> QED BY <2>1, <2>2 DEF SeesOK
<1> QED BY <1>1, InvariantHolds, PTL

\* syncHashRing never moves a key between two nodes of both its rings, but for
\* nodes that are equally near.
THEOREM KeysMoveMinimally == Spec => MinimalMovement
<1>1. IInv /\ IInv' => (ring' # ring /\ ring.nodes # {} /\ ring'.nodes # {} =>
          \A h \in KeyHash : MovesOnlyFor(ring, ring', h, ReplicationFactor))
  <2> SUFFICES ASSUME IInv, IInv', ring.nodes # {}, ring'.nodes # {}, NEW h \in KeyHash
               PROVE  MovesOnlyFor(ring, ring', h, ReplicationFactor)
    OBVIOUS
  <2>1. ring \in Rings /\ ring' \in Rings /\ h \in Hash /\ ReplicationFactor \in Nat \ {0}
    BY MembershipAssumption DEF IInv, Core
  <2> QED BY <2>1, KeysMoveLittle
<1> QED BY <1>1, InvariantHolds, PTL DEF MinimalMovement

----------------------------------------------------------------------------
(* Lifecycle.                                                              *)

\* The engine is open from OpenEngine to CloseEngine, and requests have ended
\* before Run passes the server's Shutdown.
LInv ==
    /\ LTypeOK
    /\ main = "engine" => engine
    /\ open => engine \/ main \in {"synced", "closed", "stopping", "exited"}
    /\ main \in {"draining", "closing", "synced", "closed", "stopping"} => server = "shut"
    /\ main \in {"closing", "synced", "closed", "stopping"} => busy = {}
    /\ EngineOpenWhenUsed

LEMMA LInvHolds == LSpec => []LInv
<1>1. LInit => LInv
  BY DEF LInit, LInv, LTypeOK, EngineOpenWhenUsed
<1>2. LInv /\ [LNext]_<<vars, lvars>> => LInv'
  <2> SUFFICES ASSUME LInv, [LNext]_<<vars, lvars>> PROVE LInv'
    OBVIOUS
  <2> USE DEF LInv, LTypeOK, EngineOpenWhenUsed, Goto, Running, lvars
  <2>1. CASE OpenEngine
    BY <2>1 DEF OpenEngine
  <2>2. CASE MarkOpen
    BY <2>2 DEF MarkOpen
  <2>3. CASE OpenFails \/ ServerError
    BY <2>3 DEF OpenFails, ServerError
  <2>4. CASE StartCluster \/ Serve
    BY <2>4 DEF StartCluster, Serve
  <2>5. CASE Signal
    BY <2>5 DEF Signal
  <2>6. CASE Drained \/ DrainTimeout
    BY <2>6 DEF Drained, DrainTimeout
  <2>7. CASE CloseEngine
    BY <2>7 DEF CloseEngine
  <2>8. CASE MarkClosed \/ CloseFails
    BY <2>8 DEF MarkClosed, CloseFails
  <2>9. CASE StopCluster \/ Exit
    BY <2>9 DEF StopCluster, Exit
  <2>10. CASE Listen \/ ServerFails
    BY <2>10 DEF Listen, ServerFails
  <2>11. CASE Clustered \/ UNCHANGED <<vars, lvars>>
    BY <2>11 DEF Clustered
  <2>12. ASSUME NEW h \in Handler, Accept(h) PROVE LInv'
    BY <2>12 DEF Accept
  <2>13. ASSUME NEW h \in Handler, Finish(h) PROVE LInv'
    BY <2>13 DEF Finish
  <2>14. ASSUME NEW h \in Handler, CheckOpen(h) PROVE LInv'
    BY <2>14 DEF CheckOpen
  <2>15. ASSUME NEW h \in Handler, CallEngine(h) PROVE LInv'
    BY <2>15 DEF CallEngine
  <2> QED BY <2>1, <2>2, <2>3, <2>4, <2>5, <2>6, <2>7, <2>8, <2>9, <2>10, <2>11,
             <2>12, <2>13, <2>14, <2>15 DEF LNext, Run
<1> QED BY <1>1, <1>2, PTL DEF LSpec

\* Run, Shutdown, the server and its requests keep their variables' types; a
\* request that calls the engine still holds its connection.
THEOREM ProcessTypeCorrect == LSpec => []LTypeOK
<1>1. LInv => LTypeOK
  BY DEF LInv
<1> QED BY <1>1, LInvHolds, PTL

\* Shutdown closes storage under no request, timeouts of the server included.
THEOREM StorageOpenWhenUsed == LSpec => []EngineOpenWhenUsed
<1>1. LInv => EngineOpenWhenUsed
  BY DEF LInv
<1> QED BY <1>1, LInvHolds, PTL

\* The process takes the steps of Membership, or leaves its variables alone: what
\* holds of Membership holds of it.
THEOREM ProcessImplementsMembership == LSpec => Spec
<1>1. LInit => Init
  BY DEF LInit
<1>2. LInv /\ [LNext]_<<vars, lvars>> => [Next]_vars
  <2> SUFFICES ASSUME LInv, [LNext]_<<vars, lvars>> PROVE [Next]_vars
    OBVIOUS
  <2>1. CASE Run
    <3>1. CASE OpenEngine \/ MarkOpen \/ OpenFails
      BY <3>1 DEF OpenEngine, MarkOpen, OpenFails
    <3>2. CASE StartCluster \/ Serve \/ StopCluster \/ Exit
      BY <3>2 DEF StartCluster, Serve, StopCluster, Exit, Next
    <3>3. CASE ServerError \/ Signal \/ Drained \/ DrainTimeout
      BY <3>3 DEF ServerError, Signal, Drained, DrainTimeout
    <3>4. CASE CloseEngine \/ MarkClosed \/ CloseFails
      BY <3>4 DEF CloseEngine, MarkClosed, CloseFails
    <3> QED BY <2>1, <3>1, <3>2, <3>3, <3>4 DEF Run
  <2>2. CASE Listen \/ ServerFails
    BY <2>2 DEF Listen, ServerFails
  <2>3. CASE Clustered
    <3>1. busy \ io \subseteq Handler
      BY DEF LInv, LTypeOK
    <3> QED BY <2>3, <3>1 DEF Clustered, Next
  <2>4. CASE \E h \in Handler : Accept(h) \/ Finish(h) \/ CheckOpen(h) \/ CallEngine(h)
    BY <2>4 DEF Accept, Finish, CheckOpen, CallEngine
  <2>5. CASE UNCHANGED <<vars, lvars>>
    BY <2>5
  <2> QED BY <2>1, <2>2, <2>3, <2>4, <2>5 DEF LNext
<1> QED BY <1>1, <1>2, LInvHolds, PTL DEF LSpec, Spec
=============================================================================
