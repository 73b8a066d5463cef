---------------------------- MODULE HandoffProofs ----------------------------
(***************************************************************************)
(* Theorems about Handoff, for any number of requests.                     *)
(***************************************************************************)
EXTENDS Handoff, SequenceTheorems, TLAPS

Replays == [pc : {"idle", "begun", "next", "call", "answer"},
            snap : Seq(Request), todo : Seq(Nat \ {0})]

\* RemoveHint takes the one hint out and shifts those behind it.
LEMMA RemovedOne ==
  ASSUME NEW S, NEW s \in Seq(S), NEW i \in 1..Len(s)
  PROVE  /\ Removed(s, i) \in Seq(S)
         /\ Len(Removed(s, i)) = Len(s) - 1
         /\ \A k \in 1..(Len(s) - 1) : Removed(s, i)[k] = IF k < i THEN s[k] ELSE s[k + 1]
<1> DEFINE a == SubSeq(s, 1, i - 1)
           b == SubSeq(s, i + 1, Len(s))
<1>1. Removed(s, i) = a \o b
  BY DEF Removed, RemoveAt
<1>2. /\ a \in Seq(S) /\ Len(a) = i - 1
      /\ \A k \in 1..(i - 1) : a[k] = s[k]
  BY SubSeqProperties
<1>3. /\ b \in Seq(S) /\ Len(b) = Len(s) - i
      /\ \A k \in 1..(Len(s) - i) : b[k] = s[k + i]
  BY SubSeqProperties
<1>4. /\ a \o b \in Seq(S)
      /\ Len(a \o b) = Len(a) + Len(b)
      /\ \A k \in 1..(Len(a) + Len(b)) : (a \o b)[k] = IF k <= Len(a) THEN a[k] ELSE b[k - Len(a)]
  <2> HIDE DEF a, b
  <2> QED BY <1>2, <1>3, ConcatProperties
<1> HIDE DEF a, b
<1>5. ASSUME NEW k \in 1..(Len(s) - 1)
      PROVE  (a \o b)[k] = IF k < i THEN s[k] ELSE s[k + 1]
  <2>1. CASE k < i
    BY <2>1, <1>2, <1>3, <1>4
  <2>2. CASE ~(k < i)
    <3>1. (a \o b)[k] = b[k - (i - 1)]
      BY <2>2, <1>2, <1>3, <1>4
    <3>2. k - (i - 1) \in 1..(Len(s) - i)
      BY <2>2
    <3>3. b[k - (i - 1)] = s[(k - (i - 1)) + i]
      BY <3>2, <1>3
    <3> QED BY <2>2, <3>1, <3>3
  <2> QED BY <2>1, <2>2
<1> QED BY <1>1, <1>2, <1>3, <1>4, <1>5

\* Whatever the index, RemoveHint leaves a sequence of hints.
LEMMA RemovedType ==
  ASSUME NEW S, NEW s \in Seq(S), NEW i \in Nat
  PROVE  Removed(s, i) \in Seq(S)
<1>1. CASE i \in 1..Len(s)
  BY <1>1, RemovedOne
<1>2. CASE i \notin 1..Len(s)
  BY <1>2 DEF Removed
<1> QED BY <1>1, <1>2

\* The replay visits the indexes n, n - 1, ..., 1.
LEMMA OrderFacts ==
  ASSUME NEW n \in Nat
  PROVE  /\ Order(n) \in Seq(Nat \ {0})
         /\ Len(Order(n)) = n
         /\ n # 0 => /\ Order(n) # <<>>
                     /\ Head(Order(n)) = n
                     /\ Tail(Order(n)) = Order(n - 1)
<1>1. Order(n) \in [1..n -> Nat \ {0}]
  BY DEF Order
<1>2. Order(n) \in Seq(Nat \ {0}) /\ Len(Order(n)) = n
  BY <1>1, IsASeq, LenProperties
<1>3. ASSUME n # 0
      PROVE  Order(n) # <<>> /\ Head(Order(n)) = n
  <2>1. Order(n) # <<>>
    BY <1>2, <1>3
  <2>2. Head(Order(n)) = Order(n)[1]
    BY <2>1, <1>2, HeadTailProperties
  <2>3. Order(n)[1] = n
    BY <1>3 DEF Order
  <2> QED BY <2>1, <2>2, <2>3
<1>4. ASSUME n # 0
      PROVE  Tail(Order(n)) = Order(n - 1)
  <2>1. /\ Tail(Order(n)) \in Seq(Nat \ {0}) /\ Len(Tail(Order(n))) = n - 1
        /\ \A k \in 1..(n - 1) : Tail(Order(n))[k] = Order(n)[k + 1]
    BY <1>2, <1>3, <1>4, HeadTailProperties
  <2>2. Order(n - 1) \in Seq(Nat \ {0}) /\ Len(Order(n - 1)) = n - 1
    <3>1. n - 1 \in Nat
      BY <1>4
    <3>2. Order(n - 1) \in [1..(n - 1) -> Nat \ {0}]
      BY <3>1 DEF Order
    <3> QED BY <3>1, <3>2, IsASeq, LenProperties
  <2>3. \A k \in 1..(n - 1) : Tail(Order(n))[k] = Order(n - 1)[k]
    BY <1>4, <2>1 DEF Order
  <2> QED BY <2>1, <2>2, <2>3, SeqEqual
<1> QED BY <1>2, <1>3, <1>4

LEMMA OrderZero == Order(0) = <<>>
<1>1. Order(0) \in Seq(Nat \ {0}) /\ Len(Order(0)) = 0
  BY OrderFacts
<1> QED BY <1>1, EmptySeq

----------------------------------------------------------------------------
(* Type correctness: what is left to a replay is m, m - 1, ..., 1 for some  *)
(* m no larger than its copy, so the index it works on lies in the copy.    *)

Walk(r) ==
    /\ replay[r].todo = Order(Len(replay[r].todo))
    /\ Len(replay[r].todo) <= Len(replay[r].snap)

WInv == TypeOK /\ \A r \in Replay : Walk(r)

\* Where a replay stands: the index it works on is the length of what is left
\* to it.
LEMMA AtIndex ==
  ASSUME WInv, NEW r \in Replay, replay[r].todo # <<>>
  PROVE  LET m == Len(replay[r].todo)
         IN  /\ m \in 1..Len(replay[r].snap)
             /\ Head(replay[r].todo) = m
             /\ Tail(replay[r].todo) = Order(m - 1)
             /\ Len(Tail(replay[r].todo)) = m - 1
             /\ Tail(replay[r].todo) \in Seq(Nat \ {0})
             /\ replay[r].snap[m] \in Request
<1> DEFINE m == Len(replay[r].todo)
<1>1. replay[r].todo \in Seq(Nat \ {0}) /\ replay[r].snap \in Seq(Request)
  BY DEF WInv, TypeOK
<1>2. m \in Nat /\ m # 0 /\ Len(replay[r].snap) \in Nat
  BY <1>1, EmptySeq, LenProperties
<1>3. replay[r].todo = Order(m) /\ m <= Len(replay[r].snap)
  BY DEF WInv, Walk
<1> HIDE DEF m
<1>4. m - 1 \in Nat /\ m \in 1..Len(replay[r].snap)
  BY <1>2, <1>3
<1>5. Head(replay[r].todo) = m /\ Tail(replay[r].todo) = Order(m - 1)
  BY <1>2, <1>3, OrderFacts
<1>6. Order(m - 1) \in Seq(Nat \ {0}) /\ Len(Order(m - 1)) = m - 1
  BY <1>4, OrderFacts
<1>7. replay[r].snap[m] \in Request
  BY <1>1, <1>4, ElementOfSeq
<1> QED BY <1>4, <1>5, <1>6, <1>7 DEF m

LEMMA TypeInit == Init => WInv
<1> SUFFICES ASSUME Init PROVE WInv
  OBVIOUS
<1>1. /\ <<>> \in Seq(Request) /\ <<>> \in Seq(Nat \ {0}) /\ Len(<<>>) = 0
  BY EmptySeq
<1>2. TypeOK
  BY <1>1 DEF Init, TypeOK, NoReplay, Stage
<1>3. ASSUME NEW r \in Replay PROVE Walk(r)
  BY <1>1, OrderZero DEF Init, Walk, NoReplay
<1> QED BY <1>2, <1>3 DEF WInv

LEMMA TypeStep == WInv /\ [Next]_vars => WInv'
<1> SUFFICES ASSUME WInv, [Next]_vars PROVE WInv'
  OBVIOUS
<1> USE DEF Replays
<1>1. TypeOK
  BY DEF WInv
<1>2. CASE UNCHANGED replay /\ UNCHANGED <<hints, refused>>
           /\ status' \in {"Alive", "Suspect"} /\ link' \in BOOLEAN
           /\ stage' \in [Request -> Stage] /\ applied' \in SUBSET Request
  BY <1>1, <1>2 DEF WInv, TypeOK, Walk
<1>3. ASSUME NEW i \in Request, Handle(i) PROVE WInv'
  <2>1. CASE StoreHint(i)
    <3>1. hints' \in Seq(Request)
      BY <1>1, <2>1, AppendProperties DEF StoreHint, TypeOK
    <3>2. stage' \in [Request -> Stage]
      BY <1>1, <2>1 DEF StoreHint, TypeOK, Stage
    <3> QED BY <1>1, <2>1, <3>1, <3>2 DEF StoreHint, WInv, TypeOK, Walk
  <2>2. CASE Route(i) \/ Look(i) \/ LocalFails(i) \/ Send(i) \/ Acknowledge(i) \/ CallFails(i)
    <3>1. stage' \in [Request -> Stage]
      BY <1>1, <2>2 DEF Route, Look, LocalFails, Send, Acknowledge, CallFails, TypeOK, Stage
    <3> QED BY <1>1, <1>2, <2>2, <3>1
            DEF Route, Look, LocalFails, Send, Acknowledge, CallFails, TypeOK
  <2>3. CASE Serve(i)
    <3>1. stage' \in [Request -> Stage]
      BY <1>1, <2>3 DEF Serve, TypeOK, Stage
    <3> QED BY <1>1, <1>2, <2>3, <3>1 DEF Serve, TypeOK
  <2> QED BY <1>3, <2>1, <2>2, <2>3 DEF Handle
<1>4. ASSUME NEW r \in Replay, Recover(r) \/ ReplayHints(r) PROVE WInv'
  <2>0. /\ replay \in [Replay -> Replays]
        /\ replay[r] \in Replays
        /\ hints \in Seq(Request)
    BY <1>1 DEF TypeOK
  <2>1. ASSUME NEW e \in Replays,
               replay' = [replay EXCEPT ![r] = e],
               e.pc \in {"call", "answer"} => e.todo # <<>>,
               e.todo = Order(Len(e.todo)), Len(e.todo) <= Len(e.snap),
               status' \in {"Alive", "Suspect"}, UNCHANGED <<link, stage>>,
               hints' \in Seq(Request),
               applied' \in SUBSET Request, refused' \in SUBSET Request
        PROVE  WInv'
    <3>1. \A s \in Replay : replay'[s] = IF s = r THEN e ELSE replay[s]
      BY <2>0, <2>1
    <3>2. replay' \in [Replay -> Replays]
      BY <2>0, <2>1
    <3>3. TypeOK'
      BY <1>1, <2>1, <3>1, <3>2 DEF TypeOK
    <3>4. \A s \in Replay : Walk(s)'
      BY <2>1, <3>1 DEF WInv, Walk
    <3> QED BY <3>3, <3>4 DEF WInv
  <2>2. CASE Recover(r)
    <3> DEFINE e == [replay[r] EXCEPT !.pc = "begun"]
    <3>1. e \in Replays /\ e.pc = "begun" /\ e.todo = replay[r].todo /\ e.snap = replay[r].snap
      BY <2>0
    <3>2. replay' = [replay EXCEPT ![r] = e]
      BY <2>0, <2>2 DEF Recover
    <3> HIDE DEF e
    <3> QED BY <1>1, <2>1, <2>2, <3>1, <3>2 DEF Recover, WInv, Walk, TypeOK
  <2>3. CASE TakeHints(r)
    <3> DEFINE e == [pc |-> "next", snap |-> hints, todo |-> Order(Len(hints))]
    <3>1. Len(hints) \in Nat
      BY <2>0, LenProperties
    <3>2. Order(Len(hints)) \in Seq(Nat \ {0}) /\ Len(Order(Len(hints))) = Len(hints)
      BY <3>1, OrderFacts
    <3>3. /\ e \in Replays /\ e.pc = "next"
          /\ e.todo = Order(Len(e.todo)) /\ Len(e.todo) <= Len(e.snap)
      BY <2>0, <3>1, <3>2
    <3>4. replay' = [replay EXCEPT ![r] = e]
      BY <2>3 DEF TakeHints
    <3> HIDE DEF e
    <3> QED BY <1>1, <2>1, <2>3, <3>3, <3>4 DEF TakeHints, TypeOK
  <2>4. CASE CallReplica(r)
    <3> DEFINE e == [replay[r] EXCEPT !.pc = "call"]
    <3>1. e \in Replays /\ e.pc = "call" /\ e.todo = replay[r].todo /\ e.snap = replay[r].snap
      BY <2>0
    <3>2. replay' = [replay EXCEPT ![r] = e]
      BY <2>0, <2>4 DEF CallReplica
    <3> HIDE DEF e
    <3> QED BY <1>1, <2>1, <2>4, <3>1, <3>2 DEF CallReplica, WInv, Walk, TypeOK
  <2>5. CASE ServeReplay(r)
    <3> DEFINE e == [replay[r] EXCEPT !.pc = "answer"]
    <3>1. e \in Replays /\ e.pc = "answer" /\ e.todo = replay[r].todo /\ e.snap = replay[r].snap
      BY <2>0
    <3>2. replay' = [replay EXCEPT ![r] = e]
      BY <2>0, <2>5 DEF ServeReplay
    <3>3. replay[r].todo # <<>>
      BY <1>1, <2>5 DEF ServeReplay, TypeOK
    <3>4. replay[r].snap[Head(replay[r].todo)] \in Request
      BY <3>3, AtIndex
    <3>5. applied' \in SUBSET Request /\ refused' \in SUBSET Request
      BY <1>1, <2>5, <3>4 DEF ServeReplay, TypeOK
    <3> HIDE DEF e
    <3> QED BY <1>1, <2>1, <2>5, <3>1, <3>2, <3>3, <3>5 DEF ServeReplay, WInv, Walk, TypeOK
  <2>6. CASE RemoveHint(r) \/ ReplayFails(r)
    <3> DEFINE e == [replay[r] EXCEPT !.pc = "next", !.todo = Tail(@)]
               m == Len(replay[r].todo)
    <3>1. replay[r].todo # <<>>
      BY <1>1, <2>6 DEF RemoveHint, ReplayFails, TypeOK
    <3>2. /\ m \in 1..Len(replay[r].snap) /\ Head(replay[r].todo) = m
          /\ Tail(replay[r].todo) = Order(m - 1) /\ Len(Tail(replay[r].todo)) = m - 1
          /\ Tail(replay[r].todo) \in Seq(Nat \ {0})
      BY <3>1, AtIndex
    <3>3. /\ e \in Replays /\ e.pc = "next"
          /\ e.todo = Tail(replay[r].todo) /\ e.snap = replay[r].snap
      BY <2>0, <3>2
    <3>4. replay' = [replay EXCEPT ![r] = e]
      BY <2>0, <2>6 DEF RemoveHint, ReplayFails
    <3>5. Len(replay[r].snap) \in Nat
      BY <2>0, LenProperties
    <3> HIDE DEF e, m
    <3>6. e.todo = Order(Len(e.todo)) /\ Len(e.todo) <= Len(e.snap)
      BY <3>2, <3>3, <3>5
    <3>7. hints' \in Seq(Request)
      <4>1. m \in Nat
        BY <3>2
      <4>2. Removed(hints, m) \in Seq(Request)
        BY <2>0, <4>1, RemovedType
      <4>3. hints' = Removed(hints, m) \/ hints' = hints
        BY <2>6, <3>2 DEF RemoveHint, ReplayFails
      <4> QED BY <2>0, <4>2, <4>3
    <3> QED BY <1>1, <2>1, <2>6, <3>3, <3>4, <3>6, <3>7 DEF RemoveHint, ReplayFails, TypeOK
  <2>7. CASE EndReplay(r)
    <3>1. NoReplay \in Replays /\ NoReplay.pc = "idle"
      BY EmptySeq DEF NoReplay
    <3>2. NoReplay.todo = Order(Len(NoReplay.todo)) /\ Len(NoReplay.todo) <= Len(NoReplay.snap)
      BY EmptySeq, OrderZero DEF NoReplay
    <3> QED BY <1>1, <2>1, <2>7, <3>1, <3>2 DEF EndReplay, TypeOK
  <2> QED BY <1>4, <2>2, <2>3, <2>4, <2>5, <2>6, <2>7 DEF ReplayHints
<1>5. CASE LinkChanges
  BY <1>1, <1>2, <1>5 DEF LinkChanges, TypeOK
<1>6. CASE MarkSuspect
  BY <1>1, <1>2, <1>6 DEF MarkSuspect, TypeOK
<1>7. CASE UpdateHeartbeat
  BY <1>1, <1>2, <1>7 DEF UpdateHeartbeat, TypeOK
<1>8. CASE UNCHANGED vars
  BY <1>1, <1>2, <1>8 DEF vars, TypeOK
<1> QED BY <1>3, <1>4, <1>5, <1>6, <1>7, <1>8 DEF Next

\* The model's state keeps its type, with any number of replays at work: in
\* particular the index a replay is at never leaves its copy of the hints.
THEOREM TypeCorrect == Spec => []TypeOK
<1>1. WInv => TypeOK
  BY DEF WInv
<1> QED BY TypeInit, TypeStep, <1>1, PTL DEF Spec

----------------------------------------------------------------------------
(* No hint is lost, when replays do not overlap: the slice then begins with *)
(* the part of the copy that is still to be visited, since hints are stored *)
(* behind it and only the one just visited is taken out.                    *)

Match(r) ==
    LET m == Len(replay[r].todo)
    IN  replay[r].pc \in {"next", "call", "answer"} =>
            /\ m <= Len(hints)
            /\ \A k \in 1..m : hints[k] = replay[r].snap[k]
            /\ replay[r].pc = "answer" => replay[r].snap[m] \in applied \union refused

HInv == WInv /\ NoHintLost /\ \A r \in Replay : Match(r)

LEMMA HintsInit == Init => HInv
  BY TypeInit DEF Init, HInv, NoHintLost, Match, NoReplay

LEMMA HintsStep ==
  ASSUME \A r, s \in Replay : r = s
  PROVE  HInv /\ [Next]_vars => HInv'
<1> SUFFICES ASSUME HInv, [Next]_vars PROVE HInv'
  OBVIOUS
<1>1. TypeOK /\ WInv /\ WInv'
  BY TypeStep DEF HInv, WInv
<1>2. /\ hints \in Seq(Request) /\ Len(hints) \in Nat
      /\ \A r \in Replay : /\ replay[r] \in Replays
                           /\ Len(replay[r].todo) \in Nat
  BY <1>1, LenProperties DEF TypeOK, Replays
<1>3. CASE /\ UNCHANGED <<replay, hints, refused>>
           /\ applied \in SUBSET applied'
           /\ \A i \in Request : stage'[i] = "hinted" => stage[i] = "hinted"
  <2>1. NoHintLost'
    BY <1>3 DEF HInv, NoHintLost, Pending
  <2>2. \A r \in Replay : Match(r)'
    BY <1>3 DEF HInv, Match
  <2> QED BY <1>1, <2>1, <2>2 DEF HInv
<1>4. ASSUME NEW i \in Request, StoreHint(i) PROVE HInv'
  <2>1. /\ Len(hints') = Len(hints) + 1
        /\ \A k \in 1..Len(hints) : hints'[k] = hints[k]
        /\ hints'[Len(hints) + 1] = i
    BY <1>2, <1>4, AppendProperties DEF StoreHint
  <2>2. \A j \in Request : Pending(j) => Pending(j)'
    BY <1>2, <2>1 DEF Pending
  <2>3. Pending(i)'
    BY <1>2, <2>1 DEF Pending
  <2>4. NoHintLost'
    BY <1>1, <1>4, <2>2, <2>3 DEF StoreHint, HInv, NoHintLost, TypeOK
  <2>5. \A r \in Replay : Match(r)'
    BY <1>2, <1>4, <2>1 DEF StoreHint, HInv, Match
  <2> QED BY <1>1, <2>4, <2>5 DEF HInv
<1>5. ASSUME NEW r \in Replay, Recover(r) \/ ReplayHints(r) PROVE HInv'
  <2> DEFINE m == Len(replay[r].todo)
  <2>1. \A s \in Replay : s = r
    OBVIOUS
  <2>2. replay[r].todo # <<>> =>
          /\ m \in 1..Len(replay[r].snap) /\ Head(replay[r].todo) = m
          /\ Len(Tail(replay[r].todo)) = m - 1
    BY <1>1, AtIndex
  <2>3. replay \in [Replay -> Replays]
    BY <1>1 DEF TypeOK, Replays
  <2>4. Match(r)
    BY DEF HInv
  <2>5. CASE Recover(r) \/ TakeHints(r) \/ CallReplica(r) \/ EndReplay(r)
    <3>1. NoHintLost'
      BY <2>5 DEF Recover, TakeHints, CallReplica, EndReplay, HInv, NoHintLost, Pending
    <3>2. CASE Recover(r) \/ EndReplay(r)
      <4>1. replay'[r].pc \in {"begun", "idle"}
        BY <2>3, <3>2 DEF Recover, EndReplay, NoReplay, Replays
      <4> QED BY <1>1, <2>1, <3>1, <4>1 DEF HInv, Match
    <3>3. CASE TakeHints(r)
      <4>1. /\ replay'[r].pc = "next" /\ replay'[r].snap = hints /\ hints' = hints
            /\ replay'[r].todo = Order(Len(hints))
        BY <2>3, <3>3 DEF TakeHints
      <4>2. Len(Order(Len(hints))) = Len(hints)
        BY <1>2, OrderFacts
      <4>3. Match(r)'
        BY <1>2, <4>1, <4>2 DEF Match
      <4> QED BY <1>1, <2>1, <3>1, <4>3 DEF HInv
    <3>4. CASE CallReplica(r)
      <4>1. /\ replay'[r].pc = "call" /\ replay'[r].snap = replay[r].snap
            /\ replay'[r].todo = replay[r].todo /\ replay[r].pc = "next"
        BY <2>3, <3>4 DEF CallReplica, Replays
      <4>2. Match(r)'
        BY <2>4, <3>4, <4>1 DEF CallReplica, Match
      <4> QED BY <1>1, <2>1, <3>1, <4>2 DEF HInv
    <3> QED BY <2>5, <3>2, <3>3, <3>4
  <2>6. CASE ServeReplay(r)
    <3>1. replay[r].todo # <<>> /\ replay[r].pc = "call"
      BY <1>1, <2>6 DEF ServeReplay, TypeOK
    <3>2. /\ replay'[r].pc = "answer" /\ replay'[r].snap = replay[r].snap
          /\ replay'[r].todo = replay[r].todo
      BY <2>3, <2>6 DEF ServeReplay, Replays
    <3>3. /\ replay[r].snap[m] \in applied' \union refused'
          /\ applied \union refused \in SUBSET (applied' \union refused')
          /\ UNCHANGED <<hints, stage>>
      BY <2>2, <2>6, <3>1 DEF ServeReplay
    <3>4. NoHintLost'
      BY <3>3 DEF HInv, NoHintLost, Pending
    <3>5. Match(r)'
      BY <2>4, <3>1, <3>2, <3>3 DEF Match
    <3> QED BY <1>1, <2>1, <3>4, <3>5 DEF HInv
  <2>7. CASE RemoveHint(r)
    <3>1. replay[r].todo # <<>> /\ replay[r].pc = "answer"
      BY <1>1, <2>7 DEF RemoveHint, TypeOK
    <3>2. /\ replay'[r].pc = "next" /\ replay'[r].snap = replay[r].snap
          /\ replay'[r].todo = Tail(replay[r].todo)
          /\ hints' = Removed(hints, m) /\ UNCHANGED <<stage, applied, refused>>
      BY <2>2, <2>3, <2>7, <3>1 DEF RemoveHint, Replays
    <3>3. /\ m \in 1..Len(hints) /\ Len(Tail(replay[r].todo)) = m - 1
          /\ hints[m] \in applied \union refused
          /\ \A k \in 1..m : hints[k] = replay[r].snap[k]
      BY <1>2, <2>2, <2>4, <3>1 DEF Match
    <3> HIDE DEF m
    <3>4. /\ Len(hints') = Len(hints) - 1
          /\ \A k \in 1..(Len(hints) - 1) : hints'[k] = IF k < m THEN hints[k] ELSE hints[k + 1]
      BY <1>2, <3>2, <3>3, RemovedOne
    <3>5. Match(r)'
      BY <1>2, <3>2, <3>3, <3>4 DEF Match
    <3>6. ASSUME NEW j \in Request, Pending(j), ~(j \in applied \union refused)
          PROVE  Pending(j)'
      <4>1. PICK k \in 1..Len(hints) : hints[k] = j
        BY <3>6 DEF Pending
      <4>2. k # m
        BY <3>3, <3>6, <4>1
      <4>3. CASE k < m
        BY <1>2, <3>3, <3>4, <4>1, <4>3 DEF Pending
      <4>4. CASE k > m
        <5>1. /\ k - 1 \in 1..(Len(hints) - 1) /\ ~(k - 1 < m)
              /\ (k - 1) + 1 = k
          BY <1>2, <3>3, <4>1, <4>4
        <5>2. hints'[k - 1] = hints[k]
          BY <3>4, <5>1
        <5> QED BY <3>4, <4>1, <5>1, <5>2 DEF Pending
      <4> QED BY <1>2, <3>3, <4>2, <4>3, <4>4
    <3>7. NoHintLost'
      BY <3>2, <3>6 DEF HInv, NoHintLost
    <3> QED BY <1>1, <2>1, <3>5, <3>7 DEF HInv
  <2>8. CASE ReplayFails(r)
    <3>1. replay[r].todo # <<>> /\ replay[r].pc \in {"call", "answer"}
      BY <1>1, <2>8 DEF ReplayFails, TypeOK
    <3>2. /\ replay'[r].pc = "next" /\ replay'[r].snap = replay[r].snap
          /\ replay'[r].todo = Tail(replay[r].todo)
          /\ UNCHANGED <<hints, stage, applied, refused>>
      BY <2>3, <2>8 DEF ReplayFails, Replays
    <3>3. m \in Nat /\ Len(Tail(replay[r].todo)) = m - 1
      BY <1>2, <2>2, <3>1
    <3>4. Match(r)'
      BY <1>2, <2>4, <3>1, <3>2, <3>3 DEF Match
    <3>5. NoHintLost'
      BY <3>2 DEF HInv, NoHintLost, Pending
    <3> QED BY <1>1, <2>1, <3>4, <3>5 DEF HInv
  <2> QED BY <1>5, <2>5, <2>6, <2>7, <2>8 DEF ReplayHints
<1>6. ASSUME NEW i \in Request,
             Route(i) \/ Look(i) \/ LocalFails(i) \/ Send(i) \/ Serve(i)
                \/ Acknowledge(i) \/ CallFails(i)
      PROVE  HInv'
  <2>1. /\ UNCHANGED <<replay, hints, refused>> /\ applied \in SUBSET applied'
    BY <1>6 DEF Route, Look, LocalFails, Send, Serve, Acknowledge, CallFails
  <2>2. \A j \in Request : stage'[j] = "hinted" => stage[j] = "hinted"
    BY <1>1, <1>6 DEF Route, Look, LocalFails, Send, Serve, Acknowledge, CallFails, TypeOK
  <2> QED BY <1>1, <1>3, <2>1, <2>2
<1>7. CASE LinkChanges \/ MarkSuspect \/ UpdateHeartbeat \/ UNCHANGED vars
  BY <1>1, <1>3, <1>7 DEF LinkChanges, MarkSuspect, UpdateHeartbeat, vars
<1> QED BY <1>4, <1>5, <1>6, <1>7 DEF Next, Handle

\* If the replays for one replica never overlap, no hint is removed but the one
\* the replica has answered, whatever is stored meanwhile and however many
\* replays follow each other.
THEOREM HintsKept ==
  ASSUME \A r, s \in Replay : r = s
  PROVE  Spec => []NoHintLost
<1>1. HInv => NoHintLost
  BY DEF HInv
<1>2. HInv /\ [Next]_vars => HInv'
  BY HintsStep
<1> QED BY HintsInit, <1>1, <1>2, PTL DEF Spec

----------------------------------------------------------------------------
(* The refinement of HintDelivery, when replays do not overlap. The slice  *)
(* holds each request at most once, and only requests that were referred   *)
(* to it: what is removed at an index is then gone from the slice.         *)

Distinct == \A j, k \in 1..Len(hints) : hints[j] = hints[k] => j = k

Referred == \A k \in 1..Len(hints) : stage[hints[k]] = "hinted"

DInv == HInv /\ Distinct /\ Referred

\* What a step of one replay does to the slice.
LEMMA ReplayRemoves ==
  ASSUME HInv, NEW r \in Replay, RemoveHint(r)
  PROVE  \E m \in 1..Len(hints) :
            /\ hints[m] = replay[r].snap[Head(replay[r].todo)]
            /\ Len(hints') = Len(hints) - 1
            /\ \A k \in 1..(Len(hints) - 1) : hints'[k] = IF k < m THEN hints[k] ELSE hints[k + 1]
<1>1. TypeOK /\ WInv /\ Match(r)
  BY DEF HInv, WInv
<1>2. replay[r].todo # <<>> /\ replay[r].pc = "answer" /\ hints \in Seq(Request)
  BY <1>1 DEF RemoveHint, TypeOK
<1> DEFINE m == Len(replay[r].todo)
<1>3. m \in 1..Len(replay[r].snap) /\ Head(replay[r].todo) = m
  BY <1>1, <1>2, AtIndex
<1>4. m <= Len(hints) /\ hints[m] = replay[r].snap[Head(replay[r].todo)]
  BY <1>1, <1>2, <1>3 DEF Match
<1>5. hints' = Removed(hints, m)
  BY <1>3 DEF RemoveHint
<1> HIDE DEF m
<1>6. m \in 1..Len(hints)
  BY <1>2, <1>3, <1>4, LenProperties
<1> QED BY <1>2, <1>4, <1>5, <1>6, RemovedOne

\* A step that leaves the slice alone and takes no request back from it.
LEMMA SliceKept ==
  ASSUME DInv, HInv', UNCHANGED hints,
         \A i \in Request : stage[i] = "hinted" => stage'[i] = "hinted"
  PROVE  DInv'
<1>1. \A k \in 1..Len(hints) : hints[k] \in Request
  BY ElementOfSeq DEF DInv, HInv, WInv, TypeOK
<1> QED BY <1>1 DEF DInv, Distinct, Referred

\* Taking the hint at m out of a slice without repetitions takes its request
\* out, and no other.
LEMMA TakenOut ==
  ASSUME DInv, NEW m \in 1..Len(hints),
         Len(hints') = Len(hints) - 1,
         \A k \in 1..(Len(hints) - 1) : hints'[k] = IF k < m THEN hints[k] ELSE hints[k + 1]
  PROVE  /\ \A i \in Request : Pending(i)' <=> Pending(i) /\ i # hints[m]
         /\ Distinct'
         /\ \A k \in 1..Len(hints') : \E j \in 1..Len(hints) : hints'[k] = hints[j]
<1>1. Len(hints) \in Nat /\ m \in Nat
  BY LenProperties DEF DInv, HInv, WInv, TypeOK
<1>2. ASSUME NEW k \in 1..Len(hints')
      PROVE  LET j == IF k < m THEN k ELSE k + 1
             IN  j \in 1..Len(hints) /\ j # m /\ hints'[k] = hints[j]
  BY <1>1
<1>3. ASSUME NEW j \in 1..Len(hints), j # m
      PROVE  \E k \in 1..Len(hints') : hints'[k] = hints[j]
  <2>1. CASE j < m
    BY <1>1, <2>1
  <2>2. CASE j > m
    <3>1. /\ j - 1 \in 1..(Len(hints) - 1) /\ ~(j - 1 < m) /\ (j - 1) + 1 = j
      BY <1>1, <2>2
    <3>2. hints'[j - 1] = hints[j]
      BY <3>1
    <3> QED BY <3>1, <3>2
  <2> QED BY <1>1, <1>3, <2>1, <2>2
<1>4. ASSUME NEW i \in Request
      PROVE  Pending(i)' <=> Pending(i) /\ i # hints[m]
  <2>1. ASSUME Pending(i)' PROVE Pending(i) /\ i # hints[m]
    <3>1. PICK k \in 1..Len(hints') : hints'[k] = i
      BY <2>1 DEF Pending
    <3>2. PICK j \in 1..Len(hints) : j # m /\ hints[j] = i
      BY <1>2, <3>1
    <3>3. hints[j] # hints[m]
      BY <3>2 DEF DInv, Distinct
    <3> QED BY <3>2, <3>3 DEF Pending
  <2>2. ASSUME Pending(i), i # hints[m] PROVE Pending(i)'
    <3>1. PICK j \in 1..Len(hints) : hints[j] = i
      BY <2>2 DEF Pending
    <3>2. j # m
      BY <2>2, <3>1
    <3> QED BY <1>3, <3>1, <3>2 DEF Pending
  <2> QED BY <2>1, <2>2
<1>5. Distinct'
  <2> SUFFICES ASSUME NEW j \in 1..Len(hints'), NEW k \in 1..Len(hints'), hints'[j] = hints'[k]
               PROVE  j = k
    BY DEF Distinct
  <2> DEFINE a == IF j < m THEN j ELSE j + 1
             b == IF k < m THEN k ELSE k + 1
  <2>1. a \in 1..Len(hints) /\ hints'[j] = hints[a]
    BY <1>2
  <2>2. b \in 1..Len(hints) /\ hints'[k] = hints[b]
    BY <1>2
  <2>3. a = b
    <3> HIDE DEF a, b
    <3> QED BY <2>1, <2>2 DEF DInv, Distinct
  <2> QED BY <1>1, <2>3
<1>6. \A k \in 1..Len(hints') : \E j \in 1..Len(hints) : hints'[k] = hints[j]
  BY <1>2
<1> QED BY <1>4, <1>5, <1>6

\* Storing a hint for a request that has none.
LEMMA PutIn ==
  ASSUME DInv, NEW i \in Request, StoreHint(i)
  PROVE  /\ ~Pending(i)
         /\ \A j \in Request : Pending(j)' <=> Pending(j) \/ j = i
         /\ Distinct' /\ Referred'
<1>1. hints \in Seq(Request) /\ Len(hints) \in Nat /\ stage \in [Request -> Stage]
      /\ \A k \in 1..Len(hints) : hints[k] \in Request
  BY LenProperties, ElementOfSeq DEF DInv, HInv, WInv, TypeOK
<1>2. /\ Len(hints') = Len(hints) + 1
      /\ \A k \in 1..Len(hints) : hints'[k] = hints[k]
      /\ hints'[Len(hints) + 1] = i
  BY <1>1, AppendProperties DEF StoreHint
<1>3. \A k \in 1..Len(hints) : hints[k] # i
  BY DEF StoreHint, DInv, Referred
<1>4. ASSUME NEW j \in Request PROVE Pending(j)' <=> Pending(j) \/ j = i
  <2>1. ASSUME Pending(j)' PROVE Pending(j) \/ j = i
    <3>1. PICK k \in 1..Len(hints') : hints'[k] = j
      BY <2>1 DEF Pending
    <3>2. CASE k = Len(hints) + 1
      BY <1>2, <3>1, <3>2
    <3>3. CASE k \in 1..Len(hints)
      BY <1>2, <3>1, <3>3 DEF Pending
    <3> QED BY <1>1, <1>2, <3>2, <3>3
  <2>2. ASSUME Pending(j) \/ j = i PROVE Pending(j)'
    BY <1>1, <1>2, <2>2 DEF Pending
  <2> QED BY <2>1, <2>2
<1>5. Distinct'
  BY <1>1, <1>2, <1>3 DEF DInv, Distinct
<1>6. Referred'
  <2>1. \A j \in Request : stage'[j] = IF j = i THEN "hinted" ELSE stage[j]
    BY <1>1 DEF StoreHint
  <2>2. ASSUME NEW k \in 1..Len(hints') PROVE stage'[hints'[k]] = "hinted"
    <3>1. CASE k = Len(hints) + 1
      BY <1>2, <2>1, <3>1
    <3>2. CASE k \in 1..Len(hints)
      BY <1>1, <1>2, <2>1, <3>2 DEF DInv, Referred
    <3> QED BY <1>1, <1>2, <3>1, <3>2
  <2> QED BY <2>2 DEF Referred
<1> QED BY <1>3, <1>4, <1>5, <1>6 DEF Pending

\* What each step does to the slice: nothing, a hint stored, one removed.
LEMMA SliceSteps ==
  ASSUME TypeOK, [Next]_vars
  PROVE  \/ \E i \in Request : StoreHint(i)
         \/ \E r \in Replay : RemoveHint(r)
         \/ /\ UNCHANGED hints
            /\ \A i \in Request : stage'[i] = "hinted" <=> stage[i] = "hinted"
<1>1. CASE UNCHANGED <<hints, stage>>
  BY <1>1
<1>2. ASSUME NEW i \in Request, Handle(i), ~StoreHint(i)
      PROVE  UNCHANGED hints /\ \A j \in Request : stage'[j] = "hinted" <=> stage[j] = "hinted"
  BY <1>2 DEF Handle, Route, Look, LocalFails, Send, Serve, Acknowledge, CallFails, TypeOK
<1>3. ASSUME NEW r \in Replay, Recover(r) \/ ReplayHints(r), ~RemoveHint(r)
      PROVE  UNCHANGED <<hints, stage>>
  BY <1>3 DEF Recover, ReplayHints, TakeHints, CallReplica, ServeReplay, ReplayFails, EndReplay
<1>4. CASE LinkChanges \/ MarkSuspect \/ UpdateHeartbeat \/ UNCHANGED vars
  BY <1>4 DEF LinkChanges, MarkSuspect, UpdateHeartbeat, vars
<1> QED BY <1>1, <1>2, <1>3, <1>4 DEF Next

LEMMA SliceInit == Init => DInv
BY HintsInit DEF Init, DInv, Distinct, Referred

LEMMA SliceStep ==
  ASSUME \A r, s \in Replay : r = s
  PROVE  DInv /\ [Next]_vars => DInv'
<1> SUFFICES ASSUME DInv, [Next]_vars PROVE DInv'
  OBVIOUS
<1>1. HInv' /\ TypeOK
  BY HintsStep DEF DInv, HInv, WInv
<1>2. CASE \E i \in Request : StoreHint(i)
  BY <1>1, <1>2, PutIn DEF DInv
<1>3. CASE \E r \in Replay : RemoveHint(r)
  <2>1. PICK r \in Replay : RemoveHint(r)
    BY <1>3
  <2>2. PICK m \in 1..Len(hints) :
            /\ Len(hints') = Len(hints) - 1
            /\ \A k \in 1..(Len(hints) - 1) : hints'[k] = IF k < m THEN hints[k] ELSE hints[k + 1]
    BY <2>1, ReplayRemoves DEF DInv
  <2>3. Distinct' /\ \A k \in 1..Len(hints') : \E j \in 1..Len(hints) : hints'[k] = hints[j]
    BY <2>2, TakenOut
  <2>4. Referred'
    BY <2>1, <2>3 DEF RemoveHint, DInv, Referred
  <2> QED BY <1>1, <2>3, <2>4 DEF DInv
<1>4. CASE UNCHANGED hints /\ \A i \in Request : stage'[i] = "hinted" <=> stage[i] = "hinted"
  BY <1>1, <1>4, SliceKept
<1> QED BY <1>1, <1>2, <1>3, <1>4, SliceSteps

\* The hint one replay is about.
At(r) == replay[r].snap[Head(replay[r].todo)]

\* With one replay the request it is about is the only one asked for.
LEMMA OnlyAsks ==
  ASSUME \A r, s \in Replay : r = s, NEW r \in Replay, NEW i, NEW pc
  PROVE  /\ Asks(i, pc) <=> replay[r].pc = pc /\ At(r) = i
         /\ Asks(i, pc)' <=> replay'[r].pc = pc /\ At(r)' = i
BY DEF Asks, At

\* While a replay calls, the slice has its hint at the index it is at.
LEMMA AtPending ==
  ASSUME DInv, NEW r \in Replay, replay[r].pc \in {"next", "call", "answer"},
         replay[r].todo # <<>>
  PROVE  /\ At(r) \in Request /\ Pending(At(r))
         /\ Head(replay[r].todo) \in 1..Len(hints)
         /\ At(r) = hints[Head(replay[r].todo)]
<1> DEFINE m == Len(replay[r].todo)
<1>1. WInv /\ Match(r) /\ Len(hints) \in Nat
  BY LenProperties DEF DInv, HInv, WInv, TypeOK
<1>2. m \in 1..Len(replay[r].snap) /\ Head(replay[r].todo) = m /\ replay[r].snap[m] \in Request
  BY <1>1, AtIndex
<1>3. m <= Len(hints) /\ \A k \in 1..m : hints[k] = replay[r].snap[k]
  BY <1>1 DEF Match
<1> HIDE DEF m
<1> QED BY <1>1, <1>2, <1>3 DEF At, Pending

\* A debt changes, and no other.
LEMMA DebtChanges ==
  ASSUME NEW i \in Request, NEW from, NEW to, Debt(i) \in from, Debt(i)' = to,
         \A j \in Request : j # i => Debt(j)' = Debt(j)
  PROVE  Delivery!Change(i, from, to)
BY DEF Delivery!Change

\* A step that stores and removes no hint, and during which no replay calls.
LEMMA DebtsKept ==
  ASSUME UNCHANGED hints,
         \A i \in Request : stage'[i] = "hinted" <=> stage[i] = "hinted",
         \A i \in Request, pc \in {"call", "answer"} : Asks(i, pc)' <=> Asks(i, pc)
  PROVE  /\ \A i \in Request : Debt(i)' = Debt(i)
         /\ UNCHANGED <<applied, refused>> => UNCHANGED Delivery!vars
<1>1. \A i \in Request : Pending(i)' <=> Pending(i)
  BY DEF Pending
<1>2. \A i \in Request : Debt(i)' = Debt(i)
  BY <1>1 DEF Debt
<1> QED BY <1>2 DEF Delivery!vars

LEMMA HandlerDelivers ==
  ASSUME DInv, NEW i \in Request, Handle(i)
  PROVE  Delivery!Next \/ UNCHANGED Delivery!vars
<1>0. TypeOK /\ UNCHANGED replay
  BY DEF DInv, HInv, WInv, Handle, Route, Look, LocalFails, Send, Serve, Acknowledge,
         CallFails, StoreHint
<1>1. \A j \in Request, pc \in {"call", "answer"} : Asks(j, pc)' <=> Asks(j, pc)
  BY <1>0 DEF Asks
<1>2. \A r \in Replay : replay[r].pc \in {"call", "answer"} => Pending(At(r))
  BY <1>0, AtPending DEF TypeOK
<1>3. \A j \in Request, pc \in {"call", "answer"} : Asks(j, pc) => Pending(j)
  BY <1>2 DEF Asks, At
<1>4. \A j \in Request : Pending(j) => stage[j] = "hinted"
  BY DEF DInv, Referred, Pending
<1>5. CASE StoreHint(i)
  <2>1. ~Pending(i) /\ (\A j \in Request : Pending(j)' <=> Pending(j) \/ j = i)
    BY <1>5, PutIn
  <2>2. /\ \A j \in Request : stage'[j] = IF j = i THEN "hinted" ELSE stage[j]
        /\ stage[i] = "refer" /\ UNCHANGED <<applied, refused>>
    BY <1>0, <1>5 DEF StoreHint, TypeOK
  <2>3. Debt(i) = "none" /\ Debt(i)' = "owed"
    BY <1>1, <1>3, <2>1, <2>2 DEF Debt
  <2>4. \A j \in Request : j # i => Debt(j)' = Debt(j)
    BY <1>1, <2>1, <2>2 DEF Debt
  <2>5. Delivery!Owe(i)
    BY <2>2, <2>3, <2>4, DebtChanges DEF Delivery!Owe
  <2> QED BY <2>5 DEF Delivery!Next
<1>6. CASE ~StoreHint(i)
  <2>1. UNCHANGED hints /\ \A j \in Request : stage'[j] = "hinted" <=> stage[j] = "hinted"
    BY <1>0, <1>6 DEF Handle, Route, Look, LocalFails, Send, Serve, Acknowledge, CallFails, TypeOK
  <2>2. CASE Serve(i) /\ applied' = applied \union {i}
    <3>1. Debt(i) = "none" /\ UNCHANGED refused
      BY <1>3, <1>4, <2>2 DEF Serve, Debt
    <3>2. Delivery!Serve(i)
      BY <1>1, <2>1, <2>2, <3>1, DebtsKept DEF Delivery!Serve
    <3> QED BY <3>2 DEF Delivery!Next
  <2>3. CASE UNCHANGED <<applied, refused>>
    BY <1>1, <2>1, <2>3, DebtsKept
  <2> QED BY <1>6, <2>2, <2>3 DEF Handle, Route, Look, LocalFails, Send, Serve, Acknowledge, CallFails
<1> QED BY <1>5, <1>6

LEMMA ReplayDelivers ==
  ASSUME \A r, s \in Replay : r = s, DInv, NEW r \in Replay, Recover(r) \/ ReplayHints(r)
  PROVE  Delivery!Next \/ UNCHANGED Delivery!vars
<1>0. /\ TypeOK /\ HInv /\ replay \in [Replay -> Replays]
      /\ UNCHANGED stage
  BY DEF DInv, HInv, WInv, TypeOK, Replays, Recover, ReplayHints, TakeHints, CallReplica,
         ServeReplay, RemoveHint, ReplayFails, EndReplay
<1>1. \A i, pc : /\ Asks(i, pc) <=> replay[r].pc = pc /\ At(r) = i
                 /\ Asks(i, pc)' <=> replay'[r].pc = pc /\ At(r)' = i
  BY OnlyAsks
<1>2. CASE Recover(r) \/ TakeHints(r) \/ EndReplay(r)
  <2>1. /\ replay[r].pc \notin {"call", "answer"} /\ replay'[r].pc \notin {"call", "answer"}
        /\ UNCHANGED <<hints, applied, refused>>
    BY <1>0, <1>2 DEF Recover, TakeHints, EndReplay, NoReplay, Replays
  <2> QED BY <1>0, <1>1, <2>1, DebtsKept
<1>3. ASSUME replay[r].pc \in {"next", "call", "answer"}, replay[r].todo # <<>>
      PROVE  \E i \in Request :
             /\ i = At(r) /\ Pending(i) /\ stage[i] = "hinted"
             /\ \A j \in Request : j # i => Debt(j) = IF Pending(j) THEN "owed"
                                                      ELSE IF stage[j] = "hinted" THEN "settled"
                                                      ELSE "none"
  <2>1. At(r) \in Request /\ Pending(At(r))
    BY <1>3, AtPending
  <2> QED BY <1>1, <2>1 DEF Debt, DInv, Referred, Pending
<1>4. CASE CallReplica(r) \/ ServeReplay(r) \/ ReplayFails(r)
  <2>1. replay[r].pc \in {"next", "call", "answer"} /\ replay[r].todo # <<>> /\ UNCHANGED hints
    BY <1>0, <1>4 DEF CallReplica, ServeReplay, ReplayFails, TypeOK
  <2>2. \A j \in Request : Pending(j)' <=> Pending(j)
    BY <2>1 DEF Pending
  <2>3. PICK i \in Request :
        /\ i = At(r) /\ Pending(i) /\ stage[i] = "hinted"
        /\ \A j \in Request : j # i => Debt(j) = IF Pending(j) THEN "owed"
                                                 ELSE IF stage[j] = "hinted" THEN "settled"
                                                 ELSE "none"
    BY <1>3, <2>1
  <2>4. CASE CallReplica(r)
    <3>1. replay[r].pc = "next" /\ replay'[r].pc = "call" /\ At(r)' = i
          /\ UNCHANGED <<applied, refused>>
      BY <1>0, <2>3, <2>4 DEF CallReplica, At, Replays
    <3>2. Debt(i) = "owed" /\ Debt(i)' = "asked"
      BY <1>0, <1>1, <2>3, <3>1 DEF Debt
    <3>3. \A j \in Request : j # i => Debt(j)' = Debt(j)
      BY <1>0, <1>1, <2>2, <2>3, <3>1 DEF Debt
    <3>4. Delivery!Ask(i)
      BY <2>3, <3>1, <3>2, <3>3, DebtChanges DEF Delivery!Ask
    <3> QED BY <2>3, <3>4 DEF Delivery!Next
  <2>5. CASE ServeReplay(r)
    <3>1. replay[r].pc = "call" /\ replay'[r].pc = "answer" /\ At(r)' = i
      BY <1>0, <2>3, <2>5 DEF ServeReplay, At, Replays
    <3>2. applied' \union refused' = (applied \union refused) \union {i}
      BY <2>3, <2>5 DEF ServeReplay, At
    <3>4. Debt(i) = "asked" /\ Debt(i)' = "answered"
      BY <1>0, <1>1, <2>3, <3>1 DEF Debt
    <3>5. \A j \in Request : j # i => Debt(j)' = Debt(j)
      BY <1>0, <1>1, <2>2, <2>3, <3>1 DEF Debt
    <3>6. Delivery!Answer(i)
      BY <2>3, <3>2, <3>4, <3>5, DebtChanges DEF Delivery!Answer
    <3> QED BY <2>3, <3>6 DEF Delivery!Next
  <2>6. CASE ReplayFails(r)
    <3>1. replay[r].pc \in {"call", "answer"} /\ replay'[r].pc = "next"
          /\ UNCHANGED <<applied, refused>> /\ At(r) = i
      BY <1>0, <2>3, <2>6 DEF ReplayFails, Replays
    <3>2. Debt(i) \in {"asked", "answered"} /\ Debt(i)' = "owed"
      BY <1>0, <1>1, <2>2, <2>3, <3>1 DEF Debt
    <3>3. \A j \in Request : j # i => Debt(j)' = Debt(j)
      BY <1>0, <1>1, <2>2, <2>3, <3>1 DEF Debt
    <3>4. Delivery!Fail(i)
      BY <2>3, <3>1, <3>2, <3>3, DebtChanges DEF Delivery!Fail
    <3> QED BY <2>3, <3>4 DEF Delivery!Next
  <2> QED BY <1>4, <2>4, <2>5, <2>6
<1>5. CASE RemoveHint(r)
  <2>1. replay[r].pc = "answer" /\ replay[r].todo # <<>> /\ replay'[r].pc = "next"
        /\ UNCHANGED <<applied, refused>>
    BY <1>0, <1>5 DEF RemoveHint, TypeOK, Replays
  <2>2. PICK i \in Request :
        /\ i = At(r) /\ stage[i] = "hinted"
        /\ \A j \in Request : j # i => Debt(j) = IF Pending(j) THEN "owed"
                                                 ELSE IF stage[j] = "hinted" THEN "settled"
                                                 ELSE "none"
    BY <1>3, <2>1
  <2>3. \A j \in Request : Pending(j)' <=> Pending(j) /\ j # i
    <3>1. PICK m \in 1..Len(hints) :
              /\ hints[m] = i
              /\ Len(hints') = Len(hints) - 1
              /\ \A k \in 1..(Len(hints) - 1) : hints'[k] = IF k < m THEN hints[k] ELSE hints[k + 1]
      BY <1>0, <1>5, <2>2, ReplayRemoves DEF At
    <3> QED BY <3>1, TakenOut
  <2>4. Debt(i) = "answered" /\ Debt(i)' = "settled"
    BY <1>0, <1>1, <2>1, <2>2, <2>3 DEF Debt
  <2>5. \A j \in Request : j # i => Debt(j)' = Debt(j)
    BY <1>0, <1>1, <2>1, <2>2, <2>3 DEF Debt
  <2>6. Delivery!Settle(i)
    BY <2>1, <2>2, <2>4, <2>5, DebtChanges DEF Delivery!Settle
  <2> QED BY <2>2, <2>6 DEF Delivery!Next
<1> QED BY <1>2, <1>4, <1>5 DEF ReplayHints

LEMMA DeliveryStep ==
  ASSUME \A r, s \in Replay : r = s, DInv, [Next]_vars
  PROVE  [Delivery!Next]_(Delivery!vars)
<1>1. CASE LinkChanges \/ MarkSuspect \/ UpdateHeartbeat \/ UNCHANGED vars
  <2>1. UNCHANGED <<stage, hints, replay, applied, refused>>
    BY <1>1 DEF LinkChanges, MarkSuspect, UpdateHeartbeat, vars
  <2>2. \A i \in Request, pc \in {"call", "answer"} : Asks(i, pc)' <=> Asks(i, pc)
    BY <2>1 DEF Asks
  <2> QED BY <2>1, <2>2, DebtsKept
<1> QED BY <1>1, HandlerDelivers, ReplayDelivers DEF Next

\* If the replays for a replica never overlap, hinted handoff implements
\* HintDelivery: a request is owed once, is settled only by the answer to the
\* replay of its own hint, and is never sent to the replica again after that.
THEOREM DeliveryImplemented ==
  ASSUME \A r, s \in Replay : r = s
  PROVE  Spec => ImplementsHintDelivery
<1>1. Init => DInv /\ Delivery!Init
  <2>1. Init => Delivery!Init
    BY DEF Init, Delivery!Init, Debt, Asks, Pending, NoReplay
  <2> QED BY <2>1, SliceInit
<1>2. DInv /\ [Next]_vars => DInv'
  BY SliceStep
<1>3. DInv /\ [Next]_vars => [Delivery!Next]_(Delivery!vars)
  BY DeliveryStep
<1> QED BY <1>1, <1>2, <1>3, PTL DEF Spec, ImplementsHintDelivery, Delivery!Spec
=============================================================================
