----------------------------- MODULE EngineProofs -----------------------------
(***************************************************************************)
(* Theorems about Engine, for any number of keys, values, segments and     *)
(* writes.                                                                 *)
(***************************************************************************)
EXTENDS Engine, SequenceTheorems, FiniteSetTheorems, WellFoundedInduction, TLAPS

----------------------------------------------------------------------------
(* Replay positions.                                                       *)

\* A non-empty set of numbers below a bound has a greatest element.
LEMMA Greatest ==
  ASSUME NEW n \in Nat, NEW H, H \subseteq 1..n, H # {}
  PROVE  \E i \in H : \A j \in H : j <= i
<1> DEFINE T == {m \in Nat : \E i \in H : m = n - i}
<1>1. T \subseteq Nat /\ T # {}
  <2>1. PICK h \in H : h \in 1..n
    OBVIOUS
  <2>2. n - h \in T
    BY <2>1
  <2> QED BY <2>2
<1>2. \E x \in T : \A y \in T : ~ (y < x)
  <2> DEFINE R == OpToRel(<, Nat)
  <2>1. IsWellFoundedOn(R, Nat)
    BY NatLessThanWellFounded
  <2>2. PICK x \in T : \A y \in T : ~ (<<y, x>> \in R)
    <3> HIDE DEF T, R
    <3> QED BY <1>1, <2>1, WFMin
  <2>3. \A y \in T : ~ (y < x)
    BY <1>1, <2>2 DEF OpToRel
  <2> HIDE DEF R
  <2> QED BY <2>3
<1>3. PICK x \in T : \A y \in T : ~ (y < x)
  BY <1>2
<1>4. PICK i \in H : x = n - i
  OBVIOUS
<1>5. ASSUME NEW j \in H PROVE j <= i
  <2>1. n - j \in T
    OBVIOUS
  <2>2. ~ (n - j < n - i)
    BY <2>1, <1>3, <1>4
  <2> QED BY <2>2
<1> QED BY <1>5

Files == [File -> Seq(Entry) \union {Missing}]

\* A log file that does not exist holds no entries.
LEMMA EntriesType ==
  ASSUME NEW F \in Files, NEW f \in File
  PROVE  /\ Entries(F, f) \in Seq(Entry)
         /\ Len(Entries(F, f)) \in Nat
BY DEF Files, Entries

\* A position names an entry of its file.
LEMMA AtType ==
  ASSUME NEW F \in Files, NEW p \in Position(F)
  PROVE  /\ p[1] \in File /\ p[2] \in 1..Len(Entries(F, p[1]))
         /\ p = <<p[1], p[2]>>
         /\ At(F, p) \in Entry
<1>1. PICK f \in File : p \in {f} \X (1..Len(Entries(F, f)))
  BY DEF Position
<1>2. p[1] = f /\ p[2] \in 1..Len(Entries(F, f)) /\ p = <<p[1], p[2]>>
  BY <1>1
<1>3. Entries(F, f)[p[2]] \in Entry
  BY <1>2, EntriesType
<1> QED BY <1>2, <1>3 DEF At

\* Replay reads some record of a non-empty set last.
LEMMA LastReadExists ==
  ASSUME NEW F \in Files, NEW P, P \subseteq Position(F), P # {}
  PROVE  /\ LastRead(P) \in P
         /\ \A q \in P : ReadNoEarlier(LastRead(P), q)
<1> DEFINE R == {r \in 1..(MaxSegments + 1) : \E p \in P : Rank(p[1]) = r}
<1>0. MaxSegments \in Nat /\ MaxSegments + 1 \in Nat
  BY EngineAssumption
<1>1. \A p \in P : p[1] \in File /\ p[2] \in 1..Len(Entries(F, p[1]))
  BY AtType
<1>2. \A p \in P : Rank(p[1]) \in R
  BY <1>0, <1>1 DEF Rank, File
<1>3. PICK r \in R : \A s \in R : s <= r
  <2>1. R \subseteq 1..(MaxSegments + 1) /\ R # {}
    BY <1>2
  <2> HIDE DEF R
  <2> QED BY <2>1, <1>0, Greatest
<1>4. PICK p \in P : Rank(p[1]) = r
  OBVIOUS
<1> DEFINE f == p[1]
           I == {i \in 1..Len(Entries(F, f)) : \E q \in P : q[1] = f /\ q[2] = i}
<1>5. PICK i \in I : \A j \in I : j <= i
  <2>1. I \subseteq 1..Len(Entries(F, f)) /\ I # {}
    BY <1>1
  <2>2. Len(Entries(F, f)) \in Nat
    BY <1>1, EntriesType
  <2> HIDE DEF I, f
  <2> QED BY <2>1, <2>2, Greatest
<1>6. PICK t \in P : t[1] = f /\ t[2] = i
  OBVIOUS
<1>7. ASSUME NEW q \in P PROVE ReadNoEarlier(t, q)
  <2>1. Rank(q[1]) \in R
    BY <1>2
  <2>2. Rank(q[1]) <= r
    BY <2>1, <1>3
  <2>3. Rank(t[1]) = r
    BY <1>4, <1>6
  <2>4. CASE Rank(q[1]) = r
    <3>1. q[1] = f
      BY <2>4, <1>4, <1>1, <1>0 DEF Rank, File
    <3>2. q[2] \in I
      BY <3>1, <1>1
    <3>3. q[2] <= t[2]
      BY <3>2, <1>5, <1>6
    <3>4. q[2] \in Int /\ t[2] \in Int
      BY <1>1
    <3> QED BY <3>1, <3>3, <3>4, <1>6 DEF ReadNoEarlier
  <2>5. CASE Rank(q[1]) # r
    <3>1. r \in Int /\ Rank(q[1]) \in Int
      BY <2>1, <1>0
    <3>2. r > Rank(q[1])
      BY <2>2, <2>5, <3>1
    <3> QED BY <3>2, <2>3 DEF ReadNoEarlier
  <2> QED BY <2>4, <2>5
<1> HIDE DEF R, I, f
<1> QED BY <1>7 DEF LastRead

----------------------------------------------------------------------------
(* Type correctness.                                                       *)

\* A replay gives every key a record.
LEMMA RecoveredType ==
  ASSUME NEW F \in Files, NEW c \in [map : [Key -> Record], ts : Int]
  PROVE  Recovered(F, c) \in [Key -> Record]
<1> SUFFICES ASSUME NEW k \in Key
             PROVE  Recovered(F, c)[k] \in Record
  BY DEF Recovered
<1>1. CASE Replayed(F, c, k) = {}
  BY <1>1 DEF Recovered
<1>2. CASE Replayed(F, c, k) # {}
  <2>1. Replayed(F, c, k) \subseteq Position(F)
    BY DEF Replayed
  <2>2. LastRead(Replayed(F, c, k)) \in Position(F)
    BY <1>2, <2>1, LastReadExists
  <2>3. At(F, LastRead(Replayed(F, c, k))).val \in Val
    BY <2>2, AtType DEF Entry
  <2> QED BY <1>2, <2>3 DEF Recovered, Record
<1> QED BY <1>1, <1>2

\* Renames move whole files.
LEMMA ShiftedType ==
  ASSUME file \in Files, NEW j \in 1..(MaxSegments + 1)
  PROVE  Shifted(j) \in Files
<1>0. MaxSegments \in Nat
  BY EngineAssumption
<1> SUFFICES ASSUME NEW f \in File
             PROVE  Shifted(j)[f] \in Seq(Entry) \union {Missing}
  BY DEF Shifted, Files
<1>1. CASE f >= j
  <2>1. f - 1 \in File
    BY <1>0, <1>1 DEF File
  <2>2. file[f] \in Seq(Entry) \union {Missing} /\ file[f-1] \in Seq(Entry) \union {Missing}
    BY <2>1 DEF Files
  <2> QED BY <1>1, <2>2 DEF Shifted
<1>2. CASE ~(f >= j)
  <2>1. file[f] \in Seq(Entry) \union {Missing}
    BY DEF Files
  <2> QED BY <1>2, <2>1 DEF Shifted
<1> QED BY <1>1, <1>2

LEMMA RenamedType ==
  ASSUME file \in Files
  PROVE  Renamed \subseteq Files
BY ShiftedType DEF Renamed

\* A power failure leaves log files.
LEMMA PowerCutsType ==
  ASSUME file \in Files, synced \in 0..Len(Entries(file, 0))
  PROVE  PowerCuts \subseteq Files
<1>0. MaxSegments \in Nat /\ 0 \in File
  BY EngineAssumption DEF File
<1> DEFINE log == Entries(file, 0)
<1>1. log \in Seq(Entry) /\ Len(log) \in Nat
  BY <1>0, EntriesType
<1>2. ASSUME NEW n \in synced..Len(log)
      PROVE  SubSeq(log, 1, n) \in Seq(Entry)
  <2>1. n \in Nat /\ n <= Len(log)
    BY <1>1
  <2> HIDE DEF log
  <2>2. \A i \in 1..n : log[i] \in Entry
    BY <1>1, <2>1
  <2> QED BY <2>1, <2>2, <1>1
<1>3. ASSUME NEW n \in synced..(Len(log) - 1)
      PROVE  Append(SubSeq(log, 1, n), [log[n + 1] EXCEPT !.whole = FALSE]) \in Seq(Entry)
  <2>1. n \in synced..Len(log) /\ n + 1 \in 1..Len(log)
    BY <1>1
  <2> HIDE DEF log
  <2>2. log[n + 1] \in Entry
    BY <1>1, <2>1
  <2>3. [log[n + 1] EXCEPT !.whole = FALSE] \in Entry
    BY <2>2 DEF Entry
  <2>4. SubSeq(log, 1, n) \in Seq(Entry)
    BY <2>1, <1>2 DEF log
  <2> QED BY <2>3, <2>4
<1>4. Cuts \subseteq Seq(Entry)
  BY <1>2, <1>3 DEF Cuts
<1> HIDE DEF log
<1>5. ASSUME NEW s \in Cuts PROVE [file EXCEPT ![0] = s] \in Files
  BY <1>0, <1>4 DEF Files
<1> QED BY <1>5 DEF PowerCuts

\* TypeOK is not inductive alone: appending to the log needs a file there.
TInv ==
    /\ TypeOK
    /\ wal => file[0] # Missing
    /\ pc \in {"rotate", "sync", "reset"} => wal

LEMMA TypeInit == Init => TInv
<1> SUFFICES ASSUME Init PROVE TInv
  OBVIOUS
<1>0. MaxSegments \in Nat /\ 0 \in File
  BY EngineAssumption DEF File
<1>1. file \in Files /\ Entries(file, 0) = <<>>
  BY <1>0 DEF Init, Files, Entries
<1>2. cp \in [map : [Key -> Record], ts : Int]
  BY DEF Init, NoStore, Absent, Record, Val
<1>3. synced \in 0..Len(Entries(file, 0))
  BY <1>1 DEF Init
<1>4. possible \in [Key -> SUBSET Val]
  BY DEF Init, Val
<1>5. /\ life = "down" /\ wal = FALSE /\ clock = 1 /\ pc = "idle"
      /\ op = NoOp /\ maint = "off" /\ writes = 0
  BY DEF Init
<1>6. store \in [Key -> Record]
  BY DEF Init, NoStore, Absent, Record, Val
<1>7. TypeOK
  <2>1. pc \in {"rotate", "append", "sync", "apply"} <=> op # NoOp
    BY <1>5
  <2>2. wal \in BOOLEAN
    BY <1>5, Zenon
  <2> QED BY <1>1, <1>2, <1>3, <1>4, <1>5, <1>6, <2>1, <2>2 DEF TypeOK, Files
<1> QED BY <1>5, <1>7 DEF TInv

LEMMA TypeStep == TInv /\ [Next]_vars => TInv'
<1> SUFFICES ASSUME TInv, [Next]_vars PROVE TInv'
  OBVIOUS
<1> USE DEF Files
<1>0. /\ MaxSegments \in Nat /\ 0 \in File
      /\ NoOp \notin Entry /\ MinAdvance \in Int
      /\ <<>> \in Seq(Entry) /\ <<>> # Missing
  <2>1. <<>> \in Seq(Entry)
    OBVIOUS
  <2>2. <<>> # Missing
    BY <2>1, EngineAssumption, Zenon
  <2>3. MaxSegments \in Nat /\ 0 \in File /\ NoOp \notin Entry /\ MinAdvance \in Int
    BY EngineAssumption DEF File
  <2> QED BY <2>1, <2>2, <2>3
<1>1. /\ TypeOK
      /\ file \in Files
      /\ Entries(file, 0) \in Seq(Entry)
      /\ Len(Entries(file, 0)) \in Nat
  BY <1>0, EntriesType DEF TInv, TypeOK
<1>2. CASE UNCHANGED vars
  BY <1>2 DEF TInv, TypeOK, vars, Entries
<1>3. CASE Open
  <2>1. Recovered(file, cp) \in [Key -> Record]
    BY <1>1, RecoveredType DEF TypeOK
  <2>2. file' \in Files /\ file'[0] = Entries(file, 0)
    BY <1>0, <1>1, <1>3 DEF Open
  <2>3. file'[0] # Missing /\ Entries(file', 0) = Entries(file, 0)
    BY <2>2, <1>1, EngineAssumption DEF Entries
  <2>4. synced' \in 0..Len(Entries(file', 0))
    BY <1>1, <1>3, <2>3 DEF Open, TypeOK
  <2> QED BY <1>1, <1>3, <2>1, <2>2, <2>3, <2>4 DEF Open, TInv, TypeOK
<1>4. CASE CloseBegin
  BY <1>1, <1>4 DEF CloseBegin, TInv, TypeOK, Entries
<1>5. CASE CloseWAL
  <2>1. synced' \in 0..Len(Entries(file', 0))
    BY <1>1, <1>5 DEF CloseWAL, Entries
  <2> QED BY <1>1, <1>5, <2>1 DEF CloseWAL, TInv, TypeOK
<1>6. CASE CloseFails
  BY <1>1, <1>6 DEF CloseFails, TInv, TypeOK, Entries
<1>7. ASSUME Down, file' \in Files, synced' \in 0..Len(Entries(file', 0))
      PROVE  TInv'
  <2>1. store' \in [Key -> Record]
    BY <1>7 DEF Down, NoStore, Absent, Record, Val
  <2> QED BY <1>0, <1>1, <1>7, <2>1 DEF Down, TInv, TypeOK
<1>8. CASE Kill
  <2>1. file' \in Files
    BY <1>1, <1>8, RenamedType DEF Kill
  <2>2. synced' \in 0..Len(Entries(file', 0))
    <3>1. CASE file' = file
      BY <1>8, <3>1, <1>1 DEF Kill, TypeOK
    <3>2. CASE file' # file
      <4>1. Len(Entries(file', 0)) \in Nat
        BY <2>1, <1>0, EntriesType
      <4> QED BY <1>8, <3>2, <4>1 DEF Kill
    <3> QED BY <3>1, <3>2
  <2> QED BY <1>7, <1>8, <2>1, <2>2 DEF Kill
<1>9. CASE PowerFailure
  <2>1. file' \in Files
    BY <1>1, <1>9, RenamedType, PowerCutsType DEF PowerFailure, TypeOK
  <2>2. Len(Entries(file', 0)) \in Nat
    BY <2>1, <1>0, EntriesType
  <2>3. synced' \in 0..Len(Entries(file', 0))
    BY <1>9, <2>2 DEF PowerFailure
  <2> QED BY <1>7, <1>9, <2>1, <2>3 DEF PowerFailure
<1>10. ASSUME NEW k \in Key, NEW v \in Val, Begin(k, v)
       PROVE  TInv'
  <2>0. PICK t \in Reading :
           clock' = t /\ op' = [key |-> k, val |-> v, ts |-> t, whole |-> TRUE]
    BY <1>10 DEF Begin
  <2>1. clock' \in Int /\ op' \in Entry /\ op' # NoOp
    <3>1. t \in Int
      BY <1>0, <1>1 DEF Reading, TypeOK
    <3>2. op' \in Entry
      BY <1>10, <2>0, <3>1 DEF Entry
    <3> QED BY <1>0, <2>0, <3>1, <3>2
  <2>2. pc' = "rotate" => wal
    BY <1>10 DEF Begin, RotationDue
  <2> QED BY <1>1, <1>10, <2>1, <2>2 DEF Begin, TInv, TypeOK, Entries
<1>11. CASE Mutate
  <2>1. CASE RotateWAL
    <3>1. Shifted(1) \in Files
      BY <1>0, <1>1, ShiftedType
    <3>2. file' \in Files /\ file'[0] = <<>>
      BY <1>0, <2>1, <3>1 DEF RotateWAL
    <3>3. file'[0] # Missing
      BY <1>0, <3>2
    <3>4. Len(Entries(file', 0)) = 0
      BY <3>2, <3>3 DEF Entries
    <3> QED BY <1>1, <2>1, <3>2, <3>3, <3>4 DEF RotateWAL, TInv, TypeOK
  <2>2. CASE RotateFails
    <3>1. CASE UNCHANGED <<wal, file, synced>>
      BY <1>0, <1>1, <2>2, <3>1 DEF RotateFails, Abandon, TInv, TypeOK, Entries
    <3>2. CASE wal' = FALSE /\ file' \in Renamed /\ synced' = Len(Entries(file', 0))
      <4>1. file' \in Files
        BY <1>1, <3>2, RenamedType
      <4>2. synced' \in 0..Len(Entries(file', 0))
        BY <4>1, <3>2, <1>0, EntriesType
      <4> QED BY <1>0, <1>1, <2>2, <3>2, <4>1, <4>2 DEF RotateFails, Abandon, TInv, TypeOK
    <3> QED BY <2>2, <3>1, <3>2 DEF RotateFails
  <2>3. ASSUME pc = "append", wal, NEW e \in Entry,
               file' = [file EXCEPT ![0] = Append(@, e)], UNCHANGED synced
        PROVE  /\ file' \in Files /\ file'[0] # Missing
               /\ synced' \in 0..Len(Entries(file', 0))
    <3>1. file[0] \in Seq(Entry) /\ Entries(file, 0) = file[0]
      BY <1>0, <1>1, <2>3 DEF TInv, Entries
    <3>2. /\ Append(file[0], e) \in Seq(Entry)
          /\ Len(Append(file[0], e)) = Len(file[0]) + 1
      BY <3>1
    <3>3. file' \in Files /\ file'[0] = Append(file[0], e)
      BY <1>0, <1>1, <2>3, <3>2
    <3>4. file'[0] # Missing /\ Entries(file', 0) = file'[0]
      BY <3>2, <3>3, EngineAssumption DEF Entries
    <3> QED BY <1>1, <2>3, <3>1, <3>2, <3>3, <3>4 DEF TypeOK
  <2>4. CASE AppendWAL
    <3>1. op \in Entry /\ op.key \in Key /\ op.val \in Val
      BY <1>1, <2>4 DEF AppendWAL, TypeOK, Entry
    <3>2. possible' \in [Key -> SUBSET Val]
      BY <1>1, <2>4, <3>1 DEF AppendWAL, TypeOK
    <3>3. /\ file' \in Files /\ file'[0] # Missing
          /\ synced' \in 0..Len(Entries(file', 0))
      BY <2>3, <2>4, <3>1 DEF AppendWAL
    <3> QED BY <1>1, <2>4, <3>2, <3>3 DEF AppendWAL, TInv, TypeOK
  <2>5. CASE AppendSkipped
    BY <1>1, <2>5 DEF AppendSkipped, TInv, TypeOK, Entries
  <2>6. CASE AppendFails
    <3>1. CASE UNCHANGED file
      BY <1>0, <1>1, <2>6, <3>1 DEF AppendFails, Abandon, TInv, TypeOK, Entries
    <3>2. CASE file' = [file EXCEPT ![0] = Append(@, [op EXCEPT !.whole = FALSE])]
      <4>1. [op EXCEPT !.whole = FALSE] \in Entry
        BY <1>1, <2>6 DEF AppendFails, TypeOK, Entry
      <4>2. /\ file' \in Files /\ file'[0] # Missing
            /\ synced' \in 0..Len(Entries(file', 0))
        BY <2>3, <2>6, <3>2, <4>1 DEF AppendFails
      <4> QED BY <1>0, <1>1, <2>6, <4>2 DEF AppendFails, Abandon, TInv, TypeOK
    <3> QED BY <2>6, <3>1, <3>2 DEF AppendFails
  <2>7. CASE SyncWAL
    <3>1. wal /\ file[0] # Missing
      BY <2>7 DEF SyncWAL, TInv
    <3>2. synced' \in 0..Len(Entries(file', 0))
      BY <1>1, <2>7, <3>1 DEF SyncWAL, Entries
    <3> QED BY <1>1, <2>7, <3>1, <3>2 DEF SyncWAL, TInv, TypeOK
  <2>8. CASE SyncFails
    BY <1>0, <1>1, <2>8 DEF SyncFails, Abandon, TInv, TypeOK, Entries
  <2>9. CASE Apply
    <3>1. op \in Entry /\ op.key \in Key /\ op.val \in Val
      BY <1>1, <2>9 DEF Apply, TypeOK, Entry
    <3>2. store' \in [Key -> Record] /\ possible' \in [Key -> SUBSET Val]
      BY <1>1, <2>9, <3>1 DEF Apply, TypeOK, Record
    <3> QED BY <1>0, <1>1, <2>9, <3>2 DEF Apply, TInv, TypeOK, Entries
  <2> QED BY <1>11, <2>1, <2>2, <2>4, <2>5, <2>6, <2>7, <2>8, <2>9 DEF Mutate
<1>12. CASE Checkpointing
  <2>1. \A t \in Reading : t \in Int
    BY <1>0, <1>1 DEF Reading, TypeOK
  <2>2. CASE SaveCheckpoint
    <3>1. clock' \in Int /\ cp' \in [map : [Key -> Record], ts : Int]
      BY <1>1, <2>1, <2>2 DEF SaveCheckpoint, TypeOK
    <3> QED BY <1>1, <2>2, <3>1 DEF SaveCheckpoint, Release, TInv, TypeOK, Entries
  <2>3. CASE SaveFails
    <3>1. clock' \in Int /\ cp' \in [map : [Key -> Record], ts : Int]
      BY <1>1, <2>1, <2>3 DEF SaveFails, TypeOK
    <3> QED BY <1>1, <2>3, <3>1 DEF SaveFails, Release, TInv, TypeOK, Entries
  <2>4. CASE ResetWAL
    <3>1. file' \in Files /\ file'[0] = <<>>
      BY <1>0, <1>1, <2>4 DEF ResetWAL
    <3>2. file'[0] # Missing
      BY <1>0, <3>1
    <3>3. synced' \in 0..Len(Entries(file', 0))
      BY <2>4, <3>1, <3>2 DEF ResetWAL, Entries
    <3> QED BY <1>1, <2>4, <3>1, <3>2, <3>3 DEF ResetWAL, Release, TInv, TypeOK
  <2>5. CASE ResetFails
    BY <1>1, <2>5 DEF ResetFails, Release, TInv, TypeOK, Entries
  <2> QED BY <1>12, <2>2, <2>3, <2>4, <2>5 DEF Checkpointing
<1>13. CASE MaintTick
  BY <1>1, <1>13 DEF MaintTick, TInv, TypeOK, Entries
<1>14. CASE MaintLock
  BY <1>1, <1>14 DEF MaintLock, TInv, TypeOK, Entries
<1>15. CASE MaintExit
  BY <1>1, <1>15 DEF MaintExit, TInv, TypeOK, Entries
<1> QED BY <1>2, <1>3, <1>4, <1>5, <1>6, <1>8, <1>9, <1>10, <1>11, <1>12,
          <1>13, <1>14, <1>15 DEF Next

\* The engine's state keeps its type, and the mutation in flight is an entry
\* exactly while the lock's holder is between Begin and Apply.
THEOREM TypeCorrect == Spec => []TypeOK
<1>1. TInv => TypeOK
  BY DEF TInv
<1> QED BY <1>1, TypeInit, TypeStep, PTL DEF Spec

----------------------------------------------------------------------------
(* Rotation.                                                               *)

\* Only a rotation is at this phase, so there is a segment to rename to.
RInv ==
    /\ TInv
    /\ pc = "rotate" => RotationOn

LEMMA RInvHolds == Spec => []RInv
<1>1. Init => RInv
  BY TypeInit DEF Init, RInv
<1>2. RInv /\ [Next]_vars => RInv'
  <2> SUFFICES ASSUME RInv, [Next]_vars PROVE RInv'
    OBVIOUS
  <2>1. TInv'
    BY TypeStep DEF RInv
  <2>2. pc' = "rotate" => pc = "rotate" \/ RotationOn
    <3>1. CASE UNCHANGED vars
      BY <3>1 DEF vars
    <3>2. CASE \E k \in Key, v \in Val : Begin(k, v)
      BY <3>2 DEF Begin, RotationDue
    <3>3. CASE Open \/ CloseBegin \/ CloseWAL \/ CloseFails \/ Kill \/ PowerFailure
      BY <3>3 DEF Open, CloseBegin, CloseWAL, CloseFails, Kill, PowerFailure, Down
    <3>4. CASE Mutate
      BY <3>4 DEF Mutate, RotateWAL, RotateFails, AppendWAL, AppendSkipped, AppendFails,
            SyncWAL, SyncFails, Apply, Abandon
    <3>5. CASE Checkpointing
      BY <3>5 DEF Checkpointing, SaveCheckpoint, SaveFails, ResetWAL, ResetFails, Release
    <3>6. CASE MaintTick \/ MaintLock \/ MaintExit
      BY <3>6 DEF MaintTick, MaintLock, MaintExit
    <3> QED BY <3>1, <3>2, <3>3, <3>4, <3>5, <3>6 DEF Next
  <2>3. RotationOn' = RotationOn
    BY DEF RotationOn
  <2> QED BY <2>1, <2>2, <2>3 DEF RInv
<1> QED BY <1>1, <1>2, PTL DEF Spec

\* The records of the active log of F are all in G.
KeepsActive(F, G) ==
    \A p \in Position(F) : p[1] = 0 => \E q \in Position(G) : At(G, q) = At(F, p)

LEMMA ActiveMoved ==
  ASSUME NEW F \in Files, NEW G \in Files, NEW f \in File,
         Entries(G, f) = Entries(F, 0)
  PROVE  KeepsActive(F, G)
<1> SUFFICES ASSUME NEW p \in Position(F), p[1] = 0
             PROVE  \E q \in Position(G) : At(G, q) = At(F, p)
  BY DEF KeepsActive
<1>1. p[2] \in 1..Len(Entries(F, 0))
  BY AtType
<1>2. <<f, p[2]>> \in Position(G)
  BY <1>1 DEF Position
<1>3. At(G, <<f, p[2]>>) = At(F, p)
  BY DEF At
<1> QED BY <1>2, <1>3

\* However many of the renames have happened, the active log is still there,
\* under its own name or as segment 1.
LEMMA ShiftedKeeps ==
  ASSUME RInv, pc = "rotate", NEW j \in 1..(MaxSegments + 1)
  PROVE  /\ KeepsActive(file, Shifted(j))
         /\ j = 1 => KeepsActive(file, [Shifted(j) EXCEPT ![0] = <<>>])
<1>1. /\ MaxSegments \in Nat /\ MaxSegments > 0 /\ 0 \in File /\ 1 \in File
      /\ file \in Files /\ file[0] # Missing
  BY EngineAssumption DEF RInv, RotationOn, File, TInv, TypeOK, Files
<1>2. Shifted(j) \in Files
  BY <1>1, ShiftedType
<1>3. CASE j = 1
  <2>1. Shifted(j)[1] = file[0]
    BY <1>1, <1>3 DEF Shifted
  <2>2. [Shifted(j) EXCEPT ![0] = <<>>] \in Files /\ [Shifted(j) EXCEPT ![0] = <<>>][1] = file[0]
    BY <1>1, <1>2, <2>1 DEF Files
  <2>3. Entries(Shifted(j), 1) = Entries(file, 0)
        /\ Entries([Shifted(j) EXCEPT ![0] = <<>>], 1) = Entries(file, 0)
    BY <2>1, <2>2 DEF Entries
  <2> QED BY <1>1, <1>2, <2>2, <2>3, ActiveMoved
<1>4. CASE j # 1
  <2>1. Shifted(j)[0] = file[0]
    BY <1>1, <1>4 DEF Shifted
  <2>2. Entries(Shifted(j), 0) = Entries(file, 0)
    BY <2>1 DEF Entries
  <2> QED BY <1>1, <1>2, <1>4, <2>2, ActiveMoved
<1> QED BY <1>3, <1>4

\* For any number of segments, and wherever a rename fails or the process is
\* killed, no rotation loses a record of the log that was active. A power
\* failure may lose what was not fsynced.
THEOREM RotationKeeps ==
  ASSUME ~ PowerLoss
  PROVE  Spec => RotationKeepsActive
<1>1. RInv /\ [Next]_vars => (pc = "rotate" => KeepsActive(file, file'))
  <2> SUFFICES ASSUME RInv, [Next]_vars, pc = "rotate"
               PROVE  KeepsActive(file, file')
    OBVIOUS
  <2>0. /\ MaxSegments \in Nat /\ 0 \in File /\ file \in Files
        /\ 1 \in 1..(MaxSegments + 1)
    BY EngineAssumption DEF RInv, TInv, TypeOK, Files, File
  <2>1. CASE file' = file
    BY <2>0, <2>1, ActiveMoved
  <2>2. CASE file' \in Renamed
    <3>1. PICK j \in 1..(MaxSegments + 1) : file' = Shifted(j)
      BY <2>2 DEF Renamed
    <3> QED BY <3>1, ShiftedKeeps
  <2>3. CASE RotateWAL
    <3>1. file' = [Shifted(1) EXCEPT ![0] = <<>>]
      BY <2>3 DEF RotateWAL
    <3> QED BY <2>0, <3>1, ShiftedKeeps
  <2>4. file' = file \/ file' \in Renamed \/ RotateWAL
    <3>1. CASE UNCHANGED vars
      BY <3>1 DEF vars
    <3>2. CASE \E k \in Key, v \in Val : Begin(k, v)
      BY <3>2 DEF Begin
    <3>3. CASE Open \/ CloseBegin \/ CloseWAL \/ CloseFails \/ Kill \/ PowerFailure
      BY <3>3 DEF Open, CloseBegin, CloseWAL, CloseFails, Kill, PowerFailure
    <3>4. CASE Mutate
      BY <3>4 DEF Mutate, RotateFails, AppendWAL, AppendSkipped, AppendFails,
            SyncWAL, SyncFails, Apply
    <3>5. CASE Checkpointing
      BY <3>5 DEF Checkpointing, SaveCheckpoint, SaveFails, ResetWAL, ResetFails
    <3>6. CASE MaintTick \/ MaintLock \/ MaintExit
      BY <3>6 DEF MaintTick, MaintLock, MaintExit
    <3> QED BY <3>1, <3>2, <3>3, <3>4, <3>5, <3>6 DEF Next
  <2> QED BY <2>1, <2>2, <2>3, <2>4
<1>2. RInv /\ [Next]_vars =>
        [pc = "rotate" =>
           \A p \in Position(file) : p[1] = 0 =>
               \E q \in Position(file)' : At(file', q) = At(file, p)]_vars
  BY <1>1 DEF KeepsActive
<1> QED BY <1>2, RInvHolds, PTL DEF Spec, RotationKeepsActive

----------------------------------------------------------------------------
(* Close against the maintenance goroutine.                                *)

\* Close begins when no one holds the lock, and from then on only Close takes
\* it for more than a look at e.open: a checkpoint under way is its last one,
\* of a log that is closed.
WInv ==
    life \in {"closing", "closed"} =>
        \/ pc = "idle"
        \/ pc = "save" /\ ~wal /\ life = "closing"

LEMMA ClosingStep == WInv /\ [Next]_vars => WInv'
<1> SUFFICES ASSUME WInv, [Next]_vars PROVE WInv'
  OBVIOUS
<1>1. CASE UNCHANGED vars
  BY <1>1 DEF vars, WInv
<1>2. CASE \E k \in Key, v \in Val : Begin(k, v)
  BY <1>2 DEF Begin, WInv
<1>3. CASE Open \/ CloseBegin \/ Kill \/ PowerFailure
  BY <1>3 DEF Open, CloseBegin, Kill, PowerFailure, Down, WInv
<1>4. CASE CloseWAL \/ CloseFails
  BY <1>4 DEF CloseWAL, CloseFails, WInv
<1>5. CASE Mutate
  BY <1>5 DEF Mutate, RotateWAL, RotateFails, AppendWAL, AppendSkipped, AppendFails,
        SyncWAL, SyncFails, Apply, Abandon, WInv
<1>6. CASE Checkpointing
  BY <1>6 DEF Checkpointing, SaveCheckpoint, SaveFails, ResetWAL, ResetFails, Release, WInv
<1>7. CASE MaintTick \/ MaintLock \/ MaintExit
  BY <1>7 DEF MaintTick, MaintLock, MaintExit, WInv
<1> QED BY <1>1, <1>2, <1>3, <1>4, <1>5, <1>6, <1>7 DEF Next

\* From the first critical section of Close until the next Open no log file
\* changes, and no checkpoint is saved before the log is closed: a tick that
\* gets the lock in between finds e.open false (engine.go: Close,
\* startMaintenanceLocked).
THEOREM LogLeftAlone == Spec => ClosingKeepsLog
<1>1. Init => WInv
  BY DEF Init, WInv
<1>2. WInv /\ [Next]_vars =>
        [{life, life'} \subseteq {"closing", "closed"} =>
           /\ file' = file
           /\ cp' # cp => ~wal]_vars
  <2> SUFFICES ASSUME WInv, Next, life \in {"closing", "closed"},
                      life' \in {"closing", "closed"}
               PROVE  file' = file /\ (cp' # cp => ~wal)
    OBVIOUS
  <2>1. CASE \E k \in Key, v \in Val : Begin(k, v)
    BY <2>1 DEF Begin
  <2>2. CASE Open \/ CloseBegin \/ Kill \/ PowerFailure
    BY <2>2 DEF Open, CloseBegin, Kill, PowerFailure, Down
  <2>3. CASE CloseWAL \/ CloseFails
    BY <2>3 DEF CloseWAL, CloseFails
  <2>4. CASE Mutate
    BY <2>4 DEF Mutate, RotateWAL, RotateFails, AppendWAL, AppendSkipped, AppendFails,
          SyncWAL, SyncFails, Apply, WInv
  <2>5. CASE Checkpointing
    BY <2>5 DEF Checkpointing, SaveCheckpoint, SaveFails, ResetWAL, ResetFails, WInv
  <2>6. CASE MaintTick \/ MaintLock \/ MaintExit
    BY <2>6 DEF MaintTick, MaintLock, MaintExit
  <2> QED BY <2>1, <2>2, <2>3, <2>4, <2>5, <2>6 DEF Next
<1> QED BY <1>1, <1>2, ClosingStep, PTL DEF Spec, ClosingKeepsLog

----------------------------------------------------------------------------
(* Checkpoints.                                                            *)

\* There are finitely many records in the log files.
LEMMA PositionFinite ==
  ASSUME NEW F \in Files
  PROVE  IsFiniteSet(Position(F))
<1> DEFINE Of(f) == {f} \X (1..Len(Entries(F, f)))
           of   == [f \in File |-> Of(f)]
           All  == {Of(f) : f \in File}
<1>1. ASSUME NEW f \in File PROVE IsFiniteSet(Of(f))
  <2>1. IsFiniteSet({f})
    BY FS_Singleton
  <2>2. IsFiniteSet(1..Len(Entries(F, f)))
    BY EntriesType, FS_Interval
  <2> QED BY <2>1, <2>2, FS_Product
<1>2. IsFiniteSet(File)
  BY EngineAssumption, FS_Interval DEF File
<1>3. of \in Surjection(File, All)
  <2>1. of \in [File -> All]
    OBVIOUS
  <2>2. \A T \in All : \E f \in File : of[f] = T
    OBVIOUS
  <2> HIDE DEF of, All
  <2> QED BY <2>1, <2>2 DEF Surjection
<1>4. IsFiniteSet(All)
  <2> HIDE DEF of, All
  <2> QED BY <1>2, <1>3, FS_Surjection
<1>5. \A T \in All : IsFiniteSet(T)
  BY <1>1
<1>6. Position(F) = UNION All
  BY DEF Position
<1> HIDE DEF All
<1> QED BY <1>4, <1>5, <1>6, FS_UNION

\* The log files whose sizes add up to nothing hold no record.
LEMMA NothingLogged ==
  ASSUME file \in Files, ~ (WalSize > 0)
  PROVE  Position(file) = {}
<1>1. IsFiniteSet(Position(file))
  BY PositionFinite
<1>2. WalSize \in Nat
  BY <1>1, FS_CardinalityType DEF WalSize
<1>3. WalSize = 0
  BY <1>2
<1> QED BY <1>1, <1>3, FS_EmptySet DEF WalSize

\* No record of the log files F is later than t.
Bounded(F, t) ==
    \A f \in File : \A i \in 1..Len(Entries(F, f)) : Entries(F, f)[i].ts <= t

\* Each file of G holds records of F only.
LEMMA BoundedFiles ==
  ASSUME NEW F, NEW G, NEW t, Bounded(F, t),
         \A g \in File : Entries(G, g) = <<>> \/ \E f \in File : Entries(G, g) = Entries(F, f)
  PROVE  Bounded(G, t)
<1> SUFFICES ASSUME NEW g \in File, NEW i \in 1..Len(Entries(G, g))
             PROVE  Entries(G, g)[i].ts <= t
  BY DEF Bounded
<1>1. CASE Entries(G, g) = <<>>
  BY <1>1
<1>2. CASE \E f \in File : Entries(G, g) = Entries(F, f)
  BY <1>2 DEF Bounded
<1> QED BY <1>1, <1>2

\* A later bound is a bound too.
LEMMA BoundedLater ==
  ASSUME NEW F \in Files, NEW s \in Int, NEW t \in Int, s <= t, Bounded(F, s)
  PROVE  Bounded(F, t)
<1> SUFFICES ASSUME NEW f \in File, NEW i \in 1..Len(Entries(F, f))
             PROVE  Entries(F, f)[i].ts <= t
  BY DEF Bounded
<1>1. Entries(F, f)[i].ts <= s
  BY DEF Bounded
<1>2. Entries(F, f)[i] \in Entry
  BY EntriesType
<1>3. Entries(F, f)[i].ts \in Int
  BY <1>2 DEF Entry
<1> QED BY <1>1, <1>3

\* A change of the active log keeps a bound that the new log is within.
LEMMA BoundedActive ==
  ASSUME NEW F \in Files, NEW t, Bounded(F, t), NEW log \in Seq(Entry),
         \A i \in 1..Len(log) : log[i].ts <= t
  PROVE  Bounded([F EXCEPT ![0] = log], t)
<1> DEFINE G == [F EXCEPT ![0] = log]
<1> SUFFICES ASSUME NEW f \in File, NEW i \in 1..Len(Entries(G, f))
             PROVE  Entries(G, f)[i].ts <= t
  BY DEF Bounded
<1>1. 0 \in File
  BY EngineAssumption DEF File
<1>2. CASE f = 0
  <2>1. Entries(G, f) = log
    BY <1>1, <1>2, EngineAssumption DEF Entries, Files
  <2> QED BY <2>1
<1>3. CASE f # 0
  <2>1. Entries(G, f) = Entries(F, f)
    BY <1>1, <1>3 DEF Entries, Files
  <2> QED BY <2>1 DEF Bounded
<1> QED BY <1>2, <1>3

\* Truncating the active log keeps a bound.
LEMMA BoundedTruncated ==
  ASSUME NEW F \in Files, NEW t, Bounded(F, t)
  PROVE  Bounded([F EXCEPT ![0] = <<>>], t)
<1> DEFINE none == <<>>
<1>1. none \in Seq(Entry) /\ \A i \in 1..Len(none) : none[i].ts <= t
  OBVIOUS
<1> HIDE DEF none
<1>2. Bounded([F EXCEPT ![0] = none], t)
  BY <1>1, BoundedActive
<1> QED BY <1>2 DEF none

\* Renaming files, however many renames happened, moves records only.
LEMMA BoundedShifted ==
  ASSUME file \in Files, NEW t, Bounded(file, t), NEW j \in 1..(MaxSegments + 1)
  PROVE  Bounded(Shifted(j), t)
<1>0. MaxSegments \in Nat
  BY EngineAssumption
<1> SUFFICES ASSUME NEW g \in File
             PROVE  \/ Entries(Shifted(j), g) = <<>>
                    \/ \E f \in File : Entries(Shifted(j), g) = Entries(file, f)
  BY BoundedFiles
<1>1. CASE Shifted(j)[g] = Missing
  BY <1>1 DEF Entries
<1>2. CASE \E f \in File : Shifted(j)[g] = file[f]
  BY <1>2 DEF Entries
<1>3. g >= j => g - 1 \in File
  BY <1>0 DEF File
<1>4. Shifted(j)[g] = Missing \/ \E f \in File : Shifted(j)[g] = file[f]
  BY <1>3 DEF Shifted
<1> QED BY <1>1, <1>2, <1>4

\* A power failure cuts the active log short: it adds no record.
LEMMA BoundedCuts ==
  ASSUME file \in Files, synced \in 0..Len(Entries(file, 0)),
         NEW t, Bounded(file, t), NEW F \in PowerCuts
  PROVE  Bounded(F, t)
<1> DEFINE log == Entries(file, 0)
<1>0. 0 \in File /\ log \in Seq(Entry) /\ Len(log) \in Nat
  BY EngineAssumption, EntriesType DEF File
<1>1. PICK s \in Cuts : F = [file EXCEPT ![0] = s]
  BY DEF PowerCuts
<1>2. \A i \in 1..Len(log) : log[i].ts <= t /\ log[i] \in Entry
  BY <1>0 DEF Bounded
<1>3. s \in Seq(Entry) /\ \A i \in 1..Len(s) : s[i].ts <= t
  <2> HIDE DEF log
  <2>1. ASSUME NEW n \in 0..Len(log)
        PROVE  /\ SubSeq(log, 1, n) \in Seq(Entry) /\ Len(SubSeq(log, 1, n)) = n
               /\ \A i \in 1..n : SubSeq(log, 1, n)[i] = log[i]
    BY <1>0, <1>2
  <2>2. CASE \E n \in synced..Len(log) : s = SubSeq(log, 1, n)
    <3>1. PICK n \in synced..Len(log) : s = SubSeq(log, 1, n)
      BY <2>2
    <3>2. n \in 0..Len(log)
      BY <1>0 DEF log
    <3> QED BY <3>1, <3>2, <2>1, <1>0, <1>2
  <2>3. CASE \E n \in synced..(Len(log) - 1) :
               s = Append(SubSeq(log, 1, n), [log[n + 1] EXCEPT !.whole = FALSE])
    <3>1. PICK n \in synced..(Len(log) - 1) :
            s = Append(SubSeq(log, 1, n), [log[n + 1] EXCEPT !.whole = FALSE])
      BY <2>3
    <3> DEFINE a == SubSeq(log, 1, n)
               e == [log[n + 1] EXCEPT !.whole = FALSE]
    <3>2. n \in 0..Len(log) /\ n + 1 \in 1..Len(log)
      BY <1>0 DEF log
    <3>3. e \in Entry /\ e.ts <= t
      BY <3>2, <1>2 DEF Entry
    <3>4. a \in Seq(Entry) /\ Len(a) = n /\ \A i \in 1..n : a[i] = log[i]
      BY <3>2, <2>1
    <3> HIDE DEF a, e
    <3>5. s = Append(a, e)
      BY <3>1 DEF a, e
    <3> QED BY <3>2, <3>3, <3>4, <3>5, <1>0, <1>2
  <2>4. \/ \E n \in synced..Len(log) : s = SubSeq(log, 1, n)
        \/ \E n \in synced..(Len(log) - 1) :
               s = Append(SubSeq(log, 1, n), [log[n + 1] EXCEPT !.whole = FALSE])
    BY DEF Cuts, log
  <2> QED BY <2>2, <2>3, <2>4
<1> QED BY <1>1, <1>3, BoundedActive

\* Where CheckpointWins is promised: a clock that advances, checkpoints on,
\* and no sync or save that fails. A sync that fails while closing leaves the
\* log without a last checkpoint, and a save that fails closes the engine over
\* an older one.
Advancing ==
    /\ MinAdvance = 1
    /\ CheckpointEnabled
    /\ "sync" \notin FsErrors /\ "save" \notin FsErrors

\* A closed engine's checkpoint is later than every record of its log files.
CInv ==
    /\ TInv
    /\ Bounded(file, clock)
    /\ cp.ts <= clock
    /\ op # NoOp => op.ts <= clock
    /\ pc = "reset" => Bounded(file, cp.ts - 1)
    /\ life = "closed" => pc = "idle" /\ Bounded(file, cp.ts - 1)

LEMMA CheckpointInit == Init => CInv
<1> SUFFICES ASSUME Init PROVE CInv
  OBVIOUS
<1>1. Bounded(file, clock)
  BY DEF Init, Bounded, Entries
<1> QED BY <1>1, TypeInit DEF CInv, Init

\* A step that leaves the files, the checkpoint and the clock alone.
LEMMA CheckpointQuiet ==
  ASSUME CInv, TInv', UNCHANGED <<file, cp, clock>>,
         op' = op \/ op' = NoOp,
         pc' # "reset" \/ pc' = pc,
         life' = "closed" =>
             pc' = "idle" /\ (life = "closed" \/ Bounded(file, cp.ts - 1))
  PROVE  CInv'
BY DEF CInv, Bounded, Entries

\* A step that brings new files within the clock, away from a checkpoint.
LEMMA CheckpointFiles ==
  ASSUME CInv, TInv', UNCHANGED <<cp, clock>>, Bounded(file', clock),
         op' = op \/ op' = NoOp,
         pc' # "reset", life' # "closed"
  PROVE  CInv'
<1>1. Bounded(file, clock)'
  BY DEF Bounded, Entries
<1> QED BY <1>1 DEF CInv

LEMMA CheckpointStep ==
  ASSUME Advancing
  PROVE  CInv /\ [Next]_vars => CInv'
<1> SUFFICES ASSUME CInv, [Next]_vars PROVE CInv'
  OBVIOUS
<1>0. /\ MaxSegments \in Nat /\ 0 \in File /\ TInv /\ file \in Files
      /\ synced \in 0..Len(Entries(file, 0))
      /\ clock \in Int /\ cp.ts \in Int
      /\ op # NoOp => op \in Entry
  BY EngineAssumption DEF CInv, TInv, TypeOK, Files, File
<1>1. TInv'
  BY <1>0, TypeStep
<1>2. CASE UNCHANGED vars
  BY <1>1, <1>2, CheckpointQuiet DEF vars, CInv
<1>3. CASE Open
  <2>1. Bounded(file', clock)
    <3>1. Entries(file, 0) \in Seq(Entry)
      BY <1>0, EntriesType
    <3>2. \A i \in 1..Len(Entries(file, 0)) : Entries(file, 0)[i].ts <= clock
      BY <1>0 DEF CInv, Bounded
    <3> QED BY <1>0, <1>3, <3>1, <3>2, BoundedActive DEF Open, CInv
  <2> QED BY <1>1, <1>3, <2>1, CheckpointFiles DEF Open
<1>4. CASE CloseBegin
  BY <1>1, <1>4, CheckpointQuiet DEF CloseBegin
<1>5. CASE CloseWAL
  <2>1. CASE WalSize > 0
    BY <1>1, <1>5, <2>1, CheckpointQuiet DEF CloseWAL, Advancing
  <2>2. CASE ~ (WalSize > 0)
    <3>1. Position(file) = {}
      BY <1>0, <2>2, NothingLogged
    <3>2. Bounded(file, cp.ts - 1)
      <4> SUFFICES ASSUME NEW f \in File, NEW i \in 1..Len(Entries(file, f)) PROVE FALSE
        BY DEF Bounded
      <4>1. <<f, i>> \in Position(file)
        BY DEF Position
      <4> QED BY <3>1, <4>1
    <3> QED BY <1>1, <1>5, <2>2, <3>2, CheckpointQuiet DEF CloseWAL
  <2> QED BY <2>1, <2>2
<1>6. CASE CloseFails
  BY <1>6 DEF CloseFails, Advancing
<1>7. CASE Kill \/ PowerFailure
  <2>1. Down
    BY <1>7 DEF Kill, PowerFailure
  <2>2. file' = file \/ file' \in PowerCuts \/ file' \in Renamed
    BY <1>7 DEF Kill, PowerFailure
  <2>3. Bounded(file', clock)
    <3>1. CASE file' \in Renamed
      <4>1. PICK j \in 1..(MaxSegments + 1) : file' = Shifted(j)
        BY <3>1 DEF Renamed
      <4> QED BY <1>0, <4>1, BoundedShifted DEF CInv
    <3>2. CASE file' \in PowerCuts
      BY <1>0, <3>2, BoundedCuts DEF CInv
    <3> QED BY <2>2, <3>1, <3>2 DEF CInv
  <2> QED BY <1>1, <2>1, <2>3, CheckpointFiles DEF Down
<1>8. ASSUME NEW k \in Key, NEW v \in Val, Begin(k, v)
      PROVE  CInv'
  <2>1. PICK t \in Reading :
           clock' = t /\ op' = [key |-> k, val |-> v, ts |-> t, whole |-> TRUE]
    BY <1>8 DEF Begin
  <2>2. t \in Int /\ clock < t
    BY <1>0, <2>1 DEF Reading, Advancing
  <2>3. UNCHANGED <<life, file, cp>> /\ pc' # "reset" /\ life # "closed"
    BY <1>8 DEF Begin
  <2>4. Bounded(file, t)
    BY <1>0, <2>2, BoundedLater DEF CInv
  <2>5. Bounded(file, clock)'
    BY <2>1, <2>3, <2>4 DEF Bounded, Entries
  <2>6. cp'.ts <= clock' /\ op'.ts <= clock'
    BY <1>0, <2>1, <2>2, <2>3 DEF CInv
  <2> QED BY <1>1, <2>3, <2>5, <2>6 DEF CInv
<1>9. CASE Mutate
  <2>1. CASE RotateWAL \/ RotateFails
    <3>1. \/ file' = [Shifted(1) EXCEPT ![0] = <<>>]
          \/ file' = file
          \/ file' \in Renamed
      BY <2>1 DEF RotateWAL, RotateFails
    <3>2. Bounded(file', clock)
      <4>1. ASSUME NEW j \in 1..(MaxSegments + 1) PROVE Bounded(Shifted(j), clock)
        BY <1>0, BoundedShifted DEF CInv
      <4>2. CASE file' = [Shifted(1) EXCEPT ![0] = <<>>]
        <5>1. Shifted(1) \in Files /\ Bounded(Shifted(1), clock)
          BY <1>0, <4>1, ShiftedType
        <5> QED BY <4>2, <5>1, BoundedTruncated
      <4>3. CASE file' \in Renamed
        BY <4>1, <4>3 DEF Renamed
      <4> QED BY <3>1, <4>2, <4>3 DEF CInv
    <3>3. pc' # "reset" /\ life' # "closed" /\ UNCHANGED <<cp, clock>> /\ (op' = op \/ op' = NoOp)
      BY <2>1 DEF RotateWAL, RotateFails, Abandon, CInv
    <3> QED BY <1>1, <3>2, <3>3, CheckpointFiles
  <2>2. ASSUME pc = "append", wal, NEW e \in Entry, e.ts <= clock,
               file' = [file EXCEPT ![0] = Append(@, e)]
        PROVE  Bounded(file', clock)
    <3>1. file[0] \in Seq(Entry) /\ Entries(file, 0) = file[0]
      BY <1>0, <2>2 DEF TInv, Entries, Files
    <3>2. \A i \in 1..Len(file[0]) : file[0][i].ts <= clock
      BY <1>0, <3>1 DEF CInv, Bounded
    <3> DEFINE log == Append(file[0], e)
    <3>3. log \in Seq(Entry) /\ \A i \in 1..Len(log) : log[i].ts <= clock
      BY <2>2, <3>1, <3>2
    <3>4. file' = [file EXCEPT ![0] = log]
      BY <2>2
    <3> HIDE DEF log
    <3> QED BY <1>0, <3>3, <3>4, BoundedActive DEF CInv
  <2>3. CASE AppendWAL
    <3>1. op \in Entry /\ op.ts <= clock
      BY <1>0, <2>3 DEF AppendWAL, CInv, TInv, TypeOK
    <3>2. Bounded(file', clock)
      BY <2>2, <2>3, <3>1 DEF AppendWAL
    <3> QED BY <1>1, <2>3, <3>2, CheckpointFiles DEF AppendWAL, CInv
  <2>4. CASE AppendFails
    <3>1. CASE UNCHANGED file
      BY <1>1, <2>4, <3>1, CheckpointQuiet DEF AppendFails, Abandon, CInv
    <3>2. CASE file' = [file EXCEPT ![0] = Append(@, [op EXCEPT !.whole = FALSE])]
      <4>1. op \in Entry /\ op.ts <= clock
        BY <1>0, <2>4 DEF AppendFails, CInv, TInv, TypeOK
      <4>2. [op EXCEPT !.whole = FALSE] \in Entry /\ [op EXCEPT !.whole = FALSE].ts <= clock
        BY <4>1 DEF Entry
      <4>3. Bounded(file', clock)
        BY <2>2, <2>4, <3>2, <4>2 DEF AppendFails
      <4> QED BY <1>1, <2>4, <4>3, CheckpointFiles DEF AppendFails, Abandon, CInv
    <3> QED BY <2>4, <3>1, <3>2 DEF AppendFails
  <2>5. CASE AppendSkipped \/ SyncWAL \/ SyncFails \/ Apply
    BY <1>1, <2>5, CheckpointQuiet DEF AppendSkipped, SyncWAL, SyncFails, Apply, Abandon, CInv
  <2> QED BY <1>9, <2>1, <2>3, <2>4, <2>5 DEF Mutate
<1>10. CASE Checkpointing
  <2>1. CASE SaveCheckpoint
    <3>1. PICK t \in Reading : clock' = t /\ cp' = [map |-> store, ts |-> t]
      BY <2>1 DEF SaveCheckpoint
    <3>2. t \in Int /\ clock < t
      BY <1>0, <3>1 DEF Reading, Advancing
    <3>3. file' = file /\ op' = op /\ cp'.ts = t /\ op = NoOp
      BY <1>0, <2>1, <3>1 DEF SaveCheckpoint, TInv, TypeOK
    <3>4. Bounded(file, t) /\ Bounded(file, t - 1)
      BY <1>0, <3>2, BoundedLater DEF CInv
    <3>5. Bounded(file, clock)' /\ Bounded(file, cp.ts - 1)'
      BY <3>1, <3>3, <3>4 DEF Bounded, Entries
    <3>6. life' = "closed" => pc' = "idle"
      BY <2>1 DEF SaveCheckpoint, Release, CInv
    <3> QED BY <1>1, <3>1, <3>2, <3>3, <3>5, <3>6 DEF CInv
  <2>2. CASE SaveFails
    BY <2>2 DEF SaveFails, Advancing
  <2>3. CASE ResetWAL
    <3>1. file' = [file EXCEPT ![0] = <<>>] /\ pc' = "idle" /\ UNCHANGED <<cp, clock, op>>
      BY <2>3 DEF ResetWAL, Release
    <3>2. Bounded(file', clock) /\ Bounded(file', cp.ts - 1)
      BY <1>0, <2>3, <3>1, BoundedTruncated DEF ResetWAL, CInv
    <3>3. Bounded(file, clock)' /\ Bounded(file, cp.ts - 1)'
      BY <3>1, <3>2 DEF Bounded, Entries
    <3> QED BY <1>1, <3>1, <3>3 DEF CInv
  <2>4. CASE ResetFails
    BY <1>1, <2>4, CheckpointQuiet DEF ResetFails, Release, CInv
  <2> QED BY <1>10, <2>1, <2>2, <2>3, <2>4 DEF Checkpointing
<1>11. CASE MaintTick \/ MaintLock \/ MaintExit
  BY <1>1, <1>11, CheckpointQuiet DEF MaintTick, MaintLock, MaintExit, CInv
<1> QED BY <1>2, <1>3, <1>4, <1>5, <1>6, <1>7, <1>8, <1>9, <1>10, <1>11 DEF Next

\* For any number of keys, segments and writes, whatever rotations, kills and
\* power failures came before: an engine closed when its checkpoint held its
\* map opens with that map.
THEOREM CheckpointAuthority ==
  ASSUME Advancing
  PROVE  Spec => CheckpointWins
<1>1. CInv /\ [Next]_vars =>
        (life = "closed" /\ life' = "open" /\ cp.map = store =>
           \A k \in Key : store'[k].val = store[k].val)
  <2> SUFFICES ASSUME CInv, [Next]_vars, life = "closed", life' = "open", cp.map = store,
                      NEW k \in Key
               PROVE  store'[k].val = store[k].val
    OBVIOUS
  <2>1. Open
    <3>1. ~ UNCHANGED vars
      BY DEF vars
    <3>2. ~ (CloseBegin \/ CloseWAL \/ CloseFails \/ Kill \/ PowerFailure)
      BY DEF CloseBegin, CloseWAL, CloseFails, Kill, PowerFailure, Down
    <3>3. ~ (\E x \in Key, v \in Val : Begin(x, v))
      BY DEF Begin
    <3>4. ~ Mutate
      BY DEF Mutate, RotateWAL, RotateFails, AppendWAL, AppendSkipped, AppendFails,
             SyncWAL, SyncFails, Apply
    <3>5. ~ Checkpointing
      BY DEF Checkpointing, SaveCheckpoint, SaveFails, ResetWAL, ResetFails, Release
    <3>6. ~ (MaintTick \/ MaintLock \/ MaintExit)
      BY DEF MaintTick, MaintLock, MaintExit
    <3> QED BY <3>1, <3>2, <3>3, <3>4, <3>5, <3>6 DEF Next
  <2>2. file \in Files /\ cp.ts \in Int
    BY DEF CInv, TInv, TypeOK, Files
  <2>3. Replayed(file, cp, k) = {}
    <3> SUFFICES ASSUME NEW p \in Position(file), ~ Skipped(At(file, p), cp.ts) PROVE FALSE
      BY DEF Replayed
    <3>1. At(file, p).ts <= cp.ts - 1
      BY <2>2, AtType DEF CInv, Bounded, At
    <3>2. At(file, p).ts \in Int
      BY <2>2, AtType DEF Entry
    <3> QED BY <2>2, <3>1, <3>2 DEF Skipped
  <2>4. store' = Recovered(file, cp)
    BY <2>1 DEF Open
  <2> QED BY <2>3, <2>4 DEF Recovered
<1>2. CInv /\ [Next]_vars =>
        [life = "closed" /\ life' = "open" /\ cp.map = store =>
           \A k \in Key : store'[k].val = store[k].val]_vars
  BY <1>1
<1> QED BY <1>2, CheckpointInit, CheckpointStep, PTL DEF Spec, CheckpointWins
=============================================================================
