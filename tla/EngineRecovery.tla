---------------------------- MODULE EngineRecovery ----------------------------
(***************************************************************************)
(* Why the engine without rotation recovers: an inductive invariant and    *)
(* the proof that a restart finds every applied write, whatever the crash. *)
(***************************************************************************)
EXTENDS Engine, EngineProofs, TLAPS

\* The configurations the theorems are about: no rotation, a clock that does
\* not step back, a log that can be reopened after its truncation, and an
\* fsync on every write where power may fail.
SafeConfig ==
    /\ ~RotationOn
    /\ MinAdvance >= 0
    /\ "reopen" \notin FsErrors
    /\ PowerLoss => SyncOnWrite

\* The records among the first n of a log that replay keeps for key k.
Hits(log, n, since, k) ==
    {i \in 1..n : log[i].key = k /\ ~Skipped(log[i], since)}

\* Checkpoint c and the first n records of log give each key a possible value.
Restores(log, n, c, may) ==
    \A k \in Key :
        /\ Hits(log, n, c.ts, k) = {} => c.map[k].val \in may[k]
        /\ \A i \in Hits(log, n, c.ts, k) :
             (\A j \in Hits(log, n, c.ts, k) : j <= i) => log[i].val \in may[k]

\* A crash keeps at least this much of the active log.
Floor == IF PowerLoss THEN synced ELSE Len(file[0])

OnlyActive == file[0] # Missing /\ \A f \in File : f # 0 => file[f] = Missing

Locked ==
    /\ pc # "rotate"
    /\ life = "open" => wal
    /\ pc \in {"append", "sync", "apply"} => life = "open"
    /\ pc # "idle" => life \in {"open", "closing"}

Clocked ==
    /\ cp.ts <= clock
    /\ op # NoOp => op.ts = clock
    /\ \A i \in 1..Len(file[0]) : file[0][i].ts <= clock
    /\ \A i, j \in 1..Len(file[0]) : i <= j => file[0][i].ts <= file[0][j].ts

\* What is served may be found by a restart.
Served == life # "down" => \A k \in Key : store[k].val \in possible[k]

\* A mutation about to be applied is logged, and fsynced if it has to be.
InFlight ==
    /\ pc \in {"sync", "apply"} => Len(file[0]) > 0 /\ file[0][Len(file[0])] = op
    /\ pc = "apply" /\ SyncOnWrite => synced = Len(file[0])
    /\ pc = "reset" => cp.map = store

\* Every prefix a crash can leave restores possible values.
Restorable ==
    \A n \in Floor..Len(file[0]) :
        (\A i \in 1..n : file[0][i].whole) => Restores(file[0], n, cp, possible)

IInv ==
    /\ TInv /\ OnlyActive /\ Locked /\ Clocked
    /\ Served /\ InFlight /\ Restorable

----------------------------------------------------------------------------
(* Replay of a log without segments.                                       *)

Stamped == [map : [Key -> Record], ts : Int]

OneLog(F) == F \in Files /\ F[0] # Missing /\ \A f \in File : f # 0 => F[f] = Missing

LEMMA OneLogType ==
  ASSUME NEW F, OneLog(F)
  PROVE  /\ 0 \in File /\ MaxSegments \in Nat
         /\ F[0] \in Seq(Entry) /\ Len(F[0]) \in Nat
         /\ Entries(F, 0) = F[0]
         /\ \A i \in 1..Len(F[0]) : F[0][i] \in Entry
<1>1. 0 \in File /\ MaxSegments \in Nat
  BY EngineAssumption DEF File
<1>2. F[0] \in Seq(Entry)
  BY <1>1 DEF OneLog, Files
<1> QED BY <1>1, <1>2 DEF OneLog, Entries

LEMMA OneLogPositions ==
  ASSUME NEW F, OneLog(F)
  PROVE  /\ \A p \in Position(F) : p = <<0, p[2]>> /\ p[2] \in 1..Len(F[0])
                                    /\ At(F, p) = F[0][p[2]]
         /\ \A i \in 1..Len(F[0]) : <<0, i>> \in Position(F) /\ At(F, <<0, i>>) = F[0][i]
<1>1. Entries(F, 0) = F[0] /\ 0 \in File /\ F \in Files
  BY OneLogType DEF OneLog
<1>2. ASSUME NEW p \in Position(F)
      PROVE  p = <<0, p[2]>> /\ p[2] \in 1..Len(F[0]) /\ At(F, p) = F[0][p[2]]
  <2>1. p[1] \in File /\ p[2] \in 1..Len(Entries(F, p[1])) /\ p = <<p[1], p[2]>>
    BY <1>1, AtType
  <2>2. p[1] = 0
    <3>1. CASE p[1] # 0
      <4>1. Entries(F, p[1]) = <<>>
        BY <2>1, <3>1 DEF OneLog, Entries
      <4>2. p[2] \in 1..0
        BY <2>1, <4>1
      <4> QED BY <4>2
    <3> QED BY <3>1
  <2> QED BY <2>1, <2>2, <1>1 DEF At
<1>3. ASSUME NEW i \in 1..Len(F[0])
      PROVE  <<0, i>> \in Position(F) /\ At(F, <<0, i>>) = F[0][i]
  BY <1>1 DEF Position, At
<1> QED BY <1>2, <1>3

\* A log that decodes has no torn record.
LEMMA ReadableLog ==
  ASSUME NEW F, OneLog(F), Readable(F)
  PROVE  \A i \in 1..Len(F[0]) : F[0][i].whole
<1> TAKE i \in 1..Len(F[0])
<1>1. <<0, i>> \in Position(F) /\ At(F, <<0, i>>) = F[0][i]
  BY OneLogPositions
<1>2. At(F, <<0, i>>).whole
  BY <1>1, Zenon DEF Readable
<1> QED BY <1>1, <1>2, Zenon

\* Replay gives a key its last hit, or the checkpoint's record.
LEMMA RecoveredLog ==
  ASSUME NEW F, OneLog(F), NEW c \in Stamped, NEW k \in Key
  PROVE  LET H == Hits(F[0], Len(F[0]), c.ts, k)
         IN  /\ H = {} => Recovered(F, c)[k] = c.map[k]
             /\ H # {} => \E i \in H : /\ \A j \in H : j <= i
                                      /\ Recovered(F, c)[k].val = F[0][i].val
<1> DEFINE H == Hits(F[0], Len(F[0]), c.ts, k)
           P == Replayed(F, c, k)
<1>1. /\ \A p \in P : p = <<0, p[2]>> /\ p[2] \in H /\ At(F, p) = F[0][p[2]]
      /\ \A i \in H : <<0, i>> \in P
  BY OneLogPositions DEF Replayed, Hits
<1>2. CASE H = {}
  <2>1. P = {}
    BY <1>1, <1>2
  <2> QED BY <1>2, <2>1 DEF Recovered
<1>3. CASE H # {}
  <2>1. P # {} /\ P \subseteq Position(F) /\ F \in Files
    BY <1>1, <1>3 DEF Replayed, OneLog
  <2>2. LastRead(P) \in P /\ \A q \in P : ReadNoEarlier(LastRead(P), q)
    BY <2>1, LastReadExists
  <2>3. PICK t \in P : t = LastRead(P) /\ \A q \in P : ReadNoEarlier(t, q)
    BY <2>2
  <2>4. t = <<0, t[2]>> /\ t[2] \in H /\ At(F, t) = F[0][t[2]]
    BY <1>1
  <2>5. ASSUME NEW j \in H PROVE j <= t[2]
    <3>1. ReadNoEarlier(t, <<0, j>>)
      BY <1>1, <2>3
    <3>2. <<0, j>>[1] = 0 /\ <<0, j>>[2] = j /\ t[1] = 0
      BY <2>4
    <3>3. Rank(0) \in Int
      BY EngineAssumption DEF Rank
    <3>4. j \in Int /\ t[2] \in Int
      BY <2>4 DEF Hits
    <3> QED BY <3>1, <3>2, <3>3, <3>4 DEF ReadNoEarlier
  <2>6. Recovered(F, c)[k].val = F[0][t[2]].val
    BY <2>1, <2>3, <2>4 DEF Recovered
  <2> QED BY <1>3, <2>4, <2>5, <2>6
<1> QED BY <1>2, <1>3

\* Restores says what its name claims about a whole log.
LEMMA RestoredValues ==
  ASSUME NEW F, OneLog(F), NEW c \in Stamped, NEW may,
         Restores(F[0], Len(F[0]), c, may)
  PROVE  \A k \in Key : Recovered(F, c)[k].val \in may[k]
<1> SUFFICES ASSUME NEW k \in Key
             PROVE  Recovered(F, c)[k].val \in may[k]
  OBVIOUS
<1> DEFINE H == Hits(F[0], Len(F[0]), c.ts, k)
<1>1. /\ H = {} => c.map[k].val \in may[k]
      /\ \A i \in H : (\A j \in H : j <= i) => F[0][i].val \in may[k]
  BY DEF Restores
<1>2. /\ H = {} => Recovered(F, c)[k] = c.map[k]
      /\ H # {} => \E i \in H : /\ \A j \in H : j <= i
                               /\ Recovered(F, c)[k].val = F[0][i].val
  BY RecoveredLog
<1> HIDE DEF H
<1> QED BY <1>1, <1>2

----------------------------------------------------------------------------
(* How the steps change what a prefix restores.                            *)

\* Only the first n records count.
LEMMA RestoresPrefix ==
  ASSUME NEW L, NEW M, NEW n \in Nat, NEW c, NEW may,
         \A i \in 1..n : L[i] = M[i],
         Restores(L, n, c, may)
  PROVE  Restores(M, n, c, may)
<1>1. \A k \in Key : Hits(M, n, c.ts, k) = Hits(L, n, c.ts, k)
  BY DEF Hits
<1>2. \A k \in Key : \A i \in Hits(L, n, c.ts, k) : M[i] = L[i]
  BY DEF Hits
<1> QED BY <1>1, <1>2 DEF Restores

\* A record added for key x makes its value the only one x needs.
LEMMA RestoresAppended ==
  ASSUME NEW L, NEW n \in Nat, NEW c, NEW may, NEW will, NEW x \in Key,
         Restores(L, n, c, may),
         L[n + 1].key = x, ~Skipped(L[n + 1], c.ts),
         L[n + 1].val \in will[x],
         \A k \in Key : k # x => may[k] \subseteq will[k]
  PROVE  Restores(L, n + 1, c, will)
<1> SUFFICES ASSUME NEW k \in Key
             PROVE  /\ Hits(L, n + 1, c.ts, k) = {} => c.map[k].val \in will[k]
                    /\ \A i \in Hits(L, n + 1, c.ts, k) :
                         (\A j \in Hits(L, n + 1, c.ts, k) : j <= i) => L[i].val \in will[k]
  BY DEF Restores
<1>1. CASE k = x
  <2>1. n + 1 \in Hits(L, n + 1, c.ts, k)
    BY <1>1 DEF Hits
  <2>2. ASSUME NEW i \in Hits(L, n + 1, c.ts, k),
               \A j \in Hits(L, n + 1, c.ts, k) : j <= i
        PROVE  i = n + 1
    <3>1. n + 1 <= i /\ i \in 1..(n + 1)
      BY <2>1, <2>2 DEF Hits
    <3> QED BY <3>1
  <2> QED BY <1>1, <2>1, <2>2
<1>2. CASE k # x
  <2>1. Hits(L, n + 1, c.ts, k) = Hits(L, n, c.ts, k)
    BY <1>2 DEF Hits
  <2> QED BY <1>2, <2>1 DEF Restores
<1> QED BY <1>1, <1>2

\* A checkpoint of a map of possible values may replace the one before it.
LEMMA RestoresSaved ==
  ASSUME NEW L \in Seq(Entry), NEW n \in 0..Len(L), NEW c, NEW may, NEW map, NEW t \in Int,
         c.ts \in Int, c.ts <= t,
         \A i \in 1..Len(L) : L[i].ts \in Int /\ L[i].ts <= t,
         \A i, j \in 1..Len(L) : i <= j => L[i].ts <= L[j].ts,
         \A k \in Key : map[k].val \in may[k],
         Restores(L, n, c, may)
  PROVE  Restores(L, n, [map |-> map, ts |-> t], may)
<1> DEFINE d == [map |-> map, ts |-> t]
<1> SUFFICES ASSUME NEW k \in Key
             PROVE  /\ Hits(L, n, t, k) = {} => map[k].val \in may[k]
                    /\ \A i \in Hits(L, n, t, k) :
                         (\A j \in Hits(L, n, t, k) : j <= i) => L[i].val \in may[k]
  BY DEF Restores
<1> SUFFICES ASSUME NEW i \in Hits(L, n, t, k), \A j \in Hits(L, n, t, k) : j <= i
             PROVE  L[i].val \in may[k]
  OBVIOUS
<1>1. /\ \A j \in 1..n : j \in 1..Len(L) /\ j \in Int
      /\ i \in 1..n /\ L[i].key = k /\ ~(L[i].ts < t)
  BY DEF Hits, Skipped
<1>2. L[i].ts = t /\ i \in 1..Len(L) /\ i \in Int
  BY <1>1
<1>3. i \in Hits(L, n, c.ts, k)
  BY <1>1, <1>2 DEF Hits, Skipped
<1>4. ASSUME NEW j \in Hits(L, n, c.ts, k) PROVE j <= i
  <2>1. j \in 1..n /\ L[j].key = k /\ j \in 1..Len(L) /\ j \in Int
    BY <1>1 DEF Hits
  <2>2. CASE i <= j
    <3>1. L[i].ts <= L[j].ts
      BY <1>2, <2>1, <2>2
    <3>2. ~(L[j].ts < t)
      BY <1>2, <2>1, <3>1
    <3>3. j \in Hits(L, n, t, k)
      BY <2>1, <3>2 DEF Hits, Skipped
    <3> QED BY <3>3
  <2>3. CASE ~(i <= j)
    BY <1>2, <2>1, <2>3
  <2> QED BY <2>2, <2>3
<1> QED BY <1>3, <1>4 DEF Restores

----------------------------------------------------------------------------
(* The invariant is inductive.                                             *)

LEMMA RecoveryInit == Init => IInv
<1> SUFFICES ASSUME Init PROVE IInv
  OBVIOUS
<1>1. TInv
  BY TypeInit
<1>2. /\ life = "down" /\ pc = "idle" /\ op = NoOp /\ clock = 1 /\ synced = 0
      /\ cp = [map |-> NoStore, ts |-> 0] /\ store = NoStore
      /\ possible = [k \in Key |-> {NoValue}]
  BY DEF Init
<1>3. OnlyActive /\ file[0] = <<>> /\ Len(file[0]) = 0
  <2>1. <<>> \in Seq(Entry)
    OBVIOUS
  <2>2. <<>> # Missing
    BY <2>1, EngineAssumption, Zenon
  <2>3. 0 \in File
    BY EngineAssumption DEF File
  <2>4. file[0] = <<>> /\ \A f \in File : f # 0 => file[f] = Missing
    BY <2>3 DEF Init
  <2> QED BY <2>2, <2>4 DEF OnlyActive
<1>4. Locked /\ Clocked /\ Served /\ InFlight
  BY <1>2, <1>3 DEF Locked, Clocked, Served, InFlight
<1>5. ASSUME NEW n \in Floor..Len(file[0])
      PROVE  Restores(file[0], n, cp, possible)
  <2>1. n \in Int /\ n <= 0
    BY <1>2, <1>3 DEF Floor
  <2>2. \A k \in Key : Hits(file[0], n, cp.ts, k) = {}
    BY <2>1 DEF Hits
  <2> QED BY <1>2, <2>2 DEF Restores, NoStore, Absent
<1> QED BY <1>1, <1>3, <1>4, <1>5 DEF IInv, Restorable

\* Steps that leave the files and the promises alone.
LEMMA QuietStep ==
  ASSUME OnlyActive, Restorable, UNCHANGED <<file, synced, cp, possible>>
  PROVE  OnlyActive' /\ Restorable'
BY DEF OnlyActive, Restorable, Floor

\* Steps that leave the clocks alone.
LEMMA ClockStep ==
  ASSUME Clocked, UNCHANGED <<file, cp, clock>>, op' \in {op, NoOp}
  PROVE  Clocked'
BY DEF Clocked

LEMMA StepLife ==
  ASSUME SafeConfig, IInv, TInv',
         Open \/ CloseBegin \/ CloseWAL \/ CloseFails \/ Kill \/ PowerFailure
  PROVE  IInv'
<1> USE DEF IInv
<1>0. /\ OneLog(file) /\ file \in Files /\ TypeOK
      /\ cp \in Stamped
      /\ 0 \in File
  BY EngineAssumption DEF TInv, TypeOK, OnlyActive, OneLog, Files, Stamped, File
<1>1. file[0] \in Seq(Entry) /\ Entries(file, 0) = file[0] /\ Len(file[0]) \in Nat
      /\ synced \in 0..Len(file[0])
  BY <1>0, OneLogType DEF TypeOK
<1>2. Renamed = {}
  BY DEF Renamed, Locked
<1>3. CASE Open
  <2>1. file' = file
    <3>1. [file EXCEPT ![0] = file[0]] = file
      BY <1>0 DEF Files
    <3> QED BY <1>1, <1>3, <3>1 DEF Open
  <2>2. UNCHANGED <<synced, cp, clock, pc, op, possible>> /\ life' = "open" /\ wal' = TRUE
        /\ pc = "idle" /\ store' = Recovered(file, cp)
    BY <1>3 DEF Open
  <2>3. OnlyActive' /\ Restorable' /\ Clocked'
    BY <2>1, <2>2, QuietStep, ClockStep
  <2>4. Served'
    <3>1. \A i \in 1..Len(file[0]) : file[0][i].whole
      BY <1>0, <1>3, ReadableLog DEF Open
    <3>2. Restores(file[0], Len(file[0]), cp, possible)
      BY <1>1, <3>1 DEF Restorable, Floor
    <3>3. \A k \in Key : Recovered(file, cp)[k].val \in possible[k]
      BY <1>0, <3>2, RestoredValues
    <3> QED BY <2>2, <3>3 DEF Served
  <2>5. Locked' /\ InFlight'
    BY <2>2 DEF Locked, InFlight
  <2> QED BY <2>3, <2>4, <2>5
<1>4. CASE CloseBegin
  <2>1. UNCHANGED <<file, synced, cp, clock, pc, op, possible, store>> /\ pc = "idle"
        /\ life' = "closing" /\ life = "open"
    BY <1>4 DEF CloseBegin
  <2>2. OnlyActive' /\ Restorable' /\ Clocked'
    BY <2>1, QuietStep, ClockStep
  <2>3. Locked' /\ InFlight' /\ Served'
    BY <2>1 DEF Locked, InFlight, Served
  <2> QED BY <2>2, <2>3
<1>5. CASE CloseWAL
  <2>1. /\ UNCHANGED <<file, cp, clock, op, possible, store>>
        /\ life = "closing" /\ pc = "idle" /\ synced' = Len(file[0])
        /\ \/ pc' = "save" /\ life' = life
           \/ pc' = "idle" /\ life' = "closed"
    BY <1>1, <1>5 DEF CloseWAL
  <2>2. OnlyActive' /\ Clocked'
    BY <2>1, ClockStep DEF OnlyActive
  <2>3. Restorable'
    BY <1>1, <2>1 DEF Restorable, Floor
  <2>4. Locked' /\ InFlight' /\ Served'
    BY <2>1 DEF Locked, InFlight, Served
  <2> QED BY <2>2, <2>3, <2>4
<1>6. CASE CloseFails
  <2>1. UNCHANGED <<file, synced, cp, clock, pc, op, possible, store>> /\ pc = "idle"
        /\ life' = "closed" /\ life = "closing"
    BY <1>6 DEF CloseFails
  <2>2. OnlyActive' /\ Restorable' /\ Clocked'
    BY <2>1, QuietStep, ClockStep
  <2>3. Locked' /\ InFlight' /\ Served'
    BY <2>1 DEF Locked, InFlight, Served
  <2> QED BY <2>2, <2>3
<1>7. CASE Kill
  <2>1. UNCHANGED <<file, synced, cp, clock, possible>> /\ pc' = "idle" /\ op' = NoOp
        /\ life' = "down"
    BY <1>2, <1>7 DEF Kill, Down
  <2>2. OnlyActive' /\ Restorable' /\ Clocked'
    BY <2>1, QuietStep, ClockStep
  <2>3. Locked' /\ InFlight' /\ Served'
    BY <2>1 DEF Locked, InFlight, Served
  <2> QED BY <2>2, <2>3
<1>8. CASE PowerFailure
  <2> DEFINE log == file[0]
  <2>1. /\ UNCHANGED <<cp, clock, possible>> /\ pc' = "idle" /\ op' = NoOp
        /\ life' = "down" /\ PowerLoss /\ file' \in PowerCuts
        /\ synced' = Len(Entries(file', 0))
    BY <1>2, <1>8 DEF PowerFailure, Down
  <2>2. PICK s \in Cuts : file' = [file EXCEPT ![0] = s]
    BY <2>1 DEF PowerCuts
  <2>3. file' \in Files /\ file'[0] = s
    BY <1>0, <2>1, <2>2, PowerCutsType DEF TypeOK
  <2>4. PICK n \in synced..Len(log) :
           \/ s = SubSeq(log, 1, n)
           \/ n < Len(log) /\ s = Append(SubSeq(log, 1, n), [log[n + 1] EXCEPT !.whole = FALSE])
    <3>1. CASE s \in {SubSeq(log, 1, n) : n \in synced..Len(log)}
      BY <3>1
    <3>2. CASE s \in {Append(SubSeq(log, 1, n), [log[n + 1] EXCEPT !.whole = FALSE])
                        : n \in synced..(Len(log) - 1)}
      <4>1. PICK n \in synced..(Len(log) - 1) :
               s = Append(SubSeq(log, 1, n), [log[n + 1] EXCEPT !.whole = FALSE])
        BY <3>2
      <4>2. n \in synced..Len(log) /\ n < Len(log)
        BY <1>1
      <4> QED BY <4>1, <4>2
    <3> QED BY <1>1, <2>2, <3>1, <3>2 DEF Cuts
  <2>5. /\ n \in Nat /\ n <= Len(log) /\ synced <= n
        /\ Len(SubSeq(log, 1, n)) = n
        /\ \A i \in 1..n : SubSeq(log, 1, n)[i] = log[i]
        /\ SubSeq(log, 1, n) \in Seq(Entry)
        /\ \A i \in 1..Len(log) : log[i] \in Entry
    BY <1>1, <2>4
  <2>6. /\ Len(s) >= n /\ \A i \in 1..n : s[i] = log[i]
        /\ \/ Len(s) = n
           \/ /\ Len(s) = n + 1 /\ n < Len(log)
              /\ s[n + 1].ts = log[n + 1].ts /\ s[n + 1].whole = FALSE
        /\ s \in Seq(Entry)
    <3>1. CASE s = SubSeq(log, 1, n)
      BY <2>5, <3>1
    <3>2. CASE n < Len(log) /\ s = Append(SubSeq(log, 1, n), [log[n + 1] EXCEPT !.whole = FALSE])
      <4> DEFINE a == SubSeq(log, 1, n)
                 e == [log[n + 1] EXCEPT !.whole = FALSE]
      <4>1. log[n + 1] \in Entry
        BY <2>5, <3>2
      <4>2. e \in Entry /\ e.ts = log[n + 1].ts /\ e.whole = FALSE
        BY <4>1 DEF Entry
      <4>3. a \in Seq(Entry) /\ Len(a) = n /\ \A i \in 1..n : a[i] = log[i]
        BY <2>5
      <4> HIDE DEF a, e
      <4>4. Append(a, e) \in Seq(Entry) /\ Len(Append(a, e)) = n + 1
            /\ Append(a, e)[n + 1] = e /\ \A i \in 1..n : Append(a, e)[i] = a[i]
        BY <4>2, <4>3, <2>5
      <4>5. s = Append(a, e)
        BY <3>2 DEF a, e
      <4> QED BY <2>5, <3>2, <4>2, <4>3, <4>4, <4>5
    <3> QED BY <2>4, <3>1, <3>2
  <2> HIDE DEF log
  <2>7. s # Missing /\ OnlyActive'
    <3>1. s # Missing
      BY <2>6, EngineAssumption, Zenon
    <3>2. \A f \in File : f # 0 => file'[f] = Missing
      BY <1>0, <2>2 DEF OnlyActive, Files
    <3> QED BY <2>3, <3>1, <3>2 DEF OnlyActive
  <2>8. synced' = Len(s)
    BY <2>1, <2>3, <2>7 DEF Entries
  <2>9. Clocked'
    <3>1. \A i \in 1..Len(s) : i \in 1..Len(log) /\ s[i].ts = log[i].ts
      BY <2>5, <2>6, <1>1
    <3> QED BY <2>1, <2>3, <3>1 DEF Clocked, log
  <2>10. Restorable'
    <3> SUFFICES ASSUME \A i \in 1..Len(s) : s[i].whole
                 PROVE  Restores(s, Len(s), cp, possible)
      <4>1. Floor' = Len(s)
        BY <2>1, <2>8 DEF Floor
      <4>2. \A m \in Len(s)..Len(s) : m = Len(s)
        BY <2>6
      <4> QED BY <2>1, <2>3, <4>1, <4>2 DEF Restorable
    <3>1. Len(s) = n
      BY <2>5, <2>6
    <3>2. \A i \in 1..n : log[i].whole
      BY <2>6, <3>1
    <3>3. Restores(log, n, cp, possible)
      BY <2>1, <2>4, <3>2 DEF Restorable, Floor, log
    <3> QED BY <2>5, <2>6, <3>1, <3>3, RestoresPrefix
  <2>11. Locked' /\ InFlight' /\ Served'
    BY <2>1 DEF Locked, InFlight, Served
  <2> QED BY <2>7, <2>9, <2>10, <2>11
<1> QED BY <1>3, <1>4, <1>5, <1>6, <1>7, <1>8

LEMMA StepBegin ==
  ASSUME SafeConfig, IInv, TInv', NEW k \in Key, NEW v \in Val, Begin(k, v)
  PROVE  IInv'
<1> USE DEF IInv
<1>1. PICK t \in Reading : clock' = t /\ op'.ts = t
  BY DEF Begin
<1>2. t \in Int /\ clock <= t /\ clock \in Int
  BY <1>1, EngineAssumption DEF SafeConfig, Reading, TInv, TypeOK
<1>3. /\ UNCHANGED <<life, wal, store, file, synced, cp, possible>>
      /\ pc' = "append" /\ life = "open"
  BY DEF Begin, RotationDue, SafeConfig
<1>4. OnlyActive' /\ Restorable'
  BY <1>3, QuietStep
<1>5. Clocked'
  <2>1. OneLog(file) /\ cp.ts \in Int
    BY DEF TInv, TypeOK, OnlyActive, OneLog, Files
  <2>2. \A i \in 1..Len(file[0]) : file[0][i].ts \in Int
    BY <2>1, OneLogType DEF Entry
  <2>3. /\ cp.ts <= clock /\ \A i \in 1..Len(file[0]) : file[0][i].ts <= clock
        /\ \A i, j \in 1..Len(file[0]) : i <= j => file[0][i].ts <= file[0][j].ts
    BY DEF Clocked
  <2>4. cp.ts <= clock' /\ \A i \in 1..Len(file[0]) : file[0][i].ts <= clock'
    BY <1>1, <1>2, <2>1, <2>2, <2>3
  <2>5. op'.ts = clock'
    BY <1>1
  <2> QED BY <1>3, <2>3, <2>4, <2>5 DEF Clocked
<1>6. Locked' /\ InFlight' /\ Served'
  BY <1>3 DEF Locked, InFlight, Served
<1> QED BY <1>4, <1>5, <1>6

LEMMA StepMutate ==
  ASSUME SafeConfig, IInv, TInv', Mutate
  PROVE  IInv'
<1> USE DEF IInv
<1> DEFINE log == file[0]
           n   == Len(log)
<1>0. /\ OneLog(file) /\ TypeOK /\ file \in Files /\ 0 \in File
      /\ cp.ts \in Int /\ clock \in Int
      /\ pc # "rotate"
  BY EngineAssumption DEF TInv, TypeOK, OnlyActive, OneLog, Files, File, Locked
<1>1. /\ log \in Seq(Entry) /\ n \in Nat /\ Entries(file, 0) = log
      /\ \A i \in 1..n : log[i] \in Entry /\ log[i].ts \in Int
      /\ synced \in 0..n
  BY <1>0, OneLogType DEF TypeOK, Entry
<1>2. ASSUME NEW e \in Entry, file' = [file EXCEPT ![0] = Append(@, e)]
      PROVE  /\ file'[0] \in Seq(Entry) /\ Len(file'[0]) = n + 1
             /\ \A i \in 1..n : file'[0][i] = log[i]
             /\ file'[0][n + 1] = e
             /\ OnlyActive'
  <2>1. file'[0] = Append(log, e) /\ \A f \in File : f # 0 => file'[f] = file[f]
    BY <1>0, <1>2 DEF Files
  <2> HIDE DEF log
  <2>2. /\ Append(log, e) \in Seq(Entry) /\ Len(Append(log, e)) = Len(log) + 1
        /\ \A i \in 1..Len(log) : Append(log, e)[i] = log[i]
        /\ Append(log, e)[Len(log) + 1] = e
    BY <1>1
  <2>3. Append(log, e) # Missing
    BY <2>2, EngineAssumption, Zenon
  <2> QED BY <2>1, <2>2, <2>3 DEF OnlyActive
<1>3. ASSUME NEW e \in Entry, file' = [file EXCEPT ![0] = Append(@, e)],
             e.ts = clock, UNCHANGED <<cp, clock>>, op' \in {op, NoOp}
      PROVE  Clocked'
  <2>1. \A i \in 1..Len(file'[0]) : i \in 1..n \/ i = n + 1
    BY <1>1, <1>2, <1>3
  <2>2. \A i \in 1..Len(file'[0]) : file'[0][i].ts <= clock
    BY <2>1, <1>0, <1>2, <1>3 DEF Clocked
  <2>3. ASSUME NEW i \in 1..Len(file'[0]), NEW j \in 1..Len(file'[0]), i <= j
        PROVE  file'[0][i].ts <= file'[0][j].ts
    <3>1. CASE j = n + 1
      BY <3>1, <2>2, <1>2, <1>3
    <3>2. CASE j # n + 1
      <4>1. i \in 1..n /\ j \in 1..n
        BY <1>1, <2>1, <2>3, <3>2
      <4> QED BY <4>1, <2>3, <1>2, <1>3 DEF Clocked
    <3> QED BY <3>1, <3>2
  <2> QED BY <1>3, <2>2, <2>3 DEF Clocked
<1>4. CASE RotateWAL \/ RotateFails
  BY <1>0, <1>4 DEF RotateWAL, RotateFails
<1>5. CASE AppendWAL
  <2>1. /\ op \in Entry /\ op.key \in Key /\ op.val \in Val /\ op.ts = clock
        /\ life = "open" /\ UNCHANGED <<life, wal, store, synced, cp, clock, op>>
        /\ file' = [file EXCEPT ![0] = Append(@, op)]
        /\ possible' = [possible EXCEPT ![op.key] = @ \union {op.val}]
        /\ pc' = IF SyncOnWrite THEN "sync" ELSE "apply"
    BY <1>0, <1>5 DEF AppendWAL, TypeOK, Entry, Clocked, Locked
  <2>2. /\ file'[0] \in Seq(Entry) /\ Len(file'[0]) = n + 1
        /\ \A i \in 1..n : file'[0][i] = log[i]
        /\ file'[0][n + 1] = op
        /\ OnlyActive' /\ Clocked'
    BY <1>2, <1>3, <2>1
  <2>3. /\ \A k \in Key : possible[k] \subseteq possible'[k]
        /\ op.val \in possible'[op.key]
    BY <1>0, <2>1 DEF TypeOK
  <2>4. Served'
    BY <2>1, <2>3 DEF Served
  <2>5. Locked' /\ InFlight'
    BY <1>1, <2>1, <2>2 DEF Locked, InFlight
  <2>6. ASSUME NEW m \in Floor'..(n + 1), \A i \in 1..m : file'[0][i].whole
        PROVE  Restores(file'[0], m, cp, possible')
    <3>0. m \in Nat /\ m <= n + 1 /\ (m <= n => PowerLoss /\ synced <= m)
      BY <1>1, <2>1, <2>2 DEF Floor
    <3>1. CASE m <= n
      <4>1. m \in Floor..n
        BY <3>0, <3>1, <1>1 DEF Floor
      <4>2. \A i \in 1..m : log[i].whole /\ log[i] = file'[0][i]
        BY <2>2, <2>6, <3>0, <3>1, <1>1
      <4>3. Restores(log, m, cp, possible)
        BY <4>1, <4>2 DEF Restorable
      <4>4. Restores(log, m, cp, possible')
        BY <4>3, <2>3 DEF Restores
      <4> HIDE DEF log
      <4> QED BY <4>2, <4>4, <3>0, RestoresPrefix
    <3>2. CASE m = n + 1
      <4>1. n \in Floor..n /\ \A i \in 1..n : log[i].whole /\ log[i] = file'[0][i]
        BY <1>1, <2>2, <2>6, <3>2 DEF Floor
      <4>2. Restores(log, n, cp, possible)
        BY <4>1 DEF Restorable
      <4>3. Restores(file'[0], n, cp, possible)
        <5> HIDE DEF log, n
        <5> QED BY <4>1, <4>2, <1>1, RestoresPrefix
      <4>4. ~Skipped(file'[0][n + 1], cp.ts)
        BY <1>0, <2>1, <2>2 DEF Clocked, Skipped
      <4>5. Restores(file'[0], n + 1, cp, possible')
        <5> DEFINE new == file'[0]
                   x   == op.key
        <5>1. /\ n \in Nat /\ x \in Key
              /\ new[n + 1].key = x /\ new[n + 1].val \in possible'[x]
              /\ \A k \in Key : k # x => possible[k] \subseteq possible'[k]
          BY <2>1, <2>2, <2>3, <1>1
        <5>2. Restores(new, n, cp, possible) /\ ~Skipped(new[n + 1], cp.ts)
          BY <4>3, <4>4
        <5> HIDE DEF n, new, x
        <5>3. Restores(new, n + 1, cp, possible')
          BY <5>1, <5>2, RestoresAppended
        <5> QED BY <5>3 DEF new
      <4> QED BY <3>2, <4>5
    <3> QED BY <3>0, <3>1, <3>2, <1>1
  <2>7. Restorable'
    BY <2>1, <2>2, <2>6 DEF Restorable
  <2> QED BY <2>2, <2>4, <2>5, <2>7
<1>6. CASE AppendSkipped
  BY <1>6 DEF AppendSkipped, Locked
<1>7. CASE AppendFails
  <2>1. /\ op \in Entry /\ op.ts = clock /\ op' = NoOp /\ pc' = "idle" /\ life = "open"
        /\ UNCHANGED <<life, wal, store, synced, cp, clock, possible>>
    BY <1>0, <1>7 DEF AppendFails, Abandon, TypeOK, Clocked, Locked
  <2>2. Served' /\ Locked' /\ InFlight'
    BY <2>1 DEF Served, Locked, InFlight
  <2>3. CASE UNCHANGED file
    BY <2>1, <2>2, <2>3, QuietStep, ClockStep
  <2>4. CASE file' = [file EXCEPT ![0] = Append(@, [op EXCEPT !.whole = FALSE])]
    <3> DEFINE e == [op EXCEPT !.whole = FALSE]
    <3>1. e \in Entry /\ e.ts = clock /\ e.whole = FALSE
      BY <2>1 DEF Entry
    <3> HIDE DEF e
    <3>2. file' = [file EXCEPT ![0] = Append(@, e)]
      BY <2>4 DEF e
    <3>3. /\ Len(file'[0]) = n + 1
          /\ \A i \in 1..n : file'[0][i] = log[i]
          /\ file'[0][n + 1] = e
          /\ OnlyActive' /\ Clocked'
      BY <1>2, <1>3, <2>1, <3>1, <3>2
    <3>4. ASSUME NEW m \in Floor'..(n + 1), \A i \in 1..m : file'[0][i].whole
          PROVE  Restores(file'[0], m, cp, possible)
      <4>1. m \in Nat /\ m <= n /\ PowerLoss /\ synced <= m
        BY <1>1, <2>1, <3>1, <3>3, <3>4 DEF Floor
      <4>2. m \in Floor..n
        BY <4>1, <1>1 DEF Floor
      <4>3. \A i \in 1..m : log[i].whole /\ log[i] = file'[0][i]
        BY <3>3, <3>4, <4>1, <1>1
      <4>4. Restores(log, m, cp, possible)
        BY <4>2, <4>3 DEF Restorable
      <4> HIDE DEF log, n
      <4> QED BY <4>1, <4>3, <4>4, RestoresPrefix
    <3>5. Restorable'
      BY <2>1, <3>3, <3>4 DEF Restorable
    <3> QED BY <2>2, <3>3, <3>5
  <2> QED BY <1>7, <2>3, <2>4 DEF AppendFails
<1>8. CASE SyncWAL
  <2>1. /\ UNCHANGED <<life, store, wal, file, cp, clock, op, possible>>
        /\ synced' = n /\ pc = "sync" /\ pc' = "apply"
    BY <1>8 DEF SyncWAL
  <2>2. OnlyActive' /\ Clocked'
    BY <2>1, ClockStep DEF OnlyActive
  <2>3. Restorable'
    BY <1>1, <2>1 DEF Restorable, Floor
  <2>4. Locked' /\ InFlight' /\ Served'
    BY <2>1 DEF Locked, InFlight, Served
  <2> QED BY <2>2, <2>3, <2>4
<1>9. CASE SyncFails
  <2>1. /\ UNCHANGED <<life, store, wal, file, synced, cp, clock, possible>>
        /\ op' = NoOp /\ pc' = "idle"
    BY <1>9 DEF SyncFails, Abandon
  <2>2. Locked' /\ InFlight' /\ Served'
    BY <2>1 DEF Locked, InFlight, Served
  <2> QED BY <2>1, <2>2, QuietStep, ClockStep
<1>10. CASE Apply
  <2>1. /\ op \in Entry /\ op.key \in Key /\ op.val \in Val /\ op.ts = clock
        /\ life = "open" /\ UNCHANGED <<life, wal, file, synced, cp, clock>>
        /\ store' = [store EXCEPT ![op.key] = [val |-> op.val, ver |-> @.ver + 1]]
        /\ possible' = [possible EXCEPT ![op.key] = {op.val}]
        /\ op' = NoOp /\ pc' \in {"save", "idle"}
        /\ n > 0 /\ log[n] = op /\ (SyncOnWrite => synced = n)
    BY <1>0, <1>10 DEF Apply, TypeOK, Entry, Clocked, Locked, InFlight
  <2>2. /\ possible'[op.key] = {op.val} /\ store'[op.key].val = op.val
        /\ \A k \in Key : k # op.key => possible'[k] = possible[k] /\ store'[k] = store[k]
    BY <1>0, <2>1 DEF TypeOK
  <2>3. Served' /\ Locked' /\ InFlight'
    BY <2>1, <2>2 DEF Served, Locked, InFlight
  <2>4. OnlyActive' /\ Clocked'
    BY <2>1, ClockStep DEF OnlyActive
  <2>5. Floor = n /\ Floor' = n
    BY <2>1 DEF Floor, SafeConfig
  <2>6. ASSUME \A i \in 1..n : log[i].whole
        PROVE  Restores(log, n, cp, possible')
    <3>1. Restores(log, n, cp, possible)
      BY <2>5, <2>6, <1>1 DEF Restorable
    <3>2. ~Skipped(log[n], cp.ts)
      BY <1>0, <2>1 DEF Clocked, Skipped
    <3> DEFINE may == [k \in Key |-> IF k = op.key THEN Val ELSE possible[k]]
    <3>3. Restores(log, n - 1, cp, may)
      <4> SUFFICES ASSUME NEW k \in Key, k # op.key
                   PROVE  /\ Hits(log, n - 1, cp.ts, k) = {} => cp.map[k].val \in possible[k]
                          /\ \A i \in Hits(log, n - 1, cp.ts, k) :
                               (\A j \in Hits(log, n - 1, cp.ts, k) : j <= i)
                                 => log[i].val \in possible[k]
        <5>1. \A i \in 1..(n - 1) : log[i].val \in Val
          BY <1>1 DEF Entry
        <5>2. \A k \in Key : cp.map[k].val \in Val
          BY <1>0 DEF TypeOK, Record
        <5> QED BY <5>1, <5>2 DEF Restores, Hits
      <4>1. Hits(log, n - 1, cp.ts, k) = Hits(log, n, cp.ts, k)
        BY <1>1, <2>1 DEF Hits
      <4> QED BY <3>1, <4>1 DEF Restores
    <3> DEFINE m == n - 1
               x == op.key
    <3>4. /\ m \in Nat /\ m + 1 = n /\ x \in Key
          /\ log[n].key = x /\ log[n].val \in possible'[x]
          /\ \A k \in Key : k # x => may[k] \subseteq possible'[k]
      BY <1>1, <2>1, <2>2
    <3>5. Restores(log, m, cp, may)
      BY <3>3
    <3> HIDE DEF log, n, m, x, may
    <3>6. /\ log[m + 1].key = x /\ log[m + 1].val \in possible'[x]
          /\ ~Skipped(log[m + 1], cp.ts)
      BY <3>2, <3>4
    <3>7. Restores(log, m + 1, cp, possible')
      BY <3>4, <3>5, <3>6, RestoresAppended
    <3> QED BY <3>4, <3>7
  <2>7. Restorable'
    BY <1>1, <2>1, <2>5, <2>6 DEF Restorable
  <2> QED BY <2>3, <2>4, <2>7
<1> QED BY <1>4, <1>5, <1>6, <1>7, <1>8, <1>9, <1>10 DEF Mutate

LEMMA StepCheckpointing ==
  ASSUME SafeConfig, IInv, TInv', Checkpointing
  PROVE  IInv'
<1> USE DEF IInv
<1> DEFINE log == file[0]
           n   == Len(log)
<1>0. /\ OneLog(file) /\ TypeOK /\ file \in Files /\ 0 \in File
      /\ cp \in Stamped /\ cp.ts \in Int /\ clock \in Int
      /\ \A t \in Reading : t \in Int /\ clock <= t
  BY EngineAssumption
     DEF TInv, TypeOK, OnlyActive, OneLog, Files, File, Stamped, Reading, SafeConfig
<1>1. /\ log \in Seq(Entry) /\ n \in Nat
      /\ \A i \in 1..n : log[i] \in Entry /\ log[i].ts \in Int
      /\ synced \in 0..n
  BY <1>0, OneLogType DEF TypeOK, Entry
<1>2. ASSUME NEW t \in Reading, life # "down", pc = "save", UNCHANGED <<file, synced, op, possible>>,
             clock' = t, cp' = [map |-> store, ts |-> t]
      PROVE  OnlyActive' /\ Clocked' /\ Restorable'
  <2>0. /\ t \in Int /\ cp.ts \in Int /\ cp.ts <= t /\ op = NoOp
        /\ \A i \in 1..Len(log) : log[i].ts \in Int /\ log[i].ts <= t
        /\ \A i, j \in 1..Len(log) : i <= j => log[i].ts <= log[j].ts
        /\ \A k \in Key : store[k].val \in possible[k]
    BY <1>0, <1>1, <1>2 DEF Clocked, Served, TypeOK
  <2>1. OnlyActive' /\ Clocked'
    BY <1>2, <2>0 DEF OnlyActive, Clocked
  <2>2. ASSUME NEW m \in Floor..n, \A i \in 1..m : log[i].whole
        PROVE  Restores(log, m, [map |-> store, ts |-> t], possible)
    <3>1. m \in 0..Len(log)
      BY <1>1 DEF Floor
    <3>2. Restores(log, m, cp, possible)
      BY <2>2 DEF Restorable
    <3> HIDE DEF log
    <3> QED BY <3>1, <3>2, <1>1, <2>0, RestoresSaved
  <2>3. Restorable'
    BY <1>2, <2>2 DEF Restorable, Floor
  <2> QED BY <2>1, <2>3
<1>3. ASSUME pc # "idle", Release, UNCHANGED <<store, wal, op, possible>>
      PROVE  Locked' /\ Served' /\ InFlight'
  BY <1>3 DEF Release, Locked, Served, InFlight
<1>4. CASE SaveCheckpoint
  <2>1. /\ pc = "save" /\ life \in {"open", "closing"}
        /\ UNCHANGED <<store, wal, file, synced, op, possible>>
    BY <1>4 DEF SaveCheckpoint, Locked
  <2>2. OnlyActive' /\ Clocked' /\ Restorable'
    BY <1>2, <1>4, <2>1 DEF SaveCheckpoint
  <2>3. CASE wal
    <3>1. pc' = "reset" /\ UNCHANGED life /\ cp'.map = store
      BY <1>4, <2>3 DEF SaveCheckpoint
    <3>2. Locked' /\ Served' /\ InFlight'
      BY <2>1, <3>1 DEF Locked, Served, InFlight
    <3> QED BY <2>2, <3>2
  <2>4. CASE ~wal
    BY <1>3, <1>4, <2>1, <2>2, <2>4 DEF SaveCheckpoint
  <2> QED BY <2>3, <2>4
<1>5. CASE SaveFails
  <2>1. /\ pc = "save" /\ life \in {"open", "closing"} /\ Release
        /\ UNCHANGED <<store, wal, file, synced, op, possible>>
    BY <1>5 DEF SaveFails, Locked
  <2>2. PICK t \in Reading : clock' = t /\ cp' \in {cp, [map |-> store, ts |-> t]}
    BY <1>5 DEF SaveFails
  <2>3. Locked' /\ Served' /\ InFlight'
    BY <1>3, <2>1
  <2>4. CASE cp' = cp
    <3>1. OnlyActive' /\ Restorable'
      BY <2>1, <2>4, QuietStep
    <3>2. op = NoOp
      BY <1>0, <2>1 DEF TypeOK
    <3>3. Clocked'
      BY <1>0, <1>1, <2>1, <2>2, <2>4, <3>2 DEF Clocked
    <3> QED BY <2>3, <3>1, <3>3
  <2>5. CASE cp' = [map |-> store, ts |-> t]
    BY <1>2, <2>1, <2>2, <2>3, <2>5
  <2> QED BY <2>2, <2>4, <2>5
<1>6. CASE ResetWAL
  <2>1. /\ pc = "reset" /\ Release /\ life \in {"open", "closing"}
        /\ file' = [file EXCEPT ![0] = <<>>] /\ synced' = 0
        /\ UNCHANGED <<store, wal, cp, clock, op, possible>>
        /\ cp.map = store
    BY <1>6 DEF ResetWAL, Locked, InFlight
  <2>2. file'[0] = <<>> /\ Len(file'[0]) = 0 /\ \A f \in File : f # 0 => file'[f] = file[f]
    BY <1>0, <2>1 DEF Files
  <2>3. <<>> \in Seq(Entry)
    OBVIOUS
  <2>4. <<>> # Missing
    BY <2>3, EngineAssumption, Zenon
  <2>5. OnlyActive' /\ Clocked'
    BY <2>1, <2>2, <2>4 DEF OnlyActive, Clocked
  <2>6. Restores(<<>>, 0, cp, possible)
    <3>1. \A k \in Key : Hits(<<>>, 0, cp.ts, k) = {}
      BY DEF Hits
    <3> QED BY <2>1, <3>1 DEF Restores, Served
  <2>7. Restorable'
    <3>1. Floor' = 0 /\ \A m \in 0..0 : m = 0
      BY <2>1, <2>2 DEF Floor
    <3> QED BY <2>1, <2>2, <2>6, <3>1 DEF Restorable
  <2> QED BY <1>3, <2>1, <2>5, <2>7
<1>7. CASE ResetFails
  <2>1. /\ pc = "reset" /\ Release
        /\ UNCHANGED <<store, wal, file, synced, cp, clock, op, possible>>
    BY <1>7 DEF ResetFails, SafeConfig
  <2> QED BY <1>3, <2>1, QuietStep, ClockStep
<1> QED BY <1>4, <1>5, <1>6, <1>7 DEF Checkpointing

LEMMA StepMaintenance ==
  ASSUME IInv, TInv', MaintTick \/ MaintLock \/ MaintExit
  PROVE  IInv'
<1>1. UNCHANGED <<life, store, wal, file, synced, cp, clock, op, possible>>
  BY DEF MaintTick, MaintLock, MaintExit
<1>2. pc' = pc \/ (pc = "idle" /\ pc' = "save" /\ life = "open")
  BY DEF MaintTick, MaintLock, MaintExit
<1>3. OnlyActive' /\ Restorable' /\ Clocked'
  BY <1>1, QuietStep, ClockStep DEF IInv
<1>4. Locked' /\ Served' /\ InFlight'
  BY <1>1, <1>2 DEF IInv, Locked, Served, InFlight
<1> QED BY <1>3, <1>4 DEF IInv

LEMMA RecoveryStep ==
  ASSUME SafeConfig
  PROVE  IInv /\ [Next]_vars => IInv'
<1> SUFFICES ASSUME IInv, [Next]_vars PROVE IInv'
  OBVIOUS
<1>1. TInv'
  BY TypeStep DEF IInv
<1>2. CASE UNCHANGED vars
  <2>1. UNCHANGED <<life, store, wal, file, synced, cp, clock, pc, op, possible>>
    BY <1>2 DEF vars
  <2>2. OnlyActive' /\ Restorable' /\ Clocked'
    BY <2>1, QuietStep, ClockStep DEF IInv
  <2>3. Locked' /\ Served' /\ InFlight'
    BY <2>1 DEF IInv, Locked, Served, InFlight
  <2> QED BY <1>1, <2>2, <2>3 DEF IInv
<1>3. CASE Next
  BY <1>1, <1>3, StepLife, StepBegin, StepMutate, StepCheckpointing, StepMaintenance DEF Next
<1> QED BY <1>2, <1>3

----------------------------------------------------------------------------
(* Theorems.                                                               *)

LEMMA RecoverableHolds ==
  ASSUME IInv
  PROVE  Recoverable
<1> USE DEF IInv
<1> SUFFICES ASSUME NEW F \in CrashFiles, Readable(F)
             PROVE  \A k \in Key : Recovered(F, cp)[k].val \in possible[k]
  BY DEF Recoverable
<1> DEFINE log == file[0]
<1>0. /\ OneLog(file) /\ TypeOK /\ file \in Files /\ cp \in Stamped /\ 0 \in File
  BY EngineAssumption DEF TInv, TypeOK, OnlyActive, OneLog, Files, Stamped, File
<1>1. /\ log \in Seq(Entry) /\ Len(log) \in Nat /\ Entries(file, 0) = log
      /\ synced \in 0..Len(log)
  BY <1>0, OneLogType DEF TypeOK
<1>2. ASSUME OneLog(F), NEW n \in Floor..Len(log), Len(F[0]) = n,
             \A i \in 1..n : F[0][i] = log[i]
      PROVE  \A k \in Key : Recovered(F, cp)[k].val \in possible[k]
  <2>1. \A i \in 1..n : log[i].whole
    BY <1>2, ReadableLog
  <2>2. Restores(log, n, cp, possible) /\ n \in Nat
    BY <2>1, <1>1 DEF Restorable, Floor
  <2>3. Restores(F[0], Len(F[0]), cp, possible)
    <3> HIDE DEF log
    <3>1. \A i \in 1..n : log[i] = F[0][i]
      BY <1>2
    <3> QED BY <1>2, <2>2, <3>1, RestoresPrefix
  <2> QED BY <1>0, <1>2, <2>3, RestoredValues
<1>3. CASE F = file
  BY <1>0, <1>1, <1>2, <1>3 DEF Floor
<1>4. CASE PowerLoss /\ F \in PowerCuts
  <2>1. PICK s \in Cuts : F = [file EXCEPT ![0] = s]
    BY <1>4 DEF PowerCuts
  <2>2. F \in Files /\ F[0] = s /\ \A f \in File : f # 0 => F[f] = Missing
    BY <1>0, <1>4, <2>1, PowerCutsType DEF TypeOK, OnlyActive, Files
  <2>3. CASE s \in {SubSeq(log, 1, n) : n \in synced..Len(log)}
    <3>1. PICK n \in synced..Len(log) : s = SubSeq(log, 1, n)
      BY <2>3
    <3>2. /\ n \in Nat /\ n <= Len(log) /\ s \in Seq(Entry) /\ Len(s) = n
          /\ \A i \in 1..n : s[i] = log[i]
      BY <1>1, <3>1
    <3>3. s # Missing
      BY <3>2, EngineAssumption, Zenon
    <3>4. OneLog(F) /\ n \in Floor..Len(log)
      BY <1>4, <2>2, <3>3 DEF OneLog, Floor
    <3> HIDE DEF log
    <3> QED BY <1>2, <2>2, <3>2, <3>4
  <2>4. CASE s \in {Append(SubSeq(log, 1, n), [log[n + 1] EXCEPT !.whole = FALSE])
                      : n \in synced..(Len(log) - 1)}
    <3>1. PICK n \in synced..(Len(log) - 1) :
             s = Append(SubSeq(log, 1, n), [log[n + 1] EXCEPT !.whole = FALSE])
      BY <2>4
    <3>2. n \in Nat /\ n + 1 <= Len(log) /\ log[n + 1] \in Entry
          /\ SubSeq(log, 1, n) \in Seq(Entry) /\ Len(SubSeq(log, 1, n)) = n
      BY <1>1
    <3> DEFINE a == SubSeq(log, 1, n)
               e == [log[n + 1] EXCEPT !.whole = FALSE]
    <3>3. e \in Entry /\ e.whole = FALSE
      BY <3>2 DEF Entry
    <3>4. a \in Seq(Entry) /\ Len(a) = n /\ s = Append(a, e)
      BY <3>1, <3>2
    <3> HIDE DEF a, e, log
    <3>5. s \in Seq(Entry) /\ Len(s) = n + 1 /\ s[n + 1] = e
      BY <3>2, <3>3, <3>4
    <3>6. s # Missing
      BY <3>5, EngineAssumption, Zenon
    <3>7. OneLog(F)
      BY <2>2, <3>6 DEF OneLog
    <3>8. F[0][n + 1].whole
      BY <2>2, <3>2, <3>5, <3>7, ReadableLog
    <3> QED BY <2>2, <3>3, <3>5, <3>8
  <2> QED BY <1>1, <2>3, <2>4 DEF Cuts
<1> QED BY <1>3, <1>4 DEF CrashFiles, PowerCuts, Renamed, Locked

\* Without rotation and with a clock that does not step back, whatever a crash
\* leaves of the files restores every applied write (engine.go: openWALLocked
\* after Put, Delete and the checkpoints).
THEOREM Durability ==
  ASSUME SafeConfig
  PROVE  Spec => []Recoverable
<1>1. Init => IInv
  BY RecoveryInit
<1>2. IInv /\ [Next]_vars => IInv'
  BY RecoveryStep
<1>3. IInv => Recoverable
  BY RecoverableHolds
<1> QED BY <1>1, <1>2, <1>3, PTL DEF Spec

\* What reads return, as Abs maps it.
Shown == [k \in Key |-> IF life = "open" THEN store[k].val ELSE NoValue]

LEMMA ImplementationInit == Init => Abs!Init
BY DEF Init, Abs!Init, Abs!Empty

LEMMA Stutter ==
  ASSUME UNCHANGED possible, (life' = "open") <=> (life = "open"),
         life = "open" => UNCHANGED store
  PROVE  UNCHANGED Abs!vars
BY DEF Abs!vars

LEMMA ImplementationStep ==
  ASSUME SafeConfig
  PROVE  IInv /\ IInv' /\ [Next]_vars => [Abs!Next]_(Abs!vars)
<1> SUFFICES ASSUME IInv, IInv', [Next]_vars
             PROVE  Abs!Next \/ UNCHANGED Abs!vars
  OBVIOUS
<1>0. TypeOK /\ TypeOK'
  BY DEF IInv, TInv
<1>1. CASE Open
  <2>1. /\ ~(life = "open") /\ life' = "open" /\ UNCHANGED possible
        /\ \A k \in Key : store'[k].val \in possible[k] /\ store'[k].val \in Val
    BY <1>0, <1>1 DEF Open, IInv, Served, TypeOK, Record
  <2>2. Shown' \in [Key -> Val] /\ \A k \in Key : Shown'[k] \in possible[k]
    BY <2>1 DEF Shown
  <2>3. Abs!Recover
    BY <2>1, <2>2 DEF Abs!Recover, Abs!Val, Val, Shown
  <2> QED BY <2>3 DEF Abs!Next
<1>2. CASE AppendWAL
  <2>1. PICK k \in Key, v \in Val : k = op.key /\ v = op.val
    BY <1>0, <1>2 DEF AppendWAL, TypeOK, Entry
  <2>2. /\ life = "open" /\ UNCHANGED <<life, store>>
        /\ possible' = [possible EXCEPT ![k] = @ \union {v}]
    BY <1>2, <2>1 DEF AppendWAL, IInv, Locked
  <2>3. Abs!Attempt(k, v) /\ v \in Abs!Val
    BY <2>2 DEF Abs!Attempt, Abs!Val, Val
  <2> QED BY <2>3 DEF Abs!Next
<1>3. CASE Apply
  <2>1. PICK k \in Key, v \in Val : k = op.key /\ v = op.val
    BY <1>0, <1>3 DEF Apply, TypeOK, Entry
  <2>2. /\ life = "open" /\ life' = life
        /\ store' = [store EXCEPT ![k] = [val |-> v, ver |-> @.ver + 1]]
        /\ possible' = [possible EXCEPT ![k] = {v}]
    BY <1>3, <2>1 DEF Apply, IInv, Locked
  <2>3. Shown' = [Shown EXCEPT ![k] = v]
    BY <1>0, <2>2 DEF Shown, TypeOK
  <2>4. Abs!Commit(k, v) /\ v \in Abs!Val
    BY <2>2, <2>3 DEF Abs!Commit, Shown, Abs!Val, Val
  <2> QED BY <2>4 DEF Abs!Next
<1>4. CASE CloseBegin \/ Kill \/ PowerFailure
  <2>1. UNCHANGED possible /\ life' # "open"
    BY <1>4 DEF CloseBegin, Kill, PowerFailure, Down
  <2>2. CASE life = "open"
    <3>1. Shown' = Abs!Empty
      BY <2>1 DEF Shown, Abs!Empty
    <3>2. Abs!Stop
      BY <2>1, <2>2, <3>1 DEF Abs!Stop, Shown
    <3> QED BY <3>2 DEF Abs!Next
  <2>3. CASE life # "open"
    BY <2>1, <2>3, Stutter
  <2> QED BY <2>2, <2>3
<1>5. CASE UNCHANGED vars
  BY <1>5, Stutter DEF vars
<1>6. CASE CloseWAL \/ CloseFails
  <2>1. UNCHANGED possible /\ life' # "open" /\ life # "open"
    BY <1>6 DEF CloseWAL, CloseFails
  <2> QED BY <2>1, Stutter
<1>7. CASE \E k \in Key, v \in Val : Begin(k, v)
  BY <1>7, Stutter DEF Begin
<1>8. CASE RotateWAL \/ RotateFails \/ AppendSkipped \/ AppendFails \/ SyncWAL \/ SyncFails
  BY <1>8, Stutter DEF RotateWAL, RotateFails, AppendSkipped, AppendFails, SyncWAL, SyncFails
<1>9. CASE Checkpointing
  <2>1. UNCHANGED <<store, possible>>
    BY <1>9 DEF Checkpointing, SaveCheckpoint, SaveFails, ResetWAL, ResetFails
  <2>2. UNCHANGED life \/ (life = "closing" /\ life' = "closed")
    BY <1>9 DEF Checkpointing, SaveCheckpoint, SaveFails, ResetWAL, ResetFails, Release
  <2> QED BY <2>1, <2>2, Stutter
<1>10. CASE MaintTick \/ MaintLock \/ MaintExit
  BY <1>10, Stutter DEF MaintTick, MaintLock, MaintExit
<1> QED BY <1>1, <1>2, <1>3, <1>4, <1>5, <1>6, <1>7, <1>8, <1>9, <1>10 DEF Next, Mutate

\* In the same configurations the engine implements DurableStore: a write that
\* fails in the log is not visible before a restart, and no restart undoes a
\* write that was applied, also one whose caller got an error because the
\* checkpoint after it failed (engine.go: Put, Delete, Open, Close).
THEOREM Implementation ==
  ASSUME SafeConfig
  PROVE  Spec => ImplementsDurableStore
<1>1. Init => IInv /\ Abs!Init
  BY RecoveryInit, ImplementationInit
<1>2. IInv /\ [Next]_vars => IInv'
  BY RecoveryStep
<1>3. IInv /\ IInv' /\ [Next]_vars => [Abs!Next]_(Abs!vars)
  BY ImplementationStep
<1> QED BY <1>1, <1>2, <1>3, PTL DEF Spec, ImplementsDurableStore, Abs!Spec

----------------------------------------------------------------------------
(* Without rotation the log keeps two promises that rotation breaks.       *)

\* One log file in the order of its timestamps is replayed in that order
\* (memory/README.md: "replays numbered WAL segments in order").
THEOREM ReplayFollowsWrites ==
  ASSUME SafeConfig
  PROVE  Spec => []ReplaysInWriteOrder
<1>1. IInv => ReplaysInWriteOrder
  <2> SUFFICES ASSUME IInv, NEW p \in Position(file), NEW q \in Position(file),
                      At(file, p).ts < At(file, q).ts
               PROVE  ReadNoEarlier(q, p)
    BY DEF ReplaysInWriteOrder
  <2>1. OneLog(file)
    BY DEF IInv, TInv, TypeOK, OnlyActive, OneLog, Files
  <2>2. /\ p[1] = 0 /\ p[2] \in 1..Len(file[0]) /\ At(file, p) = file[0][p[2]]
        /\ q[1] = 0 /\ q[2] \in 1..Len(file[0]) /\ At(file, q) = file[0][q[2]]
    <3>1. \A r \in Position(file) : /\ r = <<0, r[2]>> /\ r[2] \in 1..Len(file[0])
                                    /\ At(file, r) = file[0][r[2]]
      BY <2>1, OneLogPositions
    <3> QED BY <3>1
  <2>3. file[0][p[2]].ts \in Int /\ file[0][q[2]].ts \in Int
    BY <2>1, <2>2, OneLogType DEF Entry
  <2>4. ~ (q[2] <= p[2])
    BY <2>2, <2>3 DEF IInv, Clocked
  <2> QED BY <2>2, <2>4 DEF ReadNoEarlier
<1> QED BY <1>1, RecoveryInit, RecoveryStep, PTL DEF Spec

\* About to truncate the log: the checkpoint is no older than any record.
Covered == pc = "reset" => \A i \in 1..Len(file[0]) : file[0][i].ts <= cp.ts

LEMMA CoveredStep ==
  ASSUME SafeConfig
  PROVE  IInv /\ Covered /\ [Next]_vars => Covered'
<1> SUFFICES ASSUME IInv, Covered, [Next]_vars, pc' = "reset"
             PROVE  \A i \in 1..Len(file'[0]) : file'[0][i].ts <= cp'.ts
  BY DEF Covered
<1>0. OneLog(file) /\ clock \in Int /\ MinAdvance \in Int /\ MinAdvance >= 0
  BY EngineAssumption DEF IInv, TInv, TypeOK, OnlyActive, OneLog, Files, SafeConfig
<1>1. CASE SaveCheckpoint
  <2>1. PICK t \in Reading : cp' = [map |-> store, ts |-> t]
    BY <1>1 DEF SaveCheckpoint
  <2>2. t \in Int /\ clock <= t
    BY <1>0, <2>1 DEF Reading
  <2>3. \A i \in 1..Len(file[0]) : file[0][i].ts \in Int /\ file[0][i].ts <= clock
    BY <1>0, OneLogType DEF Entry, IInv, Clocked
  <2>4. file' = file
    BY <1>1 DEF SaveCheckpoint
  <2> QED BY <1>0, <2>1, <2>2, <2>3, <2>4
<1>2. \/ pc = "reset" /\ file' = file /\ cp' = cp
      \/ SaveCheckpoint
  <2>1. CASE UNCHANGED vars
    BY <2>1 DEF vars
  <2>2. CASE Open \/ CloseBegin \/ CloseWAL \/ CloseFails \/ Kill \/ PowerFailure
    BY <2>2 DEF Open, CloseBegin, CloseWAL, CloseFails, Kill, PowerFailure, Down
  <2>3. CASE \E k \in Key, v \in Val : Begin(k, v)
    BY <2>3 DEF Begin
  <2>4. CASE Mutate
    BY <2>4 DEF Mutate, RotateWAL, RotateFails, AppendWAL, AppendSkipped, AppendFails,
          SyncWAL, SyncFails, Apply, Abandon
  <2>5. CASE Checkpointing
    BY <2>5 DEF Checkpointing, SaveCheckpoint, SaveFails, ResetWAL, ResetFails, Release
  <2>6. CASE MaintTick \/ MaintLock \/ MaintExit
    BY <2>6 DEF MaintTick, MaintLock, MaintExit
  <2> QED BY <2>1, <2>2, <2>3, <2>4, <2>5, <2>6 DEF Next
<1> QED BY <1>1, <1>2 DEF Covered

\* No step of the engine, and no kill, takes a record out of the log that the
\* checkpoint does not cover (memory/README.md: segments are "retained before
\* a checkpoint compacts them"); a power failure may lose what was not fsynced.
THEOREM LoggedWithoutRotation ==
  ASSUME SafeConfig, ~ PowerLoss
  PROVE  Spec => LoggedUntilCheckpointed
<1>1. IInv /\ Covered /\ [Next]_vars =>
        \A p \in Position(file) :
          \/ \E q \in Position(file') : At(file', q) = At(file, p)
          \/ At(file, p).ts <= cp'.ts
  <2> SUFFICES ASSUME IInv, Covered, [Next]_vars, NEW p \in Position(file)
               PROVE  \/ \E q \in Position(file') : At(file', q) = At(file, p)
                      \/ At(file, p).ts <= cp'.ts
    OBVIOUS
  <2>0. OneLog(file) /\ file \in Files
    BY DEF IInv, TInv, TypeOK, OnlyActive, OneLog, Files
  <2>1. p \in Position(file) /\ p[2] \in 1..Len(file[0]) /\ At(file, p) = file[0][p[2]]
    BY <2>0, OneLogPositions
  <2>2. CASE file' = file
    BY <2>2
  <2>3. CASE ResetWAL
    BY <2>1, <2>3 DEF ResetWAL, Covered
  <2>4. ASSUME NEW e \in Entry, file' = [file EXCEPT ![0] = Append(@, e)]
        PROVE  \E q \in Position(file') : At(file', q) = At(file, p)
    <3>1. 0 \in File /\ file[0] \in Seq(Entry) /\ p[2] \in 1..Len(file[0])
      BY <2>0, <2>1, OneLogType
    <3>2. file'[0] = Append(file[0], e)
      BY <2>0, <2>4, <3>1 DEF Files
    <3>3. /\ Len(file'[0]) = Len(file[0]) + 1 /\ file'[0][p[2]] = file[0][p[2]]
          /\ file'[0] \in Seq(Entry) /\ Len(file[0]) \in Nat
      BY <3>1, <3>2
    <3>4. Entries(file', 0) = file'[0]
      BY <3>3, EngineAssumption DEF Entries
    <3>5. <<0, p[2]>> \in Position(file')
      BY <3>1, <3>3, <3>4 DEF Position
    <3>6. At(file', <<0, p[2]>>) = At(file, p)
      BY <2>1, <3>3, <3>4 DEF At
    <3> QED BY <3>5, <3>6
  <2>5. \/ file' = file
        \/ ResetWAL
        \/ \E e \in Entry : file' = [file EXCEPT ![0] = Append(@, e)]
    <3>0. /\ pc # "rotate" /\ Entries(file, 0) = file[0] /\ Renamed = {} /\ PowerCuts = {}
          /\ [file EXCEPT ![0] = file[0]] = file
      BY <2>0, OneLogType DEF IInv, Locked, Renamed, PowerCuts, Files
    <3>1. CASE UNCHANGED vars
      BY <3>1 DEF vars
    <3>2. CASE Open \/ CloseBegin \/ CloseWAL \/ CloseFails \/ Kill \/ PowerFailure
      BY <3>0, <3>2 DEF Open, CloseBegin, CloseWAL, CloseFails, Kill, PowerFailure
    <3>3. CASE \E k \in Key, v \in Val : Begin(k, v)
      BY <3>3 DEF Begin
    <3>4. CASE Mutate
      <4>1. op \in Entry \/ pc # "append"
        BY DEF IInv, TInv, TypeOK
      <4>2. op \in Entry => [op EXCEPT !.whole = FALSE] \in Entry
        BY DEF Entry
      <4> QED BY <3>0, <3>4, <4>1, <4>2 DEF Mutate, RotateWAL, RotateFails, AppendWAL,
            AppendSkipped, AppendFails, SyncWAL, SyncFails, Apply
    <3>5. CASE Checkpointing
      BY <3>5 DEF Checkpointing, SaveCheckpoint, SaveFails, ResetFails
    <3>6. CASE MaintTick \/ MaintLock \/ MaintExit
      BY <3>6 DEF MaintTick, MaintLock, MaintExit
    <3> QED BY <3>1, <3>2, <3>3, <3>4, <3>5, <3>6 DEF Next
  <2> QED BY <2>2, <2>3, <2>4, <2>5
<1>2. Init => IInv /\ Covered
  BY RecoveryInit DEF Init, Covered
<1>3. IInv /\ Covered /\ [Next]_vars => (IInv /\ Covered)'
  BY RecoveryStep, CoveredStep
<1>4. IInv /\ Covered /\ [Next]_vars =>
        [\A p \in Position(file) :
           \/ \E q \in Position(file)' : At(file', q) = At(file, p)
           \/ At(file, p).ts <= cp'.ts]_vars
  <2>1. Position(file)' = Position(file')
    BY DEF Position, Entries
  <2> QED BY <1>1, <2>1
<1> QED BY <1>2, <1>3, <1>4, PTL DEF Spec, LoggedUntilCheckpointed
=============================================================================
