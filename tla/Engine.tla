------------------------------- MODULE Engine -------------------------------
(***************************************************************************)
(* The storage engine of one node with its write-ahead log enabled         *)
(* (storage/memory/engine.go, replay.go, storage/wal, storage/checkpoint). *)
(* Every mutation runs under e.mu, so only the holder of the lock moves    *)
(* from phase to phase (pc); a crash may come between any two phases, and  *)
(* each phase that touches a file may fail.  Readers hold the read lock    *)
(* and see store whenever pc = "idle".                                     *)
(***************************************************************************)
EXTENDS Integers, Sequences, FiniteSets

CONSTANTS
    Key, Value,
    NoValue,            \* the value of a key that is absent or deleted
    Missing,            \* a log file that does not exist
    NoOp,               \* no mutation holds the lock
    MaxSegments,        \* WALMaxSegments; 0 disables rotation
    SegmentSize,        \* WALMaxSegmentSize in records; 0 disables rotation
    CheckpointEnabled,  \* CheckpointEnabled, with a positive CheckpointInterval
    CheckpointSize,     \* CheckpointSize in records; 0: after every mutation
    SyncOnWrite,        \* WAL.SyncOnWrite
    PowerLoss,          \* crashes may lose what was not fsynced
    FsErrors,           \* the file operations that may fail
    MinAdvance,         \* least advance between two clock readings; -1: steps back
    MaxWrites,          \* bound on mutations
    MaxClock            \* bound on the clock readings that start an operation

Steps == {"append", "sync", "rotate", "save", "close", "reopen"}

Val     == Value \union {NoValue}
Record  == [val : Val, ver : Nat]
Entry   == [key : Key, val : Val, ts : Int, whole : BOOLEAN]
File    == 0..MaxSegments
Absent  == [val |-> NoValue, ver |-> 0]
NoStore == [k \in Key |-> Absent]

ASSUME EngineAssumption ==
    /\ NoValue \notin Value
    /\ Missing \notin Seq(Entry) /\ NoOp \notin Entry
    /\ MaxSegments \in Nat /\ SegmentSize \in Nat /\ CheckpointSize \in Nat
    /\ CheckpointEnabled \in BOOLEAN /\ SyncOnWrite \in BOOLEAN
    /\ PowerLoss \in BOOLEAN
    /\ FsErrors \subseteq Steps
    /\ MinAdvance \in {-1, 0, 1}
    /\ MaxWrites \in Nat /\ MaxClock \in Nat

VARIABLES
    life,      \* down (no process), open, closing, closed; e.open = (life = "open")
    store,     \* e.store: value and version; version 0 and NoValue if never seen
    wal,       \* e.wal # nil
    file,      \* the log files: 0 the active one, i > 0 the segment i
    synced,    \* length of the prefix of file[0] that is on stable storage
    cp,        \* the checkpoint file: the saved map and its timestamp
    clock,     \* the last reading of time.Now
    pc,        \* what the holder of e.mu does next; "idle" when it is free
    op,        \* the mutation in flight
    maint,     \* the maintenance goroutine: off, wait, lock or hold
    writes,    \* mutations started so far
    possible   \* history: the values a restart may rightly find for each key

vars == <<life, store, wal, file, synced, cp, clock, pc, op, maint, writes, possible>>

----------------------------------------------------------------------------
(* Log files.  A segment that does not exist and one that is empty differ  *)
(* only for rotation.                                                      *)

Entries(F, f) == IF F[f] = Missing THEN <<>> ELSE F[f]

Position(F) == UNION {{f} \X (1..Len(Entries(F, f))) : f \in File}
At(F, p)    == Entries(F, p[1])[p[2]]

\* walSizeLocked: the records of the active log and of all the segments.
WalSize == Cardinality(Position(file))

RotationOn  == SegmentSize > 0 /\ MaxSegments > 0
RotationDue == wal /\ RotationOn /\ WalSize >= SegmentSize

CheckpointDue == CheckpointEnabled /\ (CheckpointSize = 0 \/ WalSize >= CheckpointSize)

\* Mutated form: only the numbered segments are renamed, not the active log.
ShiftedNoActive(j) ==
    [f \in File |->
        IF f >= 2 /\ f >= j
        THEN IF file[f-1] # Missing THEN file[f-1] ELSE file[f]
        ELSE file[f]]

\* rotateWALFilesLocked after its steps MaxSegments, ..., j: step i renames
\* file i-1 over file i when file i-1 exists.  The os.Remove of file i and the
\* os.Rename that follows it are one step here: what stops between them has
\* lost the segment that was about to be replaced, and nothing else.
Shifted(j) ==
    [f \in File |->
        IF f >= j
        THEN IF file[f-1] # Missing THEN file[f-1]
             ELSE IF f = MaxSegments THEN file[f] ELSE Missing
        ELSE IF f = j - 1 /\ j <= MaxSegments THEN Missing ELSE file[f]]

(* Replay.  Segments 1, 2, ... are read before the active log, each from   *)
(* its start; records older than the checkpoint are skipped; the last      *)
(* record read for a key wins.                                             *)

Rank(f) == IF f = 0 THEN MaxSegments + 1 ELSE f

ReadNoEarlier(p, q) ==
    \/ Rank(p[1]) > Rank(q[1])
    \/ p[1] = q[1] /\ p[2] >= q[2]

SkippedNever(e, since) == FALSE           \* mutated form: replays everything
SkippedEqual(e, since) == e.ts <= since   \* mutated form: not After(since)
Skipped(e, since)      == e.ts < since

Replayed(F, c, k) ==
    {p \in Position(F) : At(F, p).key = k /\ ~Skipped(At(F, p), c.ts)}

LastRead(P) == CHOOSE p \in P : \A q \in P : ReadNoEarlier(p, q)

\* The map openWALLocked builds: the checkpoint's records, then the log's.
\* A replayed put carries no version and a replayed delete removes the key.
Recovered(F, c) ==
    [k \in Key |->
        IF Replayed(F, c, k) = {} THEN c.map[k]
        ELSE [val |-> At(F, LastRead(Replayed(F, c, k))).val, ver |-> 0]]

\* Every record decodes: a torn one makes Reader.Next fail and Open with it.
Readable(F) == \A p \in Position(F) : At(F, p).whole

Reading == {t \in (clock + MinAdvance)..(clock + 1) : t >= 1}

----------------------------------------------------------------------------
(* What a crash leaves of the files.  A killed process loses nothing it    *)
(* wrote.  A power failure keeps some prefix of the active log that        *)
(* includes everything fsynced, and may tear the record after it.  In the  *)
(* middle of a rotation some of the renames have happened.                 *)

Cuts ==
    LET log == Entries(file, 0)
    IN  {SubSeq(log, 1, n) : n \in synced..Len(log)}
          \union {Append(SubSeq(log, 1, n), [log[n + 1] EXCEPT !.whole = FALSE])
                    : n \in synced..(Len(log) - 1)}

Renamed   == IF pc = "rotate" THEN {Shifted(j) : j \in 1..(MaxSegments + 1)} ELSE {}
PowerCuts == IF PowerLoss THEN {[file EXCEPT ![0] = s] : s \in Cuts} ELSE {}

CrashFiles == {file} \union PowerCuts \union Renamed

----------------------------------------------------------------------------
(* Life cycle.                                                             *)

Init ==
    /\ life = "down" /\ store = NoStore /\ wal = FALSE
    /\ file = [f \in File |-> IF f = 0 THEN <<>> ELSE Missing]
    /\ synced = 0
    /\ cp = [map |-> NoStore, ts |-> 0]
    /\ clock = 1
    /\ pc = "idle" /\ op = NoOp /\ maint = "off"
    /\ writes = 0
    /\ possible = [k \in Key |-> {NoValue}]

\* Open: a fresh map from the checkpoint and the log, a writer at the end of
\* the log, and the maintenance goroutine.  A torn record makes Open fail.
Open ==
    /\ life \in {"down", "closed"} /\ pc = "idle"
    /\ Readable(file)
    /\ store' = Recovered(file, cp)
    /\ file' = [file EXCEPT ![0] = Entries(file, 0)]
    /\ wal' = TRUE
    /\ life' = "open"
    /\ maint' = IF CheckpointEnabled THEN "wait" ELSE "off"
    /\ UNCHANGED <<synced, cp, clock, pc, op, writes, possible>>

\* Close, first half: no more calls, stop the maintenance goroutine, unlock.
CloseBegin ==
    /\ life = "open" /\ pc = "idle" /\ clock < MaxClock
    /\ life' = "closing"
    /\ UNCHANGED <<store, wal, file, synced, cp, clock, pc, op, maint, writes, possible>>

\* Close, second half, once the goroutine is done: sync and close the log,
\* then a last checkpoint if any log file holds a record.
CloseWAL ==
    /\ life = "closing" /\ pc = "idle" /\ maint = "off"
    /\ wal' = FALSE
    /\ synced' = Len(Entries(file, 0))
    /\ IF CheckpointEnabled /\ WalSize > 0
       THEN pc' = "save" /\ life' = life
       ELSE pc' = pc /\ life' = "closed"
    /\ UNCHANGED <<store, file, cp, clock, op, maint, writes, possible>>

CloseFails ==
    /\ "sync" \in FsErrors
    /\ life = "closing" /\ pc = "idle" /\ maint = "off" /\ wal
    /\ life' = "closed"
    /\ UNCHANGED <<store, wal, file, synced, cp, clock, pc, op, maint, writes, possible>>

Down ==
    /\ life # "down"
    /\ life' = "down" /\ store' = NoStore /\ wal' = FALSE
    /\ pc' = "idle" /\ op' = NoOp /\ maint' = "off"
    /\ UNCHANGED <<cp, clock, writes, possible>>

Kill ==
    /\ Down
    /\ file' \in {file} \union Renamed
    /\ synced' = IF file' = file THEN synced ELSE Len(Entries(file', 0))

PowerFailure ==
    /\ PowerLoss
    /\ Down
    /\ file' \in PowerCuts \union Renamed
    /\ synced' = Len(Entries(file', 0))

----------------------------------------------------------------------------
(* Put and Delete.                                                         *)

\* Lock, checkOpen, read the clock; appendWALLocked first looks at the size.
Begin(k, v) ==
    /\ life = "open" /\ pc = "idle"
    /\ writes < MaxWrites /\ clock < MaxClock
    /\ \E t \in Reading :
         /\ clock' = t
         /\ op' = [key |-> k, val |-> v, ts |-> t, whole |-> TRUE]
    /\ pc' = IF RotationDue THEN "rotate" ELSE "append"
    /\ writes' = writes + 1
    /\ UNCHANGED <<life, store, wal, file, synced, cp, maint, possible>>

\* The call returns an error: its record is not applied.
Abandon == pc' = "idle" /\ op' = NoOp

\* rotateWALIfNeededLocked: sync and close, rename, open an empty active log.
RotateWAL ==
    /\ pc = "rotate"
    /\ file' = [Shifted(1) EXCEPT ![0] = <<>>]
    /\ synced' = 0
    /\ pc' = "append"
    /\ UNCHANGED <<life, store, wal, cp, clock, op, maint, writes, possible>>

\* A rename or the final open fails: e.wal stays nil.  When the sync or the
\* close fails, e.wal is kept.
RotateFails ==
    /\ "rotate" \in FsErrors
    /\ pc = "rotate"
    /\ Abandon
    /\ \/ UNCHANGED <<wal, file, synced>>
       \/ /\ wal' = FALSE
          /\ file' \in Renamed
          /\ synced' = Len(Entries(file', 0))
    /\ UNCHANGED <<life, store, cp, clock, maint, writes, possible>>

\* Mutated form: the fsync of SyncOnWrite is forgotten.
AppendWALNoSync ==
    /\ pc = "append" /\ wal
    /\ file' = [file EXCEPT ![0] = Append(@, op)]
    /\ possible' = [possible EXCEPT ![op.key] = @ \union {op.val}]
    /\ pc' = "apply"
    /\ UNCHANGED <<life, store, wal, synced, cp, clock, op, maint, writes>>

AppendWAL ==
    /\ pc = "append" /\ wal
    /\ file' = [file EXCEPT ![0] = Append(@, op)]
    /\ possible' = [possible EXCEPT ![op.key] = @ \union {op.val}]
    /\ pc' = IF SyncOnWrite THEN "sync" ELSE "apply"
    /\ UNCHANGED <<life, store, wal, synced, cp, clock, op, maint, writes>>

\* appendWALLocked returns at once when e.wal is nil.
AppendSkipped ==
    /\ pc = "append" /\ ~wal
    /\ pc' = "apply"
    /\ UNCHANGED <<life, store, wal, file, synced, cp, clock, op, maint, writes, possible>>

\* writeFull stops part way: nothing, or a torn record, reached the file.
AppendFails ==
    /\ "append" \in FsErrors
    /\ pc = "append" /\ wal
    /\ Abandon
    /\ \/ UNCHANGED file
       \/ file' = [file EXCEPT ![0] = Append(@, [op EXCEPT !.whole = FALSE])]
    /\ UNCHANGED <<life, store, wal, synced, cp, clock, maint, writes, possible>>

SyncWAL ==
    /\ pc = "sync"
    /\ synced' = Len(file[0])
    /\ pc' = "apply"
    /\ UNCHANGED <<life, store, wal, file, cp, clock, op, maint, writes, possible>>

SyncFails ==
    /\ "sync" \in FsErrors
    /\ pc = "sync"
    /\ Abandon
    /\ UNCHANGED <<life, store, wal, file, synced, cp, clock, maint, writes, possible>>

\* e.store[k] = rec, a tombstone for a delete; the version is one more than
\* the record's there, absent counting as 0.
Apply ==
    /\ pc = "apply"
    /\ store' = [store EXCEPT ![op.key] = [val |-> op.val, ver |-> @.ver + 1]]
    /\ possible' = [possible EXCEPT ![op.key] = {op.val}]
    /\ op' = NoOp
    /\ pc' = IF CheckpointDue THEN "save" ELSE "idle"
    /\ UNCHANGED <<life, wal, file, synced, cp, clock, maint, writes>>

----------------------------------------------------------------------------
(* Checkpoints: by a mutation, by the maintenance goroutine or by Close.   *)

\* The holder of the lock is done with the checkpoint, well or badly.
Release ==
    /\ pc' = "idle"
    /\ maint' = IF maint = "hold" THEN "wait" ELSE maint
    /\ life' = IF life = "closing" THEN "closed" ELSE life

\* Checkpoint.Save writes a temporary file and renames it over the old one.
SaveCheckpoint ==
    /\ pc = "save"
    /\ \E t \in Reading : clock' = t /\ cp' = [map |-> store, ts |-> t]
    /\ IF wal THEN pc' = "reset" /\ UNCHANGED <<life, maint>> ELSE Release
    /\ UNCHANGED <<store, wal, file, synced, op, writes, possible>>

\* Save fails before the rename, or after it while syncing the directory.
SaveFails ==
    /\ "save" \in FsErrors
    /\ pc = "save"
    /\ \E t \in Reading :
         /\ clock' = t
         /\ cp' \in {cp, [map |-> store, ts |-> t]}
    /\ Release
    /\ UNCHANGED <<store, wal, file, synced, op, writes, possible>>

\* Mutated form: the length known to be synced outlives the truncation.
ResetWALKeepsSynced ==
    /\ pc = "reset"
    /\ file' = [file EXCEPT ![0] = <<>>]
    /\ Release
    /\ UNCHANGED <<store, wal, synced, cp, clock, op, writes, possible>>

\* resetWALLocked truncates the active log and leaves the segments.
ResetWAL ==
    /\ pc = "reset"
    /\ file' = [file EXCEPT ![0] = <<>>]
    /\ synced' = 0
    /\ Release
    /\ UNCHANGED <<store, wal, cp, clock, op, writes, possible>>

\* The log fails to close and e.wal is kept, or to reopen and it is nil.
ResetFails ==
    /\ pc = "reset"
    /\ \/ "close" \in FsErrors /\ UNCHANGED wal
       \/ "reopen" \in FsErrors /\ wal' = FALSE
    /\ Release
    /\ UNCHANGED <<store, file, synced, cp, clock, op, writes, possible>>

(* The maintenance goroutine: on a tick it locks e.mu and, while the engine *)
(* is open, takes a checkpoint whatever the size of the log.                *)

MaintTick ==
    /\ maint = "wait" /\ clock < MaxClock
    /\ maint' = "lock"
    /\ UNCHANGED <<life, store, wal, file, synced, cp, clock, pc, op, writes, possible>>

\* Mutated form: a tick that finds the engine closed keeps waiting.
MaintLockOnlyOpen ==
    /\ maint = "lock" /\ pc = "idle" /\ life = "open"
    /\ maint' = "hold" /\ pc' = "save"
    /\ UNCHANGED <<life, store, wal, file, synced, cp, clock, op, writes, possible>>

\* Mutated form: a tick does not look at e.open.
MaintLockAlways ==
    /\ maint = "lock" /\ pc = "idle"
    /\ maint' = "hold" /\ pc' = "save"
    /\ UNCHANGED <<life, store, wal, file, synced, cp, clock, op, writes, possible>>

MaintLock ==
    /\ maint = "lock" /\ pc = "idle"
    /\ IF life = "open" THEN maint' = "hold" /\ pc' = "save"
                        ELSE maint' = "wait" /\ pc' = pc
    /\ UNCHANGED <<life, store, wal, file, synced, cp, clock, op, writes, possible>>

\* ctx.Done: Close has called stop.
MaintExit ==
    /\ maint = "wait" /\ life = "closing"
    /\ maint' = "off"
    /\ UNCHANGED <<life, store, wal, file, synced, cp, clock, pc, op, writes, possible>>

----------------------------------------------------------------------------

Mutate ==
    \/ RotateWAL \/ RotateFails
    \/ AppendWAL \/ AppendSkipped \/ AppendFails
    \/ SyncWAL \/ SyncFails
    \/ Apply

Checkpointing == SaveCheckpoint \/ SaveFails \/ ResetWAL \/ ResetFails

Next ==
    \/ Open \/ CloseBegin \/ CloseWAL \/ CloseFails \/ Kill \/ PowerFailure
    \/ \E k \in Key, v \in Val : Begin(k, v)
    \/ Mutate
    \/ Checkpointing
    \/ MaintTick \/ MaintLock \/ MaintExit

\* Goroutines that can run do run.  The goroutine's select chooses at random
\* between a tick and the stop, so it cannot miss the stop for ever.
Fairness ==
    /\ WF_vars(Mutate) /\ WF_vars(Checkpointing)
    /\ WF_vars(CloseWAL \/ CloseFails)
    /\ WF_vars(MaintLock) /\ SF_vars(MaintExit)

Spec     == Init /\ [][Next]_vars
FairSpec == Spec /\ Fairness

----------------------------------------------------------------------------
(* Properties.                                                             *)

\* The type invariant; the mutation in flight is an entry exactly between
\* Begin and Apply.
TypeOK ==
    /\ life \in {"down", "open", "closing", "closed"}
    /\ store \in [Key -> Record]
    /\ wal \in BOOLEAN
    /\ file \in [File -> Seq(Entry) \union {Missing}]
    /\ synced \in 0..Len(Entries(file, 0))
    /\ cp \in [map : [Key -> Record], ts : Int]
    /\ clock \in Int
    /\ pc \in {"idle", "rotate", "append", "sync", "apply", "save", "reset"}
    /\ op \in Entry \union {NoOp}
    /\ pc \in {"rotate", "append", "sync", "apply"} <=> op # NoOp
    /\ maint \in {"off", "wait", "lock", "hold"}
    /\ writes \in Nat
    /\ possible \in [Key -> SUBSET Val]

\* Whatever a crash leaves of the files, now or while the process is down, the
\* next Open either fails or gives each key its last applied value or that of
\* a later write that was logged and not applied.
Recoverable ==
    \A F \in CrashFiles :
        Readable(F) => \A k \in Key : Recovered(F, cp)[k].val \in possible[k]

\* The engine, seen through the values its calls return, is the map that
\* DurableStore describes.  A write that fails in the log (append or sync) is
\* not visible before a restart and may be found by one.  A write whose
\* checkpoint fails has been applied although the caller gets an error
\* (engine.go: Put returns what maybeCheckpointLocked returns): it is visible,
\* and a restart never undoes an applied write.
Abs == INSTANCE DurableStore WITH
           up    <- life = "open",
           value <- [k \in Key |-> IF life = "open" THEN store[k].val ELSE NoValue]

ImplementsDurableStore == Abs!Spec

\* Opening an engine that was closed when its checkpoint held its map gives
\* back that map: no segment that rotation left behind overrides it.
CheckpointWins ==
    [][life = "closed" /\ life' = "open" /\ cp.map = store =>
         \A k \in Key : store'[k].val = store[k].val]_vars

\* A rotation that fails or is cut short by a kill keeps every record of the
\* log that was active.
RotationKeepsActive ==
    [][pc = "rotate" =>
         \A p \in Position(file) : p[1] = 0 =>
             \E q \in Position(file)' : At(file', q) = At(file, p)]_vars

\* Between the two critical sections of Close the maintenance goroutine may
\* still get the lock.  From the first of them until the engine is opened
\* again no log file changes, the final checkpoint of Close included, and no
\* checkpoint is saved before the log is closed (engine.go: a tick looks at
\* e.open; createCheckpointLocked resets the log only while it is in use).
ClosingKeepsLog ==
    [][{life, life'} \subseteq {"closing", "closed"} =>
         /\ file' = file
         /\ cp' # cp => ~wal]_vars

\* Close waits for the maintenance goroutine, which waits for the lock: it
\* still ends, unless the process does.
CloseTerminates == life = "closing" ~> life \in {"closed", "down"}

\* Recovery replays the log in the order it was written (memory/README.md:
\* "replays numbered WAL segments in order"): a record with a later timestamp
\* is read after one with an earlier timestamp.
ReplaysInWriteOrder ==
    \A p, q \in Position(file) :
        At(file, p).ts < At(file, q).ts => ReadNoEarlier(q, p)

\* While the engine runs, a record leaves the log files only when a checkpoint
\* covers it: rotation bounds "the number retained before a checkpoint
\* compacts them" (memory/README.md), it does not discard them.
LoggedUntilCheckpointed ==
    [][\A p \in Position(file) :
         \/ \E q \in Position(file)' : At(file', q) = At(file, p)
         \/ At(file, p).ts <= cp'.ts]_vars
=============================================================================
