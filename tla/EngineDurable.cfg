\* No rotation, fsync on every write, power failures, failing appends, syncs,
\* saves and closes; the clock may stand still.
SPECIFICATION Spec
CONSTANTS
  k1 = k1
  k2 = k2
  v1 = v1
  Key = {k1, k2}
  Value = {v1}
  NoValue = NoValue
  Missing = Missing
  NoOp = NoOp
  MaxSegments = 1
  SegmentSize = 0
  CheckpointEnabled = TRUE
  CheckpointSize = 2
  SyncOnWrite = TRUE
  PowerLoss = TRUE
  FsErrors = {"append", "sync", "save", "close"}
  MinAdvance = 0
  MaxWrites = 3
  MaxClock = 3
SYMMETRY Symmetry
INVARIANTS TypeOK Recoverable
PROPERTY ImplementsDurableStore
CHECK_DEADLOCK FALSE
