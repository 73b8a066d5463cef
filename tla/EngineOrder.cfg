\* Rotation of tiny segments, checkpoints by size and by the ticker, killed
\* processes, a strictly advancing clock and no failing file operation.
SPECIFICATION Spec
CONSTANTS
  k1 = k1
  k2 = k2
  v1 = v1
  Key = {k1, k2}
  Value = {v1}
  NoValue = NoValue
  Missing = Missing
  NoOp = NoOp
  MaxSegments = 2
  SegmentSize = 1
  CheckpointEnabled = TRUE
  CheckpointSize = 3
  SyncOnWrite = FALSE
  PowerLoss = FALSE
  FsErrors = {}
  MinAdvance = 1
  MaxWrites = 4
  MaxClock = 7
SYMMETRY Symmetry
INVARIANT ReplaysInWriteOrder
CHECK_DEADLOCK FALSE
