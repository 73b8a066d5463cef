\* Rotation of tiny segments, checkpoints by size and by the ticker, killed
\* processes, a strictly advancing clock; appends, renames, closes and reopens
\* may fail.
SPECIFICATION FairSpec
CONSTANTS
  k1 = k1
  k2 = k2
  v1 = v1
  Key = {k1, k2}
  Value = {v1}
  NoValue = NoValue
  Missing = Missing
  NoOp = NoOp
  MaxSegments = 2
  SegmentSize = 1
  CheckpointEnabled = TRUE
  CheckpointSize = 3
  SyncOnWrite = FALSE
  PowerLoss = FALSE
  FsErrors = {"append", "rotate", "close", "reopen"}
  MinAdvance = 1
  MaxWrites = 3
  MaxClock = 6
PROPERTIES CheckpointWins RotationKeepsActive ClosingKeepsLog CloseTerminates
CHECK_DEADLOCK FALSE
