\* Default proportions: the checkpoint size is below what the segments may
\* retain, (MaxSegments + 1) * SegmentSize.
SPECIFICATION Spec
CONSTANTS
  k1 = k1
  v1 = v1
  Key = {k1}
  Value = {v1}
  NoValue = NoValue
  Missing = Missing
  NoOp = NoOp
  MaxSegments = 2
  SegmentSize = 2
  CheckpointEnabled = TRUE
  CheckpointSize = 5
  SyncOnWrite = TRUE
  PowerLoss = FALSE
  FsErrors = {}
  MinAdvance = 1
  MaxWrites = 5
  MaxClock = 7
PROPERTY LoggedUntilCheckpointed
CHECK_DEADLOCK FALSE
