CONSTANTS
  FG = FG
  Workers = {w1}
  None = None
  NumL0 = 7
  MaxFile = 7
  MaxLevel = 1
  FileSize <- SizeOne
  Bytes <- MCBytes
  TargetBytes = 7
  MaxRegisterBatch = 2
  MaxCommitBatch = 2
  CommitDelay = TRUE
  Backpressure = TRUE
  SlowdownTrigger = 1
  StopTrigger = 3
  DebtPressures = {"kFree", "kSlowdown", "kStop"}
  CompactionTrigger = 1
  BaseBytes = 2
  EnqueueSizes = {1, 2}
  MaxOutputs = 1
  MaxFailures = 1
SPECIFICATION Spec
INVARIANTS
  L0CountBounded
