CONSTANTS
  FG = FG
  Workers = {w1}
  None = None
  NumL0 = 4
  MaxFile = 6
  MaxLevel = 1
  FileSize <- SizesVary
  Bytes <- MCBytes
  TargetBytes = 2
  MaxRegisterBatch = 2
  MaxCommitBatch = 2
  CommitDelay = TRUE
  Backpressure = FALSE
  SlowdownTrigger = 0
  StopTrigger = 0
  DebtPressures = {"kFree"}
  CompactionTrigger = 2
  BaseBytes = 3
  EnqueueSizes = {1, 2}
  MaxOutputs = 1
  MaxFailures = 1
SPECIFICATION Spec
INVARIANT DrainedBeforePhase2
