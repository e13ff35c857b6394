CONSTANTS
  FG = FG
  Workers = {w1}
  None = None
  NumL0 = 4
  MaxFile = 4
  MaxLevel = 1
  FileSize <- ThirdLarge
  Bytes <- MCBytes
  TargetBytes = 3
  MaxRegisterBatch = 2
  MaxCommitBatch = 2
  CommitDelay = TRUE
  Backpressure = FALSE
  SlowdownTrigger = 0
  StopTrigger = 0
  DebtPressures = {"kFree"}
  CompactionTrigger = 1
  BaseBytes = 9
  EnqueueSizes = {1}
  MaxOutputs = 1
  MaxFailures = 0
SPECIFICATION Spec
INVARIANT TailDrains
