CONSTANTS
  FG = FG
  Workers = {w1, w2}
  None = None
  NumL0 = 2
  MaxFile = 3
  MaxLevel = 2
  FileSize <- SizesVary
  Bytes <- MCBytes
  TargetBytes = 2
  MaxRegisterBatch = 2
  MaxCommitBatch = 2
  CommitDelay = TRUE
  Backpressure = FALSE
  SlowdownTrigger = 0
  StopTrigger = 0
  DebtPressures = {"kFree"}
  CompactionTrigger = 2
  BaseBytes = 2
  EnqueueSizes = {2}
  MaxOutputs = 1
  MaxFailures = 1
SPECIFICATION FairSpec
PROPERTY
  RequestsAnswered
