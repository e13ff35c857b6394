CONSTANTS
  FG = FG
  Workers = {w1}
  None = None
  NumL0 = 5
  MaxFile = 6
  MaxLevel = 1
  FileSize <- SizesVary
  Bytes <- MCBytes
  TargetBytes = 2
  MaxRegisterBatch = 3
  MaxCommitBatch = 2
  CommitDelay = TRUE
  Backpressure = FALSE
  SlowdownTrigger = 0
  StopTrigger = 0
  DebtPressures = {"kFree"}
  CompactionTrigger = 2
  BaseBytes = 2
  EnqueueSizes = {1, 3}
  MaxOutputs = 1
  MaxFailures = 1
SPECIFICATION Spec
INVARIANTS
  WindowNeverUndercounts
  AdmissionInOrder
  L0Bounded
