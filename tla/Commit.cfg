CONSTANTS
  FG = FG
  Workers = {w1, w2, w3}
  None = None
  NumL0 = 3
  MaxFile = 3
  MaxLevel = 2
  FileSize <- SizeOne
  Bytes <- MCBytes
  TargetBytes = 3
  MaxRegisterBatch = 3
  MaxCommitBatch = 1
  CommitDelay = FALSE
  Backpressure = FALSE
  SlowdownTrigger = 0
  StopTrigger = 0
  DebtPressures = {"kFree"}
  CompactionTrigger = 2
  BaseBytes = 2
  EnqueueSizes = {3}
  MaxOutputs = 1
  MaxFailures = 0
SPECIFICATION Spec
SYMMETRY WorkerSymmetry
INVARIANTS
  NoRequestForgotten
