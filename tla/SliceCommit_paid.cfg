SPECIFICATION SSpec
CONSTANTS
  Stages <- ChainStages
  DependsOn <- ChainDeps
  Ordinal <- ChainOrdinal
  MaxAttempts <- ChainTries
  MaxSlices <- ChainSlices
  SkipStages = {}
  Outcomes = {"COMPLETE", "PROGRESS", "WAITING_TIMED", "FAILED_RETRYABLE"}
  Workers = {w1, w2}
  SliceCalls = {1}
  Ceiling = 0
  MaxFaults = 1
SYMMETRY WorkerSymmetry
INVARIANTS STypeOK ChargesMatchSlices CheckpointIsPaid OvershootIsBounded
PROPERTIES SliceKeepsLedger
CHECK_DEADLOCK FALSE
