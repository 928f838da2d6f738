SPECIFICATION Spec
CONSTANTS
  Stages <- ChainStages
  DependsOn <- ChainDeps
  Ordinal <- ChainOrdinal
  MaxAttempts <- ChainAttempts
  MaxSlices <- ChainSlices
  SkipStages = {"a"}
  Outcomes = {"COMPLETE", "PROGRESS", "WAITING_APPROVAL", "WAITING_HUMAN", "WAITING_EVENT", "BLOCKED", "WAITING_TIMED", "FAILED_RETRYABLE", "FAILED_FINAL"}
INVARIANTS TypeOK HeldIffRunning CountersAreRight StartsAfterDependencies
PROPERTIES HolderKeepsStage RowsFollowTables ImplementsBoard
