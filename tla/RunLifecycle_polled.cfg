SPECIFICATION PolledSpec
CONSTANTS
  Stages <- OneStage
  DependsOn <- OneDeps
  Ordinal <- OneOrdinal
  MaxAttempts <- OneTry
  MaxSlices <- TwoSlices
  SkipStages = {}
  Outcomes = {"COMPLETE", "FAILED_RETRYABLE", "WAITING_APPROVAL"}
  Requests = {r}
  Pollers = {p}
  Ticks = {}
  Gated = {"a"}
  Acts = {"approve", "reject", "expire", "cancel"}
  DiesAt <- OnceQueued
  MaxCrashes = 1
INVARIANTS LTypeOK CompletedIsDone
PROPERTIES KeepsLedger CancelEnds DecidedWaitIsReleased
CHECK_DEADLOCK FALSE
