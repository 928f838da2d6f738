SPECIFICATION WatchedSpec
CONSTANTS
  Stages <- OneStage
  DependsOn <- OneDeps
  Ordinal <- OneOrdinal
  MaxAttempts <- OneTry
  MaxSlices <- TwoSlices
  SkipStages = {}
  Outcomes = {"COMPLETE", "WAITING_APPROVAL"}
  Requests = {r}
  Pollers = {p}
  Ticks = {t}
  Gated = {"a"}
  Acts = {"approve", "reject"}
  DiesAt <- OnceQueued
  MaxCrashes = 0
PROPERTY RejectedRunIsReported
CHECK_DEADLOCK FALSE
