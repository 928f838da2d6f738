SPECIFICATION TickedSpec
CONSTANTS
  Stages <- OneStage
  DependsOn <- OneDeps
  Ordinal <- OneOrdinal
  MaxAttempts <- OneTry
  MaxSlices <- TwoSlices
  SkipStages = {"a"}
  Outcomes = {"COMPLETE", "BLOCKED", "FAILED_FINAL"}
  Requests = {r}
  Pollers = {p}
  Ticks = {t}
  Gated = {}
  Acts = {"pause"}
  DiesAt <- OnceQueued
  MaxCrashes = 1
PROPERTIES RunEnds
CHECK_DEADLOCK FALSE
