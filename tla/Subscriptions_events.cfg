SPECIFICATION BFairSpec
CONSTANTS
  Endpoints = {"dashboard", "managed"}
  Handlers = {1, 2}
  MaxChanges = 2
  MaxFaults = 2
INVARIANTS BTypeOK AppliedIsShown
PROPERTIES EventsApply ImplementsMirror
CHECK_DEADLOCK FALSE
