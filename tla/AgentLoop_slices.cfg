SPECIFICATION LSpec
CONSTANTS
  Calls = {"read", "write", "send"}
  Changes = {"write", "send"}
  Gated = {"send"}
  MaxSteps = 4
  MaxModelCalls = 3
  MaxToolCalls = 3
  MaxConsecutiveFailures = 2
  MaxFaults = 2
INVARIANTS LoopTypeOK ChangesOnce
PROPERTIES ChargesGoForward
