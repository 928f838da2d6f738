SPECIFICATION WFairSpec
CONSTANTS
  Deliveries = {}
  Matching = {}
  Kinds = {"poll"}
  Window = 50
  Patience = 24
  MaxSlices = 8
  MayYield = FALSE
  MaxWaits = 1
  MaxRepeats = 0
  MaxFaults = 0
INVARIANTS GivesUpAtDeadline
