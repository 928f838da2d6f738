SPECIFICATION WFairSpec
CONSTANTS
  Deliveries = {"met", "other"}
  Matching = {"met"}
  Kinds = {"event", "poll"}
  Window = 1
  Patience = 2
  MaxSlices = 3
  MayYield = TRUE
  MaxWaits = 2
  MaxRepeats = 1
  MaxFaults = 1
INVARIANTS WTypeOK NoLostWake VerdictsAreJust
PROPERTIES WaitsEnd WaitsKeepBoard
