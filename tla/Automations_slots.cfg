SPECIFICATION UFairSpec
CONSTANTS
  Scheduled = {"daily", "broken"}
  Evented = {"after"}
  Hooked = {}
  Broken = {"broken"}
  Later = {}
  Starters = {1, 2}
  People = 1
  Limit = 2
  MaxWindows = 2
  MaxHands = 0
  MaxFaults = 1
INVARIANTS PlannedOnce
PROPERTIES BrokenDoNotStop
