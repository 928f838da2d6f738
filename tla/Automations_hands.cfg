SPECIFICATION USpec
CONSTANTS
  Scheduled = {"daily"}
  Evented = {"after"}
  Hooked = {"hook"}
  Broken = {}
  Later = {"daily"}
  Starters = {t1, t2}
  People = 1
  Limit = 1
  MaxWindows = 1
  MaxHands = 1
  MaxFaults = 1
SYMMETRY StarterSymmetry
INVARIANTS UTypeOK NoLoops LastIsTrue
PROPERTIES WindowHasRun
