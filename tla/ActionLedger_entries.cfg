SPECIFICATION ASpec
CONSTANTS
  Slices = {s1, s2}
  Keys = {"publish"}
  Gated = {"publish"}
  MaxTries = 2
  MaxCalls = 2
  MaxNotes = 1
  MaxFaults = 2
SYMMETRY SliceSymmetry
INVARIANTS ATypeOK CalledIsRecorded RepeatsAreAccounted
PROPERTY ImplementsBook
