SPECIFICATION MCSpec
CONSTANTS
  Call = {c1, c2, c3}
  Sub = {s1, s2, s3}
  MaxLife = 2
  ReadFaults = TRUE
SYMMETRY Symmetry
INVARIANTS
  StreamsAreUnique
  RealTimeOrder
  StoredWasSeen
PROPERTIES
  NoStoredNumberAgain
CHECK_DEADLOCK FALSE
