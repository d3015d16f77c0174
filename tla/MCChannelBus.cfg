SPECIFICATION MCSpec
CONSTANTS
  Sub = {s1, s2}
  Pub = {p1, p2}
  MaxMsg = 2
INVARIANTS
  NoSilentLoss
  RegistryExact
  PanicWindow
  Fifo
PROPERTIES
  PubEnds
  LockIsGranted
CHECK_DEADLOCK FALSE
