SPECIFICATION Spec
CONSTANTS
  Cid = {c1}
  Inode = {1, 2, 3, 4, 5}
  Nothing = Nothing
  Faults = {"up"}
INVARIANT MovedIsStored
CHECK_DEADLOCK FALSE
