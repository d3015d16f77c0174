SPECIFICATION Spec
CONSTANTS
  k1 = k1
  k2 = k2
  v1 = v1
  v2 = v2
  Key = {k1, k2}
  Value = {v1, v2}
  Batch <- MCBatch
  MaxRev = 2
  Undef = Undef
INVARIANT LoadedIsCommitted
CHECK_DEADLOCK FALSE
