SPECIFICATION ServingSpec
CONSTANTS
  Sub = {s1, s2, s3}
  Pub = {}
  MaxMsg = 0
INVARIANT OpenIsRegistered
CHECK_DEADLOCK FALSE
