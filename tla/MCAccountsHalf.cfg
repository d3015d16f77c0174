SPECIFICATION MCSpec
CONSTANTS
  Req = {r1, r2}
  Login = {}
  Rename = {}
  Did = {d1, d2}
  Handle = {h1}
  Email = {e1, e2}
  Doomed = {}
  Absent = Absent
INVARIANT CreatedIsRegistered
CHECK_DEADLOCK FALSE
