SPECIFICATION MCSpec
CONSTANTS
  Req = {r1, r2}
  Login = {s1}
  Rename = {u1}
  Did = {d1, d2}
  Handle = {h1, h2}
  Email = {e1, e2}
  Doomed = {d1, d2}
  Absent = Absent
SYMMETRY Symmetry
INVARIANTS
  NamesAreUnique
  AccountHasRepo
  OkIsStored
  DeletedIsGone
CHECK_DEADLOCK FALSE
