SPECIFICATION MCSpec
CONSTANTS
  u1 = u1
  u2 = u2
  s1 = s1
  t1 = t1
  t2 = t2
  c1 = c1
  v1 = v1
  v2 = v2
  Tx = {t1, t2}
  Uri = {u1, u2}
  Subject = {s1}
  Type = {"follow", "like"}
  Batch <- MCBatch
  MaxRev = 2
  Absent = Absent
  Cid = {c1}
  Inode = {1, 2, 3, 4, 5}
  Nothing = Absent
  Faults = {"up", "mod"}
  Key = {u1, u2}
  Value = {v1, v2}
  Edits <- MCEdits
  Revs = 2
  Undef = Absent
SYMMETRY Symmetry
INVARIANTS
  OneRoot
  LinksHaveRecords
  WholeWhenQuiet
  NothingDangles
PROPERTY ImplementsRecordIndex
CHECK_DEADLOCK FALSE
