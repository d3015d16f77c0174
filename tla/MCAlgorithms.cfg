SPECIFICATION MCSpec
CONSTANTS
  List = {l1, l2}
  Elem = {e1, e2, e3, e4}
  Value = {v1, v2}
  Nil = Nil
  Width = 4
  Overlong = Overlong
  WriteUri = {u1, u2}
  WriteCid = {r1, r2}
  Record = {r1, r2, Odd}
  CidOf <- MCCidOf
  Odd = Odd
  Parses <- MCParses
  Long <- MCLong
  Rejected = Rejected
  NoValue = Nil
  CommitInput <- CommitInputs
  QueryInput <- QueryInputs
  SomeResponse <- Responses
  SomeError <- Errs
  SomeStatus = {400, 404, 405, 500, 502}
  c1 = c1
  c2 = c2
  u1 = u1
  u2 = u2
  r1 = r1
  r2 = r2
SYMMETRY Symmetry
INVARIANTS
  RingsAreLinked
  CursorIsOld
  SignedIsRead
  WriteIsRead
  CidIsKept
  QueryIsRead
  ErrorIsRelayed
  ImportsAreUsed
PROPERTY ImplementsOrderedList
