SPECIFICATION Spec
CONSTANTS
  Did = {d1}
  Handle = {h1}
  Owner <- MCOwner
  Proc = {p1, p2}
  DocTTL = 1
  HttpTTL = 1
  MaxHold = 1
  MaxTime = 4
  MaxChange = 1
  MaxRun = 3
  MaxPurge = 1
SYMMETRY Symmetry
INVARIANTS TablesAreMade RefillsGoForward
PROPERTIES AnswersAreFresh PurgeForgets
CHECK_DEADLOCK FALSE
