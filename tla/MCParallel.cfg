SPECIFICATION FairSpec
CONSTANT Job = {j1, j2, j3}
INVARIANTS
  NilMeansQuiet
  NilMeansSuccess
PROPERTIES
  ResultsStayPut
  Promise
  CallReturns
  GoroutinesExit
\* A call that has returned and whose goroutines are gone stops.
CHECK_DEADLOCK FALSE
