SPECIFICATION CancelledSpec
CONSTANT Job = {j1}
INVARIANT CancelIsReported
\* A call that has returned and whose goroutines are gone stops.
CHECK_DEADLOCK FALSE
