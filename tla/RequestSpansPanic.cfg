SPECIFICATION Spec
CONSTANTS
  Goroutines = {g1}
  MaxDepth = 2
  MaxSpans = 2
INVARIANT
  PanicEvidenceShips
CHECK_DEADLOCK FALSE
