SPECIFICATION SpanSpec
CONSTANTS
  Keys = {k1, k2}
  Values = {v1, v2}
  Unfit = {v2}
  NoValue = none
  Errors = {"e1", "e2"}
  Codes = {500}
  MaxCalls = 5
  MaxSends = 2
INVARIANTS
  EnqueuedOnce
  SetBeforeEndShips
  ReplayAgrees
CHECK_DEADLOCK FALSE
