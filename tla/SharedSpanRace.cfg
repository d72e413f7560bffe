\* One key and three calls: End, and the setters that race it.
SPECIFICATION SpanSpec
CONSTANTS
  Keys = {k1}
  Values = {v1}
  Unfit = {}
  NoValue = none
  Errors = {"e1"}
  Codes = {500}
  MaxCalls = 3
  MaxSends = 1
INVARIANT
  SafeForConcurrentUse
CHECK_DEADLOCK FALSE
