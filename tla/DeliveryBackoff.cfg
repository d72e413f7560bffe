SPECIFICATION Spec
CONSTANTS
  Capacity = 2
  MaxEvents = 2
  Producers = {p1}
  SendWindow = 2
  AckChanCap = 1
  MinBackoff = 1
  MaxBackoff = 4
  Unsendable = {}
  MaxBreaks = 2
INVARIANT
  BackoffRestarts
CHECK_DEADLOCK FALSE
