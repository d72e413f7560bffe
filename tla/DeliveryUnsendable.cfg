\* The first of two events cannot be marshalled.
SPECIFICATION FairSpec
CONSTANTS
  Capacity = 2
  MaxEvents = 2
  Producers = {p1}
  SendWindow = 2
  AckChanCap = 1
  MinBackoff = 1
  MaxBackoff = 2
  Unsendable = {1}
  MaxBreaks = 1
PROPERTY AllDelivered
CHECK_DEADLOCK FALSE
