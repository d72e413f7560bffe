\* Two producers, a window of two, a buffer of three, five events and one
\* failure: the buffer overflows while a window is in flight and a window is
\* acknowledged in parts.  The last event cannot be sent: each attempt ends the
\* stream, so replays follow replays that ended in the middle.
SPECIFICATION FairSpec
CONSTANTS
  Capacity = 3
  MaxEvents = 5
  Producers = {p1, p2}
  SendWindow = 2
  AckChanCap = 1
  MinBackoff = 1
  MaxBackoff = 1
  Unsendable = {5}
  MaxBreaks = 1
INVARIANTS
  TypeOK
  TrimmedIsDurable
  NoGaps
  AcksAreDurable
  NoLostWakeup
  Contiguous
  AfterIsExact
PROPERTIES
  ImplementsLog
  EventuallyDelivered
  EventuallyDrained
  OldestLeaveFirst
\* With nothing left to add the sender rests on the wake channel.
CHECK_DEADLOCK FALSE
