\* A buffer of two lines, flushed when full in batches of one: the buffer
\* overflows, a take needs two batches, FlushLogs and the background flusher
\* work at the same time, and every POST may fail, stored or not.
SPECIFICATION FairSpec
CONSTANTS
  Loggers = {l1, l2}
  Callers = {c1}
  Background = bg
  BufferSize = 2
  FlushLines = 2
  MaxBatch = 1
  MaxLines = 3
INVARIANTS
  TypeOK
  PendingIsNewest
  OneOwner
  Accounted
  AtMostTwice
  NoLostSignal
  FlushEmpties
PROPERTIES
  EventuallySettled
  ImplementsBestEffort
