\* A logger around the core of the host.
SPECIFICATION LogSpec
CONSTANTS
  Names = {"a"}
  MaxFields = 2
  MaxValue = 2
  MaxAttrs = 1
  MaxLoggers = 4
INVARIANT HostWritesOnce
CHECK_DEADLOCK FALSE
