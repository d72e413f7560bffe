\* Three nested layers and two spans; client calls with up to two layers
\* around them, and two tries of database/sql.
SPECIFICATION ClientSpec
CONSTANTS
  Goroutines = {g1}
  MaxDepth = 3
  MaxSpans = 2
  MaxTries = 2
  CallDepth = 2
INVARIANTS
  ActiveSpans
  PanicNotMasked
  RequestsShip
  ResultTold
  JoinsAmbientTrace
PROPERTIES
  EndedIsFinal
\* The bounds may leave a goroutine nothing to do.
CHECK_DEADLOCK FALSE
