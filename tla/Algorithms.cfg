\* Source trees of three statements in two files of two functions; every form
\* of endpoint; records of two fields from loggers derived twice.
SPECIFICATION AlgSpec
CONSTANTS
  Statements <- MCStatements
  Signatures <- MCSignatures
  Segments <- MCSegments
  MaxRoutes = 2
  MaxStmts = 3
  Hosts = {"h", "api"}
  Ports = {"80", "443", "9090"}
  Names = {"", "a", "b", "c"}
  MaxFields = 2
  MaxValue = 2
  MaxAttrs = 2
  MaxLoggers = 5
INVARIANTS
  RoutesExact
  CatalogCanonical
  FieldsMerged
  BaseAgrees
CHECK_DEADLOCK FALSE
