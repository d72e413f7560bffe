\* Two goroutines configure while one traces; three calls in all, each Configure
\* with any of four settings: passive, plain, encrypted, encrypted with logs.
SPECIFICATION FairSpec
CONSTANTS
  Configurers = {g1, g2}
  Tracers = {t1}
  None = None
  MaxCalls = 3
  Configs <- MCConfigs
INVARIANTS
  TypeOK
  OneSender
  Revived
  NotLostOnceReady
  SaltMatchesKey
  EncryptedOnceReady
PROPERTIES
  ConfigureReturns
CHECK_DEADLOCK FALSE
