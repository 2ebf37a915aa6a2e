SPECIFICATION FairSpec
CONSTANTS
  c1 = c1
  c2 = c2
  c3 = c3
  Conns = {c1, c2}
  NoConn = NoConn
  MaxSignals = 2
INVARIANTS
  TypeOK
  RegistryIsSound
  NoTransferOnFreedConnection
PROPERTIES
  StopFreesEverything
  CleanupCompletes
  StopEnds
CHECK_DEADLOCK FALSE
