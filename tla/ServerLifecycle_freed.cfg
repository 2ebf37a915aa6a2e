SPECIFICATION Spec
CONSTANTS
  c1 = c1
  c2 = c2
  c3 = c3
  Conns = {c1, c2}
  NoConn = NoConn
  MaxSignals = 1
INVARIANTS
  NoUseOfFreedConnection
CHECK_DEADLOCK FALSE
