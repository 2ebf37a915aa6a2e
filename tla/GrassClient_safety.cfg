SPECIFICATION Spec
CONSTANTS
  f1 = f1
  f2 = f2
  Files = {f1, f2}
  Nil = Nil
  Ports = {}
  MaxCommands = 2
  MaxTransfers = 2
  MaxFailures = 1
  TransferNames = {"put", "get"}
SYMMETRY Symmetry
INVARIANTS
  TypeOK
  FewCommandsUnderWay
  OpensTheFileAskedFor
  ThreadsAreKnown
  JoinsAStartedThread
CHECK_DEADLOCK FALSE
