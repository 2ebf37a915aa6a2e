SPECIFICATION Spec
CONSTANTS
  f1 = f1
  f2 = f2
  Files = {f1}
  Nil = Nil
  Ports = {1}
  MaxCommands = 2
  MaxTransfers = 2
  MaxFailures = 0
  TransferNames = {}
INVARIANTS
  NoSimultaneousTransfers
CHECK_DEADLOCK FALSE
