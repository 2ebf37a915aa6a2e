SPECIFICATION SystemSpec
CONSTANTS
  Files = {1, 2}
  Ports = {1, 2, 3, 4}
  Nil = Nil
  MaxCommands = 2
  MaxTransfers = 2
  MaxFailures = 2
  TransferNames = {}
  MaxThreads = 3
  MaxControl = 6
  Large = {1}
  MaxBeforeEnd = 0
INVARIANTS
  PairsMeet
CHECK_DEADLOCK FALSE
