SPECIFICATION Spec
CONSTANTS
  f1 = f1
  f2 = f2
  f3 = f3
  f4 = f4
  r1 = r1
  r2 = r2
  Fds = {f1, f2, f3}
  ForeignFds = {f1}
  Requests = {r1, r2}
  Nil = Nil
  MaxThreads = 2
  MaxControl = 1
SYMMETRY Symmetry
INVARIANTS
  TypeOK
  NoTransferOutlivesConnection
  
  NoDataDescriptorLeak
  TransferServesItsRequest
  OneThreadPerDirection
  
PROPERTIES
  ImplementsSharedChannel
CHECK_DEADLOCK FALSE
