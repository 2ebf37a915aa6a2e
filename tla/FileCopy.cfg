SPECIFICATION FairSpec
CONSTANTS
  Half = 8
  ChunkSize = 3
  Capacity = 4
INVARIANTS
  TypeOK
  NothingBeyondSize
  SuccessIsComplete
  ShortSendIsExplained
PROPERTIES
  ReceiverReturns
CHECK_DEADLOCK FALSE
