CONSTANTS
  Threads = {t1}
  NoThread = NoThread
  Names <- TwoNames
  Values <- TwoValues
  StrLen <- MCStrLen
  NodeListSize = 3
  MaxAlloc = 7
  MaxBatch = 2
  Ops <- EveryOp
SPECIFICATION FairSpec
INVARIANTS
  TypeOK
  MemorySafe
  GetReturnsStored
  BlocksOwned
PROPERTIES
  InsertKeepsNodes
  HolderFinishes
CHECK_DEADLOCK FALSE
