CONSTANTS
  Threads = {t1}
  NoThread = NoThread
  Names <- ThreeNames
  Values <- TwoValues
  StrLen <- MCStrLen
  NodeListSize = 4
  MaxAlloc = 9
  MaxBatch = 0
  Ops <- ChangeOps
SPECIFICATION Spec
INVARIANTS
  SpaceAccounted
CHECK_DEADLOCK FALSE
