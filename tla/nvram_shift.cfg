CONSTANTS
  Threads = {t1}
  NoThread = NoThread
  Names <- ThreeNames
  Values <- OneValue
  StrLen <- MCStrLen
  NodeListSize = 4
  MaxAlloc = 8
  MaxBatch = 0
  Ops <- ChangeOps
SPECIFICATION Spec
PROPERTY DeleteShifts
CHECK_DEADLOCK FALSE
