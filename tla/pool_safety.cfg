CONSTANTS
  Conns = {c1, c2, c3, c4, c5}
  NoConn = NoConn
  Workers = {w1, w2, w3}
  ThreadsMax = 2
  SqLen = 2
  Master = Master
  Signal = Signal
  Nobody = Nobody
  Signals = {"TERM", "USR1"}
  MaxReload = 2
  CanFail = {"accept", "start"}
SPECIFICATION Spec
INVARIANTS
  PoolSound
  
PROPERTIES
  QueueIsFifo
SYMMETRY Symmetry
CHECK_DEADLOCK FALSE
