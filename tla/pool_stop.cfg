CONSTANTS
  Conns = {c1, c2, c3}
  NoConn = NoConn
  Workers = {w1, w2}
  ThreadsMax = 2
  SqLen = 1
  Master = Master
  Signal = Signal
  Nobody = Nobody
  Signals = {"TERM"}
  MaxReload = 0
  CanFail = {"accept", "start"}
SPECIFICATION FairSpec
PROPERTY StopEnds
CHECK_DEADLOCK FALSE
