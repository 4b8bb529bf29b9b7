CONSTANTS
  Conns = {c1, c2}
  NoConn = NoConn
  Workers = {w1}
  ThreadsMax = 1
  SqLen = 2
  Master = Master
  Signal = Signal
  Nobody = Nobody
  Signals = {"USR1"}
  MaxReload = 1
  CanFail = {}
SPECIFICATION FairSpec
PROPERTY ReloadCompletes
CHECK_DEADLOCK FALSE
