CONSTANTS
  Conns = {c1, c2}
  NoConn = NoConn
  Workers = {w1, w2}
  ThreadsMax = 2
  SqLen = 2
  Master = Master
  Signal = Signal
  Nobody = Nobody
  Signals = {}
  MaxReload = 0
  CanFail = {}
SPECIFICATION FairSpec
PROPERTY QueuedIsServed
