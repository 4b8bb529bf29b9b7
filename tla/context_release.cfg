CONSTANTS
  Threads = {t1, t2, t3}
  NoThread = NoThread
  Borrowers = {}
  Objects = {o1, o2}
  Contexts = {c1, c2}
  NULL = NULL
  NoObject = NoObject
  RetryMax = 2
  Debug = FALSE
  BuildFails = {"json"}
SPECIFICATION FairSpec
INVARIANTS TypeOK RefConservation NoUseAfterFree RetryNeverHelps
PROPERTIES SingleContext MutexReleased
