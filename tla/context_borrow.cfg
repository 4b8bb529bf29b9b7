CONSTANTS
  Threads = {t1, t2}
  NoThread = NoThread
  Borrowers = {t2}
  Objects = {o1, o2}
  Contexts = {c1, c2}
  NULL = NULL
  NoObject = NoObject
  RetryMax = 2
  Debug = TRUE
  BuildFails = {"json", "entries"}
SPECIFICATION Spec
INVARIANT RefConservation
SYMMETRY Symmetry
CHECK_DEADLOCK FALSE
