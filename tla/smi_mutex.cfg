CONSTANTS
  Procs = {p1, p2, p3}
  None = None
  MayDie = {p1, p2}
SPECIFICATION FairMutexSpec
INVARIANTS Exclusive LoneStarterSucceeds
PROPERTIES StartersReturn
CHECK_DEADLOCK FALSE
