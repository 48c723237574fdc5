CONSTANTS
  p = p  q = q  None = None
  Procs = {p, q}
  Workload <- MCWorkload
  Statuses = {"FILE_ERROR", "UNEXPECTED_DATA"}
  BadIndices = {p}
  Mortal = {q}
  Impatient = {p}
SPECIFICATION Spec
INVARIANTS AccessExclusive CommitsOwnEdits  LocksReturned
CHECK_DEADLOCK FALSE
