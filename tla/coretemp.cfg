SPECIFICATION Spec
CONSTANTS
  s1 = s1  s2 = s2
  EventSets = {s1, s2}
  Listing <- MCListing
  Wants <- MCWants
  CORETEMP_MAX_COUNTERS = 2
  MaxSessions = 3
  Failing = {"opendir", "insert", "calloc", "energy", "open", "pread"}
INVARIANTS ReadsReturnSamples TableSafe DescriptorsReturned
\* PAPI is not initialised more than MaxSessions times: the process ends.
CHECK_DEADLOCK FALSE
