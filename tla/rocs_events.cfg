SPECIFICATION Spec
CONSTANTS
  hash_func <- MCHash
  Peer <- MCPeer
  Systems <- MCSystems
  MaxSessions = 2
  MaxBadInsert = 2
  Failing = {"entry", "key", "table", "buckets", "htable", "calloc", "close_count",
             "close_fill"}
INVARIANTS TableExact NamesMatchTable SupportedOffered WritesAsDescribed
\* PAPI is not initialised more than MaxSessions times: the process ends.
CHECK_DEADLOCK FALSE
