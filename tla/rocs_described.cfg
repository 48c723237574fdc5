SPECIFICATION Spec
CONSTANTS
  hash_func <- MCHash
  Peer <- MCPeer
  Systems <- FanSystems
  MaxSessions = 1
  MaxBadInsert = 0
  Failing = {}
INVARIANT DescribedAccessWorks
CHECK_DEADLOCK FALSE
