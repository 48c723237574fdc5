CONSTANTS
  t1 = t1
  t2 = t2
  col1 = col1
  Threads <- TwoThreads
  Collectors <- OneCollector
  MaxMetrics = 2
  NumBufElems = 6
  NUM_EVENTS = 32
  EventListCap = 2
  HaveDebug = FALSE
  FailuresReturn = TRUE
  Failing <- NoFailure
SPECIFICATION FairSpec
INVARIANTS TypeOK OneEntryPerThread NothingLost NoFault
PROPERTIES LogSpec CollectReturns
CHECK_DEADLOCK FALSE
