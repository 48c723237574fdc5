CONSTANTS
  t1 = t1
  t2 = t2
  col1 = col1
  Threads <- TwoThreads
  Collectors <- OneCollector
  MaxMetrics = 3
  NumBufElems = 7
  NUM_EVENTS = 2
  EventListCap = 1
  HaveDebug = TRUE
  FailuresReturn = FALSE
  Failing <- EveryFailure
SPECIFICATION Spec
INVARIANTS NoOverrun RowsAreSamples SamplerGone
CHECK_DEADLOCK FALSE
