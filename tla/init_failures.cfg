SPECIFICATION FairSpec
CONSTANTS
  Threads = {t1, t2, t3}
  MaxSessions = 3
  Failing = {"load_rsmi_sym", "rsmi_init", "num_monitor_dev", "device_table",
             "event_table"}
INVARIANTS UsableWhenOK NothingLeftWhenDown
PROPERTIES ChecksReturn
\* PAPI is not initialised more than MaxSessions times: the process ends.
CHECK_DEADLOCK FALSE
