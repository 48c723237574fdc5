CONSTANTS
  t1 = t1
  t2 = t2
  d1 = d1
  d2 = d2
  d3 = d3
  Threads = {t1, t2}
  Devices = {d1, d2, d3}
  Firmware <- MCFirmware
  Calls <- MCCalls
SPECIFICATION Spec
INVARIANTS AnswersAreSamples NothingHidden
