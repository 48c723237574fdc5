SPECIFICATION Spec
CONSTANTS
  t1 = t1  t2 = t2  s1 = s1  s2 = s2  s3 = s3  d1 = d1  d2 = d2
  xgmi1 = xgmi1  xgmi2 = xgmi2  power1 = power1  ndev = ndev
  Threads = {t1, t2}
  EventSets = {s1, s2}
  ThreadOf <- MCThreadOf
  Events = {xgmi1, xgmi2, power1, ndev}
  Counters = {xgmi1, xgmi2}
  Writable = {power1}
  Devices = {d1, d2}
  NoDevice = NoDevice
  DeviceOf <- MCDeviceOf
  EventLists <- MCEventLists
  Failing = {"alloc", "open", "start", "stop", "close"}
INVARIANTS TypeOK DevicesExclusive ValueUndisturbed
PROPERTIES OwnershipSpec
CHECK_DEADLOCK FALSE
