SPECIFICATION RSpec
CONSTANTS
  c1 = c1
  n1 = n1
  p1 = p1
  o1 = o1
  code = code
  rk = rk
  UUIDs <- MCUUIDs
  Codes <- MCCodes
  Tasks = {t1, t2}
  Racks <- MCRacks
  RackOf <- MCRackOf
  Infos <- MCInfos
  MaxWaiting = 1
INVARIANTS Exclusive HardwareExclusive AdvisoryComplete
CHECK_DEADLOCK FALSE
