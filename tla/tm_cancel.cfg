SPECIFICATION Spec
CONSTANTS
  c1 = c1
  c2 = c2
  code = code
  t1 = t1
  t2 = t2
  t3 = t3
  q1 = q1
  q2 = q2
  r1 = r1
  r2 = r2
  UUIDs <- MCUUIDs
  Codes <- MCCodes
  Tasks = {t1}
  Info <- Clashing
  RackOf <- OneRack
  Racks = {r1}
  Clients = {q1}
  ClientOf <- OneClient
  Queueing = {}
  Rejecting = {t1}
  Cancellable = {t1}
  MaxWaiting = 1
  NotifyCap = 1
  MaxFaults = 0
  MaxCrashes = 0
PROPERTIES CancelHolds
CHECK_DEADLOCK FALSE
