SPECIFICATION FairSpec
CONSTANTS
  c1 = c1
  c2 = c2
  code = code
  t1 = t1
  t2 = t2
  t3 = t3
  q1 = q1
  q2 = q2
  r1 = r1
  r2 = r2
  UUIDs <- MCUUIDs
  Codes <- MCCodes
  Tasks = {t1, t2, t3}
  Info <- Clashing
  RackOf <- OneRack
  Racks = {r1}
  Clients = {q1, q2}
  ClientOf <- TwoClients
  Queueing = {t1, t2, t3}
  Rejecting = {t3}
  Cancellable = {}
  MaxWaiting = 1
  NotifyCap = 1
  MaxFaults = 0
  MaxCrashes = 0
INVARIANTS TypeOK SameActorExclusion ActiveHasWorker QueueBoundSlack
PROPERTIES PromotionFIFO WaitingIsExecuted
CHECK_DEADLOCK FALSE
