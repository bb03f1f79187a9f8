SPECIFICATION FairSpec
CONSTANTS
    Policies = {"Skip", "Queue", "QueueAll", "Replace"}
    Triggers = {"cron", "once", "event"}
    MaxQueue = 2
    MaxEvents = 3
INVARIANTS TypeOK InOrder NothingLost LatestKept ReplacedIsCancelled
PROPERTIES Delivered StopEnds
CHECK_DEADLOCK FALSE
