SPECIFICATION Spec
CONSTANTS
    s1 = s1
    s2 = s2
    a1 = a1
    b1 = b1
    p1 = p1
    p2 = p2
    c1 = c1
    c2 = c2
    t1 = t1
    t2 = t2
    t3 = t3
    Schedules = {s1}
    Scopes = {a1, b1}
    ScheduleOf <- SameSchedule
    RackOf <- RackEach
    Tasks = {t1}
    Pollers = {p1}
    Callers = {c1, c2}
    Calls = {"trigger", "resume", "update", "rescope", "remove", "pause", "delete"}
    Policies = {"skip"}
    Batch = 1
    MaxFaults = 1
SYMMETRY Symmetric
INVARIANTS TypeOK SnapshotCurrent EnabledHasNextRun
PROPERTIES AtMostOnce PauseHolds LastScopeStays
CHECK_DEADLOCK FALSE
