SPECIFICATION Spec
CONSTANTS
    s1 = s1
    s2 = s2
    a1 = a1
    b1 = b1
    p1 = p1
    p2 = p2
    c1 = c1
    c2 = c2
    t1 = t1
    t2 = t2
    t3 = t3
    Schedules = {s1}
    Scopes = {a1}
    ScheduleOf <- OneScope
    RackOf <- OneRack
    Tasks = {t1, t2}
    Pollers = {p1, p2}
    Callers = {c1}
    Calls = {}
    Policies = {"skip"}
    Batch = 1
    MaxFaults = 0
PROPERTY SkipHolds
CHECK_DEADLOCK FALSE
