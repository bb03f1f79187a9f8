SPECIFICATION FairSpec
CONSTANTS
    Calls = {c1, c2}
    Leases = {l1, l2, l3}
    Prefixes <- MCPrefixes
    MaxAttempts = 3
    MaxVersion = 4
INVARIANTS TypeOK LeasesDisjoint Bookkeeping HolderProceeds
PROPERTIES CallsEnd ImplementsPool
CHECK_DEADLOCK FALSE
