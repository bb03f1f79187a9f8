SPECIFICATION FairSpec
CONSTANTS
    u1 = u1
    u2 = u2
    u3 = u3
    b1 = b1
    b2 = b2
    s1 = s1
    w1 = w1
    w2 = w2
    Updates = {u1, u2, u3}
    Bundles = {b1, b2}
    Switches = {s1}
    Workers = {w1, w2}
    BundleOf <- MCBundleOf
    SwitchOf <- MCSwitchOf
    Order <- MCOrder
    Flow <- MCFlow
    Cancellable = {u1}
    MaxFaults = 1
INVARIANTS TypeOK OneWorkerPerUpdate BundleInOrder TrayExclusive BegunOnce OrphansExplained
PROPERTY Settles
CHECK_DEADLOCK FALSE
