SPECIFICATION Spec
CONSTANTS
    wg0 = wg0
    wg1 = wg1
    a = a
    Tags <- MCTags
    Addrs <- MCAddrs
    None = None
    MaxFaults = 1
SYMMETRY Symmetry
CHECK_DEADLOCK FALSE
INVARIANTS ActivePeersIdentified LimiterIsDisk AckedSurvives
