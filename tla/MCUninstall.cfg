CONSTANTS
    d1 = d1
    d2 = d2
    w1 = w1
    Hosts <- MCHosts
    Runners <- MCRunners
    WarpRequests = {w1}
    SuccessAttempts = 1
    FailureAttempts = 1
    MaxMishaps = 2
SPECIFICATION Spec
SYMMETRY Symmetric
CHECK_DEADLOCK FALSE
INVARIANTS CommitIsTotal FailureIsUndone NothingLost MarkerOutlivesAccount
PROPERTIES WarpKeepsItsAgent
