SPECIFICATION CSpec
CONSTANTS
    MaxSessions = 1
    MaxFailures = 2
    MaxAuthFailures = 2
    MaxErrors = 2
    Modes <- MCReporting
CHECK_DEADLOCK FALSE
INVARIANT NeverGivesUp
