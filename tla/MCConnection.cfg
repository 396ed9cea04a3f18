SPECIFICATION CFairSpec
CONSTANTS
    MaxSessions = 2
    MaxFailures = 2
    MaxAuthFailures = 2
    MaxErrors = 2
    Modes <- MCFallingBack
CHECK_DEADLOCK FALSE
PROPERTIES StoppedIsFinal HiddenAtLast WebSocketAtLast FallsBackToHTTP
