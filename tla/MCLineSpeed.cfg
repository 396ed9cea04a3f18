SPECIFICATION Spec
CONSTANTS
    MaxCrashes = 2
    MaxMeddling = 2
    MaxFaults = 1
INVARIANTS RunsAsConsented OwnFilesRecognised
PROPERTIES RemovedLeavesNothing OperationEnds
