CONSTANT NumNodes = 1
SPECIFICATION MCLogSpec
INVARIANTS
    LogsBeforeTermination
    FailedDumpHasRival
PROPERTIES
    Termination
    FailureReported
