SPECIFICATION MCSpec
CONSTANTS
    MaxFrames = 3
    MaxQueueSize = 2
    MaxRetry = 2
    MaxRecords = 2
    Pauses <- MCPauses
PROPERTIES
    FailedIsFinal
CHECK_DEADLOCK FALSE
