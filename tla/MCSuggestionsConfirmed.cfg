SPECIFICATION MCSilentSpec
CONSTANTS
    MaxFrames = 3
    MaxQueueSize = 2
    MaxRetry = 2
    MaxRecords = 2
    Pauses <- MCPauses
PROPERTIES
    ConfirmedIsFinal
CHECK_DEADLOCK FALSE
