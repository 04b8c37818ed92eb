SPECIFICATION MCSpec
CONSTANTS
    MaxFrames = 3
    MaxQueueSize = 2
    MaxRetry = 2
    Pauses <- MCPauses
INVARIANTS
    NoPromiseLeftPending
CHECK_DEADLOCK FALSE
