SPECIFICATION MCFairSpec
CONSTANTS
    MaxFrames = 3
    MaxQueueSize = 2
    MaxRetry = 2
    Pauses <- MCPauses
INVARIANTS
    TypeOK
    OneOnTheWire
    RetryBudget
    AckBeforeResolve
    NoFrameLost
PROPERTIES
    InOrder
    Delivers
    EverySendSettles
CHECK_DEADLOCK FALSE
