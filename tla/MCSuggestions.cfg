SPECIFICATION MCSpec
CONSTANTS
    MaxFrames = 3
    MaxQueueSize = 2
    MaxRetry = 2
    MaxRecords = 2
    Pauses <- MCPauses
INVARIANTS
    ServiceTypeOK
    StatusFollowsDelivery
PROPERTIES
    NoWayBack
CHECK_DEADLOCK FALSE
