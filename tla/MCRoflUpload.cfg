SPECIFICATION FairSpec
CONSTANTS
    Connections = {"a", "b", "c"}
    Singles = {"a"}
    NoDir = NoDir
    MaxUploads = 1
INVARIANTS
    TypeOK
    TurnHasOneOwner
    PositionsAreCurrent
    DirectoriesHaveOwners
PROPERTIES
    QueueMoves
CHECK_DEADLOCK FALSE
