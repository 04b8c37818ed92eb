SPECIFICATION FairSpec
CONSTANTS
    Uploads <- MCUploads
    Games <- MCGames
    Matches <- MCMatches
    Batches <- MCBatches
    Fixture <- MCFixture
    Closest <- MCClosest
    Winner <- MCWinner
    Needed <- MCNeeded
    NoMatch = "none"
    NoUpload = "nobody"
INVARIANTS
    TypeOK
    NumbersAreConsecutive
    ScoresCountGames
    MapsFollowReplays
    SuccessIsComplete
PROPERTIES
    CompletedIsFinal
    DatedDuplicatesNeverReject
    EveryUploadEnds
CHECK_DEADLOCK FALSE
