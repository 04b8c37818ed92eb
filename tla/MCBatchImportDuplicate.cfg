SPECIFICATION Spec
CONSTANTS
    Uploads <- MCUploads
    Games <- MCGames
    Matches <- MCMatches
    Batches <- MCBatches
    Fixture <- MCFixture
    Closest <- MCClosest
    Winner <- MCWinner
    Needed <- MCNeeded
    NoMatch = "none"
    NoUpload = "nobody"
PROPERTY AnyDuplicateNeverRejects
CHECK_DEADLOCK FALSE
