SPECIFICATION NamesSpec
CONSTANTS
  Callers = {"c1", "c2"}
  HasUrl = TRUE
  CacheFor = 2
  ProbeLimit = 2
  LastTick = 7
  Clients = {"k1", "k2"}
  Limit <- MCLimit
  WindowMs = 2
  MaxClients = 1
  LastInstant = 4
  Avatars = {"a", "b", "c"}
  Sizes = {1, 2}
  MaxPending = 2
  MaxEntries = 2
  MaxBytes = 3
  Ttl = 1
  LastHour = 3
  Requests = {"g1", "g2", "g3"}
  Writes = {"w1"}
  Queries = {"teams", "articles"}
  Missing = Missing
  HttpRequests = {"r1", "r2"}
  UploadHandlers = {"u1"}
  MaxCleanups = 2
  Archives <- NamesArchives
  Pool = {"w1", "w2"}
  UserOf <- MCUserOf
  Undated = 99
  AwardedMatches = {1}
  SeriesFormat <- MCSeriesFormat
  GameReplays <- MCGameReplays
  Histories <- MCHistories
  Applying = {"b1", "b2"}
  DryRuns = {"d"}
  Leaving = {1}
  Division = {1, 2, 3}
  Fixtures <- MCFixtures
  StageOf <- MCStageOf
  NoRound = 0
  Champions = {1, 2}
  TableFormat = 1
  Ids = {1, 2, 3}
  Names <- MCNames
  Contexts <- MCContexts
  Fallback = "team"
  Digest <- MCDigest
  Counters <- MCCounters
  Uuids <- MCUuids
  LineupRoles <- MCLineupRoles
  Accounts = {1, 2, 3}
  MostGames = 1
  Pages = {"p", "q"}
  FirstPage = "p"
  Saves = {"s1"}
  LastVersion = 3
  LastGeneration = 5
  MaxPosts = 2
  MaxPollErrors = 3
  RetryDelay = 1
  MaxUploadsShown = 2
  Slices = 2
  ByScore = {"b", "l", "lf"}
  Surprises = {"u", "lf"}
  MaxCancelled = 1
  MayWithdraw = {4}
  Profiles = {1, 2, 3}
  MainProfiles = {1, 3}
  HolderOf <- MCHolderOf
  DivisionOf <- MCDivisionOf
  SeasonOf <- MCSeasonOf
  SeasonList <- MCSeasonList
  RoundStart <- MCRoundStart
  Bouts <- MCBouts
  Endings <- MCEndings
  Signings <- MCSignings
  TableRows = {"t1"}
  LastWrite = 3
  LastVisit = 2
  PageMembers = {"me", "m1"}
  Me = "me"
  GivenRoles = {"owner", "viewer"}
  LastRoleChange = 3
  LastRolesVisit = 2
  BackupFiles = {"f", "g"}
  LastContents = 3
  LastTransferVisit = 2
  Competitions = {"d1", "d2"}
  RoundsIn <- MCRoundsIn
  FirstCompetition <- MCFirstCompetition
  FirstFixture <- MCFirstFixture
  Movable = {"c"}
  LastMove = 1
  LastFixture = 2
  LastEdit = 2
  MatchMaps = {"m1", "m2", "m3"}
  LastReorder = 2
  Seats <- MCSeats
  Contenders = {"x", "y", "z"}
  LastBallot = 2
  LastPublished = 2
  PredictionPages = {"p", "q"}
  FirstPredictions = "p"
  OpenPages = {"p"}
  LastPickSave = 2
  Wins = 1
  Paths = {"a", "b", "c"}
  FirstPath = "a"
  LastEntry = 4
  LastMoves = 3
INVARIANT
  OneOutputPerReplay
CHECK_DEADLOCK FALSE
