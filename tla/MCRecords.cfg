SPECIFICATION Spec
CONSTANTS
  Members = {"ada", "bea"}
  Browsers = {"b1", "b2"}
  Requests = {"r1", "r2"}
  InitialRole <- MCInitialRole
  Granted = {"viewer", "owner"}
  MaxTokens = 4
  MaxChanges = 1
  Voters = {"u", "v"}
  Editors = {"e"}
  Matches = {"m"}
  Teams = {"a", "b", "c"}
  Calendar <- MCCalendar
  Rounds <- MCRounds
  BestOf = 3
  WeekLength = 4
  Horizon = 5
  Players = {"p1"}
  Managers = {"m1"}
  Series = {"s1"}
  Questions = {"q1", "q2"}
  Automatic = {"q2"}
  RoundStarts = {}
  LastMoment = 2
  Records = {"team", "match"}
  Parent <- MCParent
  Rule <- MCRule
  Stored = {"team"}
  Actors = {"a1", "a2"}
  LastStamp = 3
  Writers = {"w1", "w2"}
  Articles = {"a1"}
  Images = {"i1"}
  Operators = {"o1", "o2"}
  OtherWriters = {"w1"}
  Backups <- MCBackups
  FirstRoles <- MCFirstRoles
  LastData = 4
  Reorderers = {"e1", "e2"}
  Maps = {"m1", "m2", "m3"}
  MaxPosition = 4
  FirstRows <- MCFirstRows
  Inserts <- MCInserts
  LastTransaction = 6
  Shots = {"i", "j"}
  LastForm = 2
  LastSave = 2
  WeekRounds = {1, 2}
  WeekRows <- MCWeekRows
  WeekRoles = {"top", "mid"}
  MemberOf <- MCMemberOf
  LastQuintet = 2
  LastChange = 1
  LastWeekVisit = 2
INVARIANTS
  RecordTypesOK
  OwnerRemains
  OneSessionPerSignIn
PROPERTIES
  VotesStand
  BallotsStand
  RecordsStand
  ImportReplacesWhatWasShown
  UsedImagesStay
CHECK_DEADLOCK FALSE
