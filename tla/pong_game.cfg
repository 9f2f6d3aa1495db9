\* A best of three to two: a bot game with every fault but one of the two that must
\* not meet, a button check, and a page's presses and streams.
SPECIFICATION GamesSpec
CONSTANTS
  BestOf = 3
  PointsPerSet = 2
  FirstServer = ""
  Start = "warmup"
  ChangeEnds = TRUE
  SetOpener = "alternate"
  FaultSets <- FaultSetsApart
  RestartMaxEventID = 8
  MaxReports = 10
  MaxFaults = 2
  MaxLostAnswers = 1
  FewWon = 1
  EnoughLost = 1
  MaxMissed = 2
  MaxPrompts = 12
  MaxStrays = 1
  Posts = {p1, p2}
  Watchers = {w}
  MaxRally = 2
  MaxPosts = 4
  MaxFrames = 2
INVARIANTS NoFindings NoFalseAlarm CheckSeesItAll PressTakenOnce RelayShowsTheLatest
CHECK_DEADLOCK FALSE
