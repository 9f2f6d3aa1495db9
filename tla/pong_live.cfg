\* The same under fair goroutines and timers, without league mode, holds and undos: a table
\* nobody plays at, one that breaks, and the end of the service.
SPECIFICATION FairSpec
CONSTANTS
  Modes = {"quiet", "attract"}
  SeriesGames = 2
  MaxMatches = 2
  MaxRequests = 1
  AskedIn = {"quiet"}
  MaxHolds = 0
  MaxUndos = 0
  UndoneIn = {}
  MaxFaults = 1
PROPERTIES GamesGiveWay FreeTableGetsADemo CloseReturnsInTheEnd
CHECK_DEADLOCK FALSE
