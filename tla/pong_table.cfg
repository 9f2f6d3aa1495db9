\* Attract mode, league mode and neither; the lobby and a page ask once, others bring two
\* matches, a win is taken back once, and one call or stream fails before the service ends.
SPECIFICATION Spec
CONSTANTS
  Modes = {"quiet", "attract", "league"}
  SeriesGames = 2
  MaxMatches = 2
  MaxRequests = 1
  AskedIn = {"quiet", "attract"}
  MaxHolds = 1
  MaxUndos = 1
  UndoneIn = {"quiet", "league"}
  MaxFaults = 1
INVARIANTS OneGameAtATime NoMatchLeftBehind
CHECK_DEADLOCK FALSE
