\* Two matches, two transitions in all; a stream of the table and one of a match.
SPECIFICATION LiveFairSpec
CONSTANTS
  TableStreams = {t}
  MatchStreams = {s}
  Buffer = 2
  MaxMatches = 2
  MaxVersion = 2
  MaxConnected = 1
INVARIANTS ScoreIsNow TableIsFollowed
PROPERTIES CatchesUp
CHECK_DEADLOCK FALSE
