\* Two taps, three attempts of two players, by fob or phone, two requests at once, two matches.
SPECIFICATION Spec
CONSTANTS
  Players = {p, q}
  Sources = {hub}
  Half = {left, right}
  Requests = {r1, r2}
  Timeout = 2
  RestartMax = 1
  MaxSources = 1
  MaxPhone = 2
  NoClaim = NoClaim
  NoSource = NoSource
  NoOne = NoOne
  MaxTaps = 2
  MaxAttempts = 3
  MaxMatches = 2
SYMMETRY Alike
INVARIANTS CheckinUsedOnce TapTakenOnce
PROPERTIES RunningMatchHasTheTable
CHECK_DEADLOCK FALSE
