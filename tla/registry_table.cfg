\* Three matches, demo or real, two kept once over, and two requests at once.
SPECIFICATION Spec
CONSTANTS
  MaxRetained = 2
  MaxMatches = 3
  Clients = {c1, c2}
SYMMETRY Alike
INVARIANTS RealTakesTheTable RunningIsKept
PROPERTIES CurrentPassesNoneOver
CHECK_DEADLOCK TRUE
