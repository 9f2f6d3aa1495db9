\* A best of three to two with everything the API lets a match have: warm-up,
\* serve rally, changes of ends and the loser opening the next set, and points
\* taken back.  One source with two ids and a counter that may restart at the
\* lower: events come late and again, and after a quiet period the counter
\* starts over, which gives unlimited events.
SPECIFICATION Spec
CONSTANTS
  BestOf = 3
  PointsPerSet = 2
  FirstServer = ""
  Start = "warmup"
  ChangeEnds = TRUE
  SetOpener = "loser"
  Sources = {"piezo"}
  EventIds = {1, 2}
  Deltas <- CorrectingDeltas
  RestartMaxEventID = 1
  RestartQuietPeriod = 1
  MaxPoints = 4
  MaxUndo = 6
INVARIANTS TypeOK ScoresAreLegal UndoTakesBackOneEvent CountedOnce
PROPERTIES ServeFollowsTheLaws
CHECK_DEADLOCK TRUE
