\* One match, a best of three to two that begins with the serve rally and changes ends, up to
\* seven transitions with a correction, a queue of one, closed at any moment.
SPECIFICATION Spec
CONSTANTS
  BestOf = 3
  PointsPerSet = 2
  FirstServer = ""
  Start = "serve_rally"
  ChangeEnds = TRUE
  SetOpener = "alternate"
  Matches = {m1}
  Demos = {}
  Known = {"a"}
  QueueSize = 1
  MaxTransitions = 7
  MaxCorrections = 1
  MaxLosses = 1
INVARIANTS LossesAreCounted
PROPERTIES StakeWasAnnounced CloseReturns
CHECK_DEADLOCK FALSE
