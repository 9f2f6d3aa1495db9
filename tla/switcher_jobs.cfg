\* Two matches, a queue of one, so that jobs are dropped, a call that fails or
\* loses its answer, a person at the panel, and fairness.
SPECIFICATION FairSpec
CONSTANTS
  QueueSize = 1
  MaxMatches = 2
  MaxWins = 1
  MaxFailures = 1
INVARIANTS PanelIsWhereItBelongs
PROPERTIES KeepsItWhileRunning DeadScoreboardGoes
CHECK_DEADLOCK FALSE
