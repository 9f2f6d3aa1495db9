\* One checked-in match, won twice, the page sending too, shutdown at
\* any moment, and fairness.
SPECIFICATION FairSpec
CONSTANTS
  Matches = {m1}
  Wanted = {m1}
  CheckedIn = {m1}
  Scores = {s1}
  Grace = TRUE
  Callers = {c1, c2, c3}
  MaxWins = 2
  MaxSends = 1
INVARIANTS ShutdownLosesNothing
PROPERTIES GraceIsFull FirstSuccessStands EveryWinIsLookedAt ImplementsResultBook
CHECK_DEADLOCK FALSE
