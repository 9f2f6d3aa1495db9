\* One table: presses at two buttons, a piezo board whose calls go unanswered, somebody at
\* the page, and the screens, in every play MCPlays lists.
SPECIFICATION ChainSpec
CONSTANTS
  Senders = {"button-a", "button-b", "piezo"}
  SetLength = 2
  MatchLength = 3
  MaxMatches = 3
  Button <- MCButton
  SettingsIn <- MCSettings
  RigBudgets <- MCRigBudgets
  PiezoSource = "piezo"
  BoardBudgets <- MCBoardBudgets
  PageKind <- MCPageKind
  ResultHold = 1
  SaverAfter = 2
  ScreenBudgets <- MCScreenBudgets
  Plays <- MCPlays
INVARIANTS CountsOnce UsedOnce LongsAreAnswered ResendIsQuiet
PROPERTY ResultsStayUp
CHECK_DEADLOCK FALSE
