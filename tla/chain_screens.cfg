\* The same table, asking when a watch screen goes to the screensaver.
SPECIFICATION ChainSpec
CONSTANTS
  Senders = {"button-a", "button-b", "piezo"}
  SetLength = 2
  MatchLength = 3
  MaxMatches = 3
  Button <- MCButton
  SettingsIn <- MCSettings
  RigBudgets <- MCRigBudgets
  PiezoSource = "piezo"
  BoardBudgets <- MCBoardBudgets
  PageKind <- MCPageKind
  ResultHold = 1
  SaverAfter = 2
  ScreenBudgets <- MCScreenBudgets
  Plays <- MCPlays
PROPERTY SaverNeedsAFreeTable
CHECK_DEADLOCK FALSE
