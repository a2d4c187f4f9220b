SPECIFICATION FairSpec
CONSTANTS
  key = key
  tray = tray
  Callers <- MCCallers
  MaxSessions = 2
PROPERTY
  CapturedComesToRest
CHECK_DEADLOCK FALSE
