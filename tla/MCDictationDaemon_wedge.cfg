SPECIFICATION FairSpec
CONSTANTS
  key = key
  tray = tray
  Callers <- MCOneCaller
  MaxSessions = 2
PROPERTY
  EveryDictationComesToRest
CHECK_DEADLOCK FALSE
