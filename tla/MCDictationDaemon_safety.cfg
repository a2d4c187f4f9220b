SPECIFICATION Spec
CONSTANTS
  key = key
  tray = tray
  Callers <- MCCallers
  MaxSessions = 3
SYMMETRY CallerSymmetry
INVARIANTS
  OneCycle
  SessionOrder
  ErrorIsHonest
PROPERTY
  NoForeignCompletion
  ImplementsContract
CHECK_DEADLOCK FALSE
