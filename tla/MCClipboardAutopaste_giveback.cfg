SPECIFICATION FairSpec
CONSTANTS
  Restore = TRUE
  MaxCycles = 2
  MaxCopies = 1
  MaxOutputs = 2
INVARIANTS
  CleanCycleGivesBack
  NothingOlderIsRestored
PROPERTIES
  RestoreSparesTheUser
  PasteIsGuarded
  CycleEnds
CHECK_DEADLOCK FALSE
