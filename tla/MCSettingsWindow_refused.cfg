SPECIFICATION Spec
CONSTANTS
  Jobs = {1, 2}
  Sources = 1
  HandFiles <- MCHandFiles
  Edits <- MCEdits
  one = one
  two = two
  Saves <- MCSaves
  MaxActs = 3
  MaxForms = 2
  MaxStarts = 2
INVARIANTS SavedConfigLoads
CHECK_DEADLOCK FALSE
