SPECIFICATION FairSpec
CONSTANTS
  first = first
  second = second
  nobody = nobody
  Procs <- MCProcs
  Boxes <- MCBoxes
  Configs <- MCConfigs
  InTemp = FALSE
  MaxFiles = 2
  Buffer = 1
  MaxTransitions = 2
INVARIANTS
  OneDaemonListens
  PidFileNamesHolder
  ShownIsFromLastBurst
  DepcheckForesees
PROPERTIES
  StopsWhenTold
CHECK_DEADLOCK FALSE
