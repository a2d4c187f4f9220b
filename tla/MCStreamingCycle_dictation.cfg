SPECIFICATION FairSpec
CONSTANTS
  MaxWords = 2
  Buffer = 1
INVARIANTS
  SpokenOnce
  AtMostOneSlips
  SideChannelOutlivesRecorder
  RecorderContract
  CleanReturn
PROPERTIES
  CycleReturns
CHECK_DEADLOCK FALSE
