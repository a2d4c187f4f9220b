SPECIFICATION FairSpec
CONSTANTS
  Users = {dictation, other}
  NoUser = nobody
  Dictation = dictation
  Paths = {small, medium}
  NoPath = none
  MaxModels = 3
  MaxAttempts = 3
  Recordings <- MCRecordings
INVARIANTS
  NoAnswerAskedTwice
  AuditTellsUploads
  ModelMemory
  OnlyQuietIsWithheld
PROPERTIES
  NothingUploadedAfterCancel
  TranscribeReturns
CHECK_DEADLOCK FALSE
