SPECIFICATION StorageSpec
CONSTANTS
  Requests = {1, 2}
  Offsets = {0, 2, 8}
  Lengths = {4, 7}
  SubIDs = {1, 10, 100}
  PageSize = 4
  Degree = 4
  BlksPerPage = 2
  InitialExtents <- MCExtents
  NewExtSize = 2
  NewExtGap = 4
  Degrees <- MCDegrees
  DiskSize = 18
  MaxBatch = 2
  Expires = {TRUE, FALSE}
  UsablePages = 3
  DirtyThreshold = 2
  WriteoutBatch = 2
  DiskReadBatch = 2
  FreeBatch = 1
  TrimInterval = 4
INVARIANTS ReadsBeforeWrites AnsweredWhenDone MovesItsBlocks CountsExact DirtyUntilSaved PinnedWhileUsed FailsOnlyIf
PROPERTY AnswersFileReqs
CHECK_DEADLOCK FALSE
