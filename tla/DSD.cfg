SPECIFICATION FairSpec
CONSTANTS
  Configurations <- MCConfigurations
INVARIANTS AbortOnlyOnOverflow ReadsReturnedExactly WritesFinishedExactly RecordsMatchQueues
PROPERTY AnswersAll
CHECK_DEADLOCK FALSE
