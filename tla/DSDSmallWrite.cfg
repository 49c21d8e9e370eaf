SPECIFICATION FairSpec
CONSTANTS
  Configurations <- MCSmallWrite
PROPERTY WriteRequestsAnswered
CHECK_DEADLOCK FALSE
