SPECIFICATION FairSpec
CONSTANTS
  Configurations <- MCConfigurations
  RidOffset = 3
INVARIANTS SlotsMatchServer WorkConserving WaitInOrder ForwardedInOrder LiveEntries BasicWithinProfile NothingOverdue
PROPERTIES OverflowKeepsDeadlines Answered
CHECK_DEADLOCK FALSE
