SPECIFICATION Spec
CONSTANTS
  NumApplications = 2
  FlowCount = 2
  TraceLengths = {1, 2}
INVARIANT EndsAtEOF
CHECK_DEADLOCK FALSE
