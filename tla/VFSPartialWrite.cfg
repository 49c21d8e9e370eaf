SPECIFICATION Spec
CONSTANTS
  Requests = {1}
  Offsets = {0, 2}
  Lengths = {2, 4}
  SubIDs = {1, 2, 3}
  PageSize = 4
  Degree = 4
INVARIANT SeesTheReturn
CHECK_DEADLOCK FALSE
