SPECIFICATION Spec
CONSTANTS
  Proxies = {p1, p2}
  p1 = p1
  p2 = p2
  Algorithms = {"DSFQA", "DSFQALB", "DSFQATB", "DSFQD", "DSFQF"}
  LoadThreshold = 2
  NumApps = 2
  Degree = 1
  Sizes = {1}
  Ids = {1, 2, 3}
  Rate <- MCRate
  MaxCharge = 2
SYMMETRY Symmetry
INVARIANTS TagsAccountForWork FrontsNotBehind BoundedStaleness
PROPERTY VtimeMonotone
CHECK_DEADLOCK FALSE
