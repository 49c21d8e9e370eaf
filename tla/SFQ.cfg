SPECIFICATION MCFairSpec
CONSTANTS
  NumApps = 2
  Degree = 2
  Sizes = {1, 2}
  Ids = {1, 2, 3}
  Rate <- MCRate
  MaxCharge = 4
INVARIANTS IInv FairShare
PROPERTIES ImplementsJobQueue
