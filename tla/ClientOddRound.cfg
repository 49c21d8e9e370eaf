SPECIFICATION Spec
CONSTANTS
  Files <- MCFiles
  Stripes <- MCStripes
  MaxWindowSize = 6
  Configurations <- MCOddRound
  AppDegree = 2
  CidOffset = 32
  RidOffset = 4
  PacketSizeLimit = 2
INVARIANT MovesNothingUnwanted
CHECK_DEADLOCK FALSE
