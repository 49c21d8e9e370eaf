SPECIFICATION Spec
CONSTANTS
  Files <- MCFiles
  Stripes <- MCStripes
  MaxWindowSize = 6
  Configurations <- MCSameFile
  AppDegree = 2
  CidOffset = 32
  RidOffset = 4
  PacketSizeLimit = 2
INVARIANT StartsAllTraces
CHECK_DEADLOCK FALSE
