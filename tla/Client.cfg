SPECIFICATION FairSpec
CONSTANTS
  Files <- MCFiles
  Stripes <- MCStripes
  MaxWindowSize = 6
  Configurations <- MCConfigurations
  AppDegree = 2
  CidOffset = 32
  RidOffset = 4
  PacketSizeLimit = 2
INVARIANTS IdsTellExchangesApart WindowMatchesPackets
PROPERTIES TransfersExactly AnswersAll
CHECK_DEADLOCK FALSE
