CONSTANTS
  Configurations <- MCConfigurations
  NONE = NONE
SPECIFICATION FairSpec
INVARIANTS
  ChannelExclusive
  MediaExclusive
  CountsPieces
  AbortsOnlyOnThrown
PROPERTY ImplementsBlockDevice
CHECK_DEADLOCK FALSE
