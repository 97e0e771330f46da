SPECIFICATION Spec
CONSTANTS
  NPROC = 3
  NFRAMES = 11
  NLOW = 2
  NHIGH = 1
  MAX_WMAPS = 1
  MAXREF = 3
  Image <- DataOnly
  Grabs <- Lowest
CONSTRAINT Apart
VIEW Sharing
CHECK_DEADLOCK FALSE
INVARIANTS CountCoversHolders WritersAlone
PROPERTY PrivateMemory
