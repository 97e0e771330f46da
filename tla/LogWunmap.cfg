SPECIFICATION FairSpec
CONSTANTS
  Procs = {1, 2, 3}
  NBUF = 4
  Blocks = {0, 1, 2, 3, 4, 5}
  NHOME = 2
  NLOG = 4
  LOGSIZE = 4
  MAXOPBLOCKS = 2
  Kinds = {"write", "wunmap"}
  OPWRITES = 1
  CALLS = 1
CHECK_DEADLOCK FALSE
PROPERTY BeginOpReturns
