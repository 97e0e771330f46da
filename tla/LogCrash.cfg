SPECIFICATION FairSpec
CONSTANTS
  Procs = {1, 2}
  NBUF = 4
  Blocks = {0, 1, 2, 3, 4, 5, 6}
  NHOME = 2
  NLOG = 5
  LOGSIZE = 4
  MAXOPBLOCKS = 2
  Kinds = {"plain", "write", "read"}
  OPWRITES = 2
  CALLS = 1
CHECK_DEADLOCK FALSE
INVARIANTS CacheSound QuietIsDurable
PROPERTIES AtomicDiskSpec CallsReturn
