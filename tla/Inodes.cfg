SPECIFICATION Spec
CONSTANTS
  Procs = {"p", "q"}
  NINODES = 5
  NINODE = 6
  Names = {"a", "b", "d"}
  Paths <- MCPaths
  Ops = {"open", "create", "mkdir", "mknod", "link", "unlink", "chdir", "close", "exit"}
  CALLS = 2
  InitDisk <- MCDisk
  OPENED = 2
CHECK_DEADLOCK FALSE
INVARIANTS RefsExact CachedIsDisk KeptWhileNeeded DeadlocksOnlyInPut
