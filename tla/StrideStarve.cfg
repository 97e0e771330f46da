SPECIFICATION FairSpec
CONSTANTS
  NPROC = 3
  CPUS = {c0}
  BootCpu = c0
  Free = Free
  MAXPID = 3
  SleepTimes = {}
  KillPids = {}
  UseIo = TRUE
  STRIDE1 = 4
  DEFAULT_TICKETS = 2
  MAX_TICKETS = 4
  TicketArgs = {}
  MAXPASS = 6
  MAXRTIME = 2
PROPERTY NoneLeftBehind
