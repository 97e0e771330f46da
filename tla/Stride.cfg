SPECIFICATION Spec
CONSTANTS
  NPROC = 3
  CPUS = {c0}
  BootCpu = c0
  Free = Free
  MAXPID = 3
  SleepTimes = {}
  KillPids = {2}
  UseIo = TRUE
  STRIDE1 = 2
  DEFAULT_TICKETS = 2
  MAX_TICKETS = 2
  TicketArgs = {0, 1, 9}
  MAXPASS = 2
  MAXRTIME = 1
INVARIANT SleepCredit
PROPERTIES DispatchesFarthestBehind SetBackAtMostOneStride
