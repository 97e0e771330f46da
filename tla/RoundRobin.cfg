SPECIFICATION FairSpec
CONSTANTS
  NPROC = 3
  CPUS = {c0}
  BootCpu = c0
  Free = Free
  MAXPID = 3
  SleepTimes = {1}
  KillPids = {2, 3}
  UseIo = TRUE
PROPERTIES EveryoneRuns KilledDies OrphanReaped
