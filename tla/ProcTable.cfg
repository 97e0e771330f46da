SPECIFICATION PtSpec
CONSTANTS
  NPROC = 3
  CPUS = {c0, c1}
  BootCpu = c0
  Free = Free
  MAXPID = 4
  SleepTimes = {1}
  KillPids = {0, 2}
  UseIo = TRUE
INVARIANTS IInv EmbryoOwned NoMissedChild ParentAlive OneCpuEach NoMissedTick
PROPERTY ZombieOnlyReaped
