SPECIFICATION Spec
CONSTANTS
  Procs = {"init", "a"}
  InitProc = "init"
  Pipes = {1}
  PIPESIZE = 2
  UINT = 4
  Files = {1, 2, 3}
  NOFILE = 2
  Writes <- MCWrites
  READ = 2
  OPENS = 1
  Openers = {"a"}
  Senders = {"init", "a"}
CHECK_DEADLOCK FALSE
INVARIANTS TableSound EndsOwned
PROPERTIES SleepersHaveReason ByteStreamsSpec
