SPECIFICATION Spec
CONSTANTS
  Names = {"x", "y", "z"}
  Exported = {"x"}
  Values = {"1", "2"}
  Commands <- MCCommands
  Sizes = {0, 1, 2, 3, 4}
  Redirections <- MCRedirections
  MAXIMUM_HISTORY = 3
  DEFAULT_HISTORY_SIZE = 2
CHECK_DEADLOCK FALSE
CONSTRAINT FewDamaged
INVARIANT MemoryOwned
PROPERTY ShellSpec
VIEW Contents
