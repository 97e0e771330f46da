SPECIFICATION TreeSpec
CONSTANTS
  RaidModes = {0, 1, 2}
  NDISKS = 3
  NINODES = 4
  NumBlocks <- SixOrFour
  D_BLOCK = 2
  UNITS = 1
  Names = {"a", "b"}
  Cut <- Kept
  MaxDepth = 2
  MaxSize = 4
  Values = {1}
  WriteArgs <- Across
  Orders <- AsCreated
  BadDisks = {0}
INVARIANTS BlocksOwned OneName LinkCount
PROPERTY TreeOfFiles
