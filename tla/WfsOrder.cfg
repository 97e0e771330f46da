SPECIFICATION TreeSpec
CONSTANTS
  RaidModes = {2}
  NDISKS = 2
  NINODES = 4
  NumBlocks <- Four
  D_BLOCK = 2
  UNITS = 1
  Names = {"a", "b"}
  Cut <- Kept
  MaxDepth = 2
  MaxSize = 4
  Values = {}
  WriteArgs <- LastUnit
  Orders <- AnyOrder
  BadDisks = {}
INVARIANT OrderIrrelevant
