CONSTANTS
  IDs = {a, b, c}
  KnownIDs = {a}
  MaxTasks = 3
  MaxInModels = 2
  MaxDepth = 2
SPECIFICATION Spec
INVARIANTS AscendingRank
CHECK_DEADLOCK FALSE
