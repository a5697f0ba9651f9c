CONSTANTS
  IDs = {a, b, c}
  KnownIDs = {a}
  MaxTasks = 3
  MaxInModels = 2
  MaxDepth = 2
SPECIFICATION FairSpec
INVARIANTS DependenciesFirst DepthsExact DecidesOrderability SortInductive
PROPERTIES SortEnds
CHECK_DEADLOCK FALSE
