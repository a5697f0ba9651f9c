CONSTANTS
  Nodes = {n1, n2}
  Algos = {}
  CompositeAlgos = {g1}
  AggregateAlgos = {}
  DataManagers = {d1}
  DataSamples = {x1, x2}
  Objectives = {o1}
  Traintuples = {}
  CompositeTraintuples = {c1}
  Aggregatetuples = {}
  Testtuples = {s1}
  Tagged = {}
  None = None
  InputPermissions <- MCOpen
SPECIFICATION Spec
SYMMETRY MCSymmetry
INVARIANTS LeaderboardComplete
CHECK_DEADLOCK FALSE
