CONSTANTS
  Nodes = {n1, n2}
  Algos = {}
  CompositeAlgos = {g1}
  AggregateAlgos = {g2}
  DataManagers = {d1, d2}
  DataSamples = {x1, x2}
  Objectives = {o1}
  Traintuples = {}
  CompositeTraintuples = {c1}
  Aggregatetuples = {a1}
  Testtuples = {s1}
  Tagged = {}
  None = None
  InputPermissions <- MCPrivate
SPECIFICATION PreparedSpec
SYMMETRY MCSymmetry
INVARIANTS DatasetsOfOneOwner DatasetsListed WorkersOwnTheirData
CHECK_DEADLOCK FALSE
