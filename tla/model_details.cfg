CONSTANTS
  Nodes = {n1, n2}
  Algos = {g1}
  CompositeAlgos = {}
  AggregateAlgos = {}
  DataManagers = {d1}
  DataSamples = {x1, x2}
  Objectives = {o1}
  Traintuples = {t1}
  CompositeTraintuples = {}
  Aggregatetuples = {}
  Testtuples = {s1, s2}
  Tagged = {}
  None = None
  InputPermissions <- MCOpen
SPECIFICATION Spec
SYMMETRY MCSymmetry
INVARIANTS ModelDetailsComplete
CHECK_DEADLOCK FALSE
