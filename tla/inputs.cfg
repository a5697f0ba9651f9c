CONSTANTS
  Nodes = {n1, n2}
  Algos = {g1}
  CompositeAlgos = {}
  AggregateAlgos = {}
  DataManagers = {d1}
  DataSamples = {x1, x2}
  Objectives = {o1, o2}
  Traintuples = {t1}
  CompositeTraintuples = {}
  Aggregatetuples = {}
  Testtuples = {s1, s2}
  Tagged = {}
  None = None
  InputPermissions <- MCOpen
SPECIFICATION PreparedSpec
SYMMETRY MCSymmetry
INVARIANTS TestDatasetsExclusive NotTestedOnTrainData CertifiedTestsComparable
CHECK_DEADLOCK FALSE
