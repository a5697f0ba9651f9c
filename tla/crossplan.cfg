CONSTANTS
  Traintuples = {t1, t2, t3}
  CompositeTraintuples = {}
  Aggregatetuples = {}
  Testtuples = {}
  Plans = {p1, p2}
  CleanPlans = {}
  OnSecond = {}
  SecondRank = {t1, t2, t3}
  Twins = {t1, t2, t3}
  Nodes = {n1, n2}
  n1 = n1
  n2 = n2
  NoPlan = NoPlan
  Worker <- MCWorker
  InputRank <- MCInputRank
  MaxInModels = 2
  MaxRank = 3
  ReuseLimit = 2
SPECIFICATION Spec
SYMMETRY MCSymmetry
INVARIANTS InModelsAvailable NoLostWakeup WorkDiscoverable Inductive
PROPERTIES ImplementsTaskGraph
