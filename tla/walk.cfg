CONSTANTS
  Traintuples = {t1, t2, t3}
  CompositeTraintuples = {}
  Aggregatetuples = {}
  Testtuples = {s1}
  Plans = {p1}
  CleanPlans = {}
  OnSecond = {}
  SecondRank = {t1, t2, t3}
  Twins = {t1, t2, t3}
  Nodes = {n1, n2}
  n1 = n1
  n2 = n2
  NoPlan = NoPlan
  Worker <- MCWorker
  InputRank <- MCInputRank
  MaxInModels = 2
  MaxRank = 3
  ReuseLimit = 0
SPECIFICATION PreparedSpec
SYMMETRY MCSymmetry
INVARIANTS FailurePropagated ReportInductive
PROPERTIES ReportsAreAtomicSteps LostForDirectChild
