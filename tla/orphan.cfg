CONSTANTS
  Traintuples = {t1, t2}
  CompositeTraintuples = {}
  Aggregatetuples = {}
  Testtuples = {}
  Plans = {p1}
  CleanPlans = {}
  OnSecond = {}
  SecondRank = {}
  Twins = {}
  Nodes = {n1, n2}
  n1 = n1
  n2 = n2
  NoPlan = NoPlan
  Worker <- MCWorker
  InputRank <- MCInputRank
  MaxInModels = 2
  MaxRank = 3
  ReuseLimit = 0
SPECIFICATION Spec
INVARIANTS NoWaitingOnFailed
