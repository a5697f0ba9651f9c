CONSTANTS
  Traintuples = {}
  CompositeTraintuples = {c1, c2}
  Aggregatetuples = {a1}
  Testtuples = {}
  Plans = {p1}
  CleanPlans = {p1}
  OnSecond = {a1}
  SecondRank = {}
  Twins = {}
  Nodes = {n1, n2}
  n1 = n1
  n2 = n2
  NoPlan = NoPlan
  Worker <- MCWorker
  InputRank <- MCInputRank
  MaxInModels = 2
  MaxRank = 3
  ReuseLimit = 0
SPECIFICATION OrderlySpec
PROPERTIES EveryTupleSettles EveryPlanSettles
