CONSTANTS
  Traintuples = {}
  CompositeTraintuples = {c1}
  Aggregatetuples = {a1}
  Testtuples = {}
  Plans = {p1}
  CleanPlans = {p1}
  OnSecond = {}
  SecondRank = {a1}
  Twins = {}
  Nodes = {n1, n2}
  n1 = n1
  n2 = n2
  NoPlan = NoPlan
  Worker <- MCWorker
  InputRank <- MCInputRank
  MaxInModels = 2
  MaxRank = 3
  ReuseLimit = 0
  c1 = c1
  c2 = c2
  First = {h1, h2, t1}
  Second = {}
  Third = {m}
  Names <- MCNames
  NamesOf <- MCNamesOf
  Renames = {c1}
SPECIFICATION NamesSpec
INVARIANTS EveryAnswerFound
