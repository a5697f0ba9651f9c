CONSTANTS
  Traintuples = {}
  CompositeTraintuples = {c1}
  Aggregatetuples = {a1}
  Testtuples = {s1}
  Plans = {p1}
  CleanPlans = {p1}
  OnSecond = {s1}
  SecondRank = {}
  Twins = {}
  Nodes = {n1, n2}
  n1 = n1
  n2 = n2
  NoPlan = NoPlan
  Worker <- MCWorker
  InputRank <- MCInputRank
  MaxInModels = 2
  MaxRank = 3
  ReuseLimit = 0
SPECIFICATION Spec
INVARIANTS TypeOK PlanReflectsWork DonePlanIsSettled CompletionNotLost CountersExact PlanInductive
PROPERTIES ClosedPlanStartsNothing ModelsDeletedUnused ImplementsTaskGraph
