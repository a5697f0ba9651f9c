\* Two composite traintuples and an aggregatetuple in a plan that cleans its
\* models, each named by its worker.  A repeated report of c1 may exchange head
\* and trunk, one of a1 may give its model another name.
CONSTANTS
  Traintuples = {}
  CompositeTraintuples = {c1, c2}
  Aggregatetuples = {a1}
  Testtuples = {}
  Plans = {p1}
  CleanPlans = {p1}
  OnSecond = {}
  SecondRank = {}
  Twins = {}
  Nodes = {n1, n2}
  n1 = n1
  n2 = n2
  NoPlan = NoPlan
  Worker <- MCWorker
  InputRank <- MCInputRank
  MaxInModels = 2
  MaxRank = 3
  ReuseLimit = 0
  c1 = c1
  c2 = c2
  First = {h1, t1}
  Second = {h2, t2}
  Third = {m1, m2}
  Names <- MCNames
  NamesOf <- MCNamesOf
  Renames = {a1, c1}
SPECIFICATION NamesSpec
SYMMETRY MCNameSymmetry
INVARIANTS ModelsFound ListsAgree NamesInductive
PROPERTIES NamesDroppedUnused
