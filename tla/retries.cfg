CONSTANTS
  w1 = w1
  w2 = w2
  Workers = {w1, w2}
  Tuples = {k1, k2, k3, k4}
  First = {k1, k2}
  Later = {k4}
  WorkerOf <- MCWorkerOf
  Resent = {k1, k2, k3, k4}
  Repeated <- MCRepeated
  Ops = {"start", "success", "add"}
SPECIFICATION FairSpec
INVARIANTS ReportsDoNotCollide
PROPERTIES PlanEnds
CHECK_DEADLOCK FALSE
