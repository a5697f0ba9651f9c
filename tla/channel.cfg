CONSTANTS
  w1 = w1
  w2 = w2
  Workers = {w1, w2}
  Tuples = {k1, k2, k3}
  First = {k1, k2}
  Later = {k3}
  WorkerOf <- MCWorkerOf
  Resent = {k1}
  Repeated <- MCRepeated
  Ops = {"start", "success", "fail", "cancel", "add"}
SPECIFICATION Spec
INVARIANTS CompletionExact ChannelInductive
PROPERTIES CommitsAreSerial
CHECK_DEADLOCK FALSE
