\* Both workloads, with and without limits, warmed up in every way.
SPECIFICATION Spec
CONSTANTS
  Keys = {k1, k2, k3}
  BatchSize = 2
  Traces <- MCTraces
  Group = 2
  RandomChannel = 2
  MaxEpochs = {0, 1, 3, NoLimit}
  NoLimit = NoLimit
  RetryLimit = 2
INVARIANTS
  ReplayInOrder
  ReplayComplete
  NoEmptyReads
PROPERTY
  RunEnds
