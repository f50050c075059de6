SPECIFICATION Spec
CONSTANTS
  BatchSizes = {8, 16, 32}
  DefaultBatchSize = 16
  NumPruningRounds = 2
  WindowSize = 2
  NumExplorations = 3
  MaxEpochs = 2
  Beta = 1
  EpochCosts = {1}
  Clients = {c1, c2}
  MaxTrials = 5
  MaxFaults = 1
INVARIANTS ExplorationsFollowRounds MinCostIsLeast AgreesWithGenerator ExplorationNeverStuck
SYMMETRY ClientSymmetry
CHECK_DEADLOCK FALSE
