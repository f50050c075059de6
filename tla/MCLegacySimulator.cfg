SPECIFICATION SimulatorSpec
CONSTANTS
  BatchSizes = {8, 16, 32}
  DefaultBatchSize = 16
  NumPruningRounds = 2
  PowerLimits = {100, 200}
  EpochCost <- MCEpochCost
  Targets <- MCTargets
  MaxEpochs = 2
  Beta = 2
  WindowSize = 0
  Recurrences = 5
  MaxTries = 4
  Gaps = {0, 2}
  Durations = {1, 3}
  MaxRuns = 7
INVARIANTS ObservedAsTheyEnd RowsAreAccountedFor ArmsReachedInEveryRound
CHECK_DEADLOCK FALSE
