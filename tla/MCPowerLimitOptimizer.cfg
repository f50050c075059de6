SPECIFICATION Spec
CONSTANTS
  Gpus <- TwoRanks
  MinLimit = 1000
  MaxLimit = 3000
  PlStep = 1000
  WaitSteps = 1
  WarmupSteps = 1
  ProfileSteps = 2
  Epochs = 3
  EpochSteps = 5
  Energies = {1, 3}
  Times = {1, 2}
  MaxKills = 1
  MaxFailures = 1
INVARIANTS MeasuredAtItsLimit EachLimitOnce RanksAgree
PROPERTY EndsRestored
CHECK_DEADLOCK FALSE
