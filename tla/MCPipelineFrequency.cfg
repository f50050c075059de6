SPECIFICATION Spec
CONSTANTS
  Stage <- StageValue
  Schedule <- ScheduleValue
  HighestFrequency = 3
  Steps = 1
  MaxErrors = 1
INVARIANT AllAskFirst
PROPERTIES EveryRankIsAnswered ClocksAreReset
CHECK_DEADLOCK FALSE
