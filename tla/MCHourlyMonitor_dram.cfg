SPECIFICATION HourlySpec
CONSTANTS
  WindowKeys = {k1, k2}
  NoKey = NoKey
  Kinds = {"carbon", "price"}
  Hardware <- NoDram
  HistoryLength = 3
  UnratedFrom = 4
  TicksPerHour = 2
  MaxTicks = 9
  MaxErrors = 1
INVARIANT EndsWithoutDram
\* A training process hangs when its polling process has failed.
CHECK_DEADLOCK FALSE
