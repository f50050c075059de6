SPECIFICATION Spec
CONSTANTS
  Monitors = {m1, m2}
  NoOne = none
  Keys = {k1, k2}
  RaplRange = 2
  MaxDrawn = 2
  MaxTimeouts = 1
INVARIANTS
  TablesAgree CpuReadings SoCNeverNegative AnswersMatch
PROPERTY CallsReturn
CHECK_DEADLOCK FALSE
