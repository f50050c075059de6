SPECIFICATION Spec
CONSTANTS
  Domains = {instant}
  Gpus <- GpusValue
  Readings = {0, 1, 2}
  Periods = {1}
  SlowestPeriod = 1
  MaxSamples = 2
  PipeCapacity = 2
  MaxTime = 2
INVARIANTS
  DedupTimeline LatestIsKept ClosestIsNearest EnergyIsBounded
PROPERTY StopEndsAll
CHECK_DEADLOCK FALSE
