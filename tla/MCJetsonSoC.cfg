\* Two rails, those of the board of MCJetsonSoC, so that a snapshot could be
\* torn, two users so that they compete for energy_mutex_ with each other and
\* with the polling thread.  The clock may stop at any time: then only the
\* notification ends a sleep.
SPECIFICATION FairSpec
CONSTANTS
  Words <- MCWords
  Rails = {"VDD_IN", "VDD_CPU_GPU_CV"}
  Users = {u1, u2}
  Powers = {1, 3}
  PollInterval = 1
  MaxTime = 2
  NoOne = NoOne
INVARIANTS
  EnergyEnvelope
  SnapshotIsOneInstant
  WindowEnvelope
PROPERTY
  StopTerminates
