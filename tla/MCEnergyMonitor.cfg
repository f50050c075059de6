\* Two overlapping or nested windows over two meters.
SPECIFICATION Spec
CONSTANTS
  Keys = {k1, k2}
  Meters <- TwoRails
  Upstream <- FedByInput
  MaxMeter = 2
  MaxTime = 2
INVARIANT
  WindowsNest
PROPERTY
  ImplementsWindows
