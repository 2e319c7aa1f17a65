\* A gain that keeps all samples in range and one that does not.
CONSTANTS
  Inputs <- MCInputs
  NoiseT = {0, 3}
  NoiseE = {0, 1}
  Collections = {"drift", "other"}
  SimCollection = "drift"
  SampleInterval = 2
  NrPts = 5
  Gains = {7, 20000}
  AmpOffset = 100
  Shaper <- MCShaper
  Unit = 1000
SPECIFICATION Spec
INVARIANTS
  TypeOK
  OneSeriesPerHit
  SamplesAreSuperposition
  OnlyFutureCounts
CHECK_DEADLOCK FALSE
