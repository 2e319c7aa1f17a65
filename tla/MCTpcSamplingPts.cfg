\* The documented number of samples.
CONSTANTS
  Inputs <- MCInputs
  NoiseT = {0}
  NoiseE = {0}
  Collections = {"drift", "other"}
  SimCollection = "drift"
  SampleInterval = 2
  NrPts = 5
  Gains = {7, 20000}
  AmpOffset = 100
  Shaper <- MCShaper
  Unit = 1000
SPECIFICATION Spec
INVARIANT
  SeriesHasNrPts
CHECK_DEADLOCK FALSE
