\* Strips of size 4 on a plane of 25 by 25 places.
CONSTANTS
  HalfStrip = 2
  OffsetX <- MCOffsetX
  OffsetY = 2
  LayerX = 0
  LayerY = 1
  StripMin <- MCStripMin
  StripMax = 2
  Extent = 12
SPECIFICATION ProbeSpec
INVARIANTS
  WithinHalfStrip
  StripsArePeriodic
  LayersAlternate
PROPERTIES
  MovesToNeighbour
