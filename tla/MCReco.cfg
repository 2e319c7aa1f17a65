\* Three clusters and pieces of two places, for ten of ten millimetres.
CONSTANTS
  Calls <- MCCalls
  Events <- MCEvents
  NumClusters = 3
  Precision = 2
  MinHits = 2
  MinCentres = 2
  MinSelected = 2
  MinOut = 1
SPECIFICATION RecoSpec
INVARIANTS
  TypeOK
  PairsAreWindow
  HitsInPieces
PROPERTIES
  ReconstructionEnds
CHECK_DEADLOCK FALSE
