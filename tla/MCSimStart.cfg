\* Two sensitive volumes of two cells, two events of five units of energy.
CONSTANTS
  Configs <- MCConfigs
  Daughters = 3
  Matching <- MCMatching
  SensTypes <- MCSensTypes
  Plugins <- Detectors
  Generic <- MCGeneric
  Cells = {1, 2}
  Energy = 5
  EdepCut = 2
  MaxEvents = 2
  Tracked <- MCTracked
SPECIFICATION JobSpec
INVARIANTS
  TypeOK
  LimitsInForce
  SumsInCells
  NoDoubleCounting
CHECK_DEADLOCK FALSE
