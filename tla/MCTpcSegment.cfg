\* All three segmentations; Gaudi's default ErrorMax.
CONSTANTS
  Volumes = {"one", "two", "none"}
  Surfaces = {"a", "b"}
  PcbsOf <- MCPcbsOf
  Covers <- MCCovers
  PcbId <- MCPcbId
  Bin <- MCBin
  Layer <- MCLayer
  BinRange = {0, 1}
  Places = {0, 1, 2, 3, 4}
  EDeps = {1, 2}
  Times <- MCTimes
  Inputs <- MCInputs
  EvtMax = 2
  ErrorMax = 1
SPECIFICATION Spec
INVARIANTS
  TypeOK
  GroupsThisEvent
  TimeIsEarliest
  PcbsApart
  LayersSeeAllCharge
PROPERTIES
  ImplementsCellGrouping
CHECK_DEADLOCK FALSE
