\* Strips on several PCBs.
CONSTANTS
  Volumes = {"one", "two", "none"}
  Surfaces = {"a", "b"}
  PcbsOf <- MCPcbsOf
  Covers <- MCApart
  PcbId <- MCPcbId
  Bin <- MCBin
  Layer <- MCLayer
  BinRange = {0, 1}
  Places = {0, 1, 2, 3, 4}
  EDeps = {1, 2}
  Times <- MCTimes
  Inputs <- MCInputs
  EvtMax = 2
  ErrorMax = 1
SPECIFICATION Spec
INVARIANT
  StripsOnOnePcb
CHECK_DEADLOCK FALSE
