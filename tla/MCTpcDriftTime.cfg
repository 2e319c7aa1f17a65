\* The documented time of a drifted electron.
CONSTANTS
  Inputs <- MCInputs
  Anodes = {"gas"}
  Inside = {0, 1}
  WValue = 2
  MaxHits = 2
  PoissonMax = 2
  TransDiff <- MCTransDiff
  LongDiff <- MCLongDiff
SPECIFICATION Spec
INVARIANT
  TimeIncludesHitTime
CHECK_DEADLOCK FALSE
