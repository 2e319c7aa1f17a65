\* All options; at most three simulated hits and about four electrons.
CONSTANTS
  Inputs <- MCInputs
  Anodes = {"gas"}
  Inside = {0, 1}
  WValue = 2
  MaxHits = 2
  PoissonMax = 2
  TransDiff <- MCTransDiff
  LongDiff <- MCLongDiff
SPECIFICATION Spec
INVARIANTS
  TypeOK
  CountersMatchOutput
  EnergyShared
  EveryDepositIonises
  MaxHitsUpToRounding
CHECK_DEADLOCK FALSE
