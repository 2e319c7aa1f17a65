\* The job is told to go on after one failing event.
CONSTANTS
  EvtMax = 4
  SaveTools <- MCSaveTools
  HitClasses <- MCHitClasses
  MayThrow = TRUE
  ErrorMax = 2
  NoEvent = NoEvent
  Wild = Wild
SPECIFICATION FairSpec
INVARIANT
  OutputFromOwnEvent
CHECK_DEADLOCK FALSE
