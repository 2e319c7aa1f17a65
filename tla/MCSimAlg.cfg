\* Exceptions may happen and Gaudi's default ErrorMax stops the job.
CONSTANTS
  EvtMax = 4
  SaveTools <- MCSaveTools
  HitClasses <- MCHitClasses
  MayThrow = TRUE
  ErrorMax = 1
  NoEvent = NoEvent
  Wild = Wild
SPECIFICATION FairSpec
INVARIANTS
  TypeOK
  OutputFromOwnEvent
  RetrievedIsCurrent
  StoredParticlesExist
  NothingLeftBetweenEvents
  CrashNeedsMisfit
PROPERTIES
  TerminatedBeforeReplaced
  ImplementsEventOutput
  JobEnds
CHECK_DEADLOCK FALSE
