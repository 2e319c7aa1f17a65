\* Two runs, of the two stages or one of them again; three over two files.
CONSTANTS
  Originals <- AllOriginals
  Levels = 2
  Scripts <- MCScripts
  MaxJobs = 3
SPECIFICATION MCSpec
INVARIANTS
  TypeOK
  PassedDownIsTruth
  RerunReplaces
  
CHECK_DEADLOCK FALSE
