SPECIFICATION FairSpec
CONSTANTS
  Builds = {b1}
  NoBuild = NoBuild
  MaxJobs = 3
  BatchSize = 2
  MaxFaults = 2
INVARIANTS
  TypeOK
  ReportIsTrue
  ReleasedIsOver
PROPERTIES
  KeepsItsPromises
  EveryBuildEnds
  EveryJobIsReleased
CHECK_DEADLOCK FALSE
