SPECIFICATION FairSpec
CONSTANTS
  Commits <- MCCommits
  Parents <- MCParents
  NoCommit = 0
  Jobs = {1, 2}
  NoJob = 0
  JobKinds <- BackfillKinds
  Results = {"failure"}
  MaxAttempts = 1
  MaxBlamelist = 1
  NumRetries = 2
  MaxTasks = 4
  MaxFaults = 1
PROPERTIES
  EveryJobSettles
