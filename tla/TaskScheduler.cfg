SPECIFICATION Spec
CONSTANTS
  Commits <- MCCommits
  Parents <- MCParents
  NoCommit = 0
  Jobs = {1, 2}
  NoJob = 0
  JobKinds <- BackfillKinds
  Results = {"success", "failure"}
  MaxAttempts = 2
  MaxBlamelist = 2
  NumRetries = 2
  MaxTasks = 3
  MaxFaults = 1
INVARIANTS
  TypeOK
  BlamelistsDisjoint
  OwnRevision
  AttemptsInOrder
  VerdictIsJustified
  IndexAgrees
PROPERTIES
  KeepsTheLedger
