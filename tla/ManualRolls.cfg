SPECIFICATION FairSpec
CONSTANTS
  Invalid = {2}
  N_REVISIONS = 2
  MaxRev = 3
  Strategy = {"batch", "n_batch", "single"}
  Requests = {r1, r2}
  Asks <- MCAsks
  MaxCLs = 3
  MaxFaults = 1
INVARIANTS
  NextRollIsRight
  SuccessIsTrue
  SecondCLTakesAFault
PROPERTIES
  CatchesUp
  EveryRequestCompletes
