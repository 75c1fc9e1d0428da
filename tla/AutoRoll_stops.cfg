SPECIFICATION FairSpec
CONSTANTS
  Invalid = {}
  N_REVISIONS = 1
  CLs = {c1, c2}
  NoCL = NoCL
  MaxRev = 1
  Threshold <- NoSuccessThrottle
  Strategy = {"batch"}
  Resyncs = TRUE
  Events = {"mode", "land", "abandon", "dequeue"}
  Faults = {}
INVARIANTS
  DryRunIsNotQueued
PROPERTIES
  StopsWhenTold
  SuccessIsLeft
  CatchesUp
