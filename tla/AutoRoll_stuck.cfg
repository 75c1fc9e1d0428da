SPECIFICATION FairSpec
CONSTANTS
  Invalid = {}
  N_REVISIONS = 1
  CLs = {c1, c2}
  NoCL = NoCL
  MaxRev = 1
  Threshold <- NoSuccessThrottle
  Strategy = {"batch"}
  Resyncs = FALSE
  Events = {"mode", "abandon"}
  Faults = {}
PROPERTIES
  ClosedRollIsLeft
