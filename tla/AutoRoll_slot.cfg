SPECIFICATION Spec
CONSTANTS
  Invalid = {}
  N_REVISIONS = 1
  CLs = {c1, c2}
  NoCL = NoCL
  MaxRev = 2
  Threshold <- NoSuccessThrottle
  Strategy = {"batch", "single"}
  Resyncs = TRUE
  Events = {"land", "otherRoll", "abandon", "window", "strategy"}
  Faults = {"crash", "lostReply", "remote"}
SYMMETRY CLSymmetry
PROPERTIES
  RollsOneAtATime
