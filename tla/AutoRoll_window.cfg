SPECIFICATION Spec
CONSTANTS
  Invalid = {}
  N_REVISIONS = 1
  CLs = {c1, c2}
  NoCL = NoCL
  MaxRev = 2
  Threshold <- NoSuccessThrottle
  Strategy = {"batch"}
  Resyncs = FALSE
  Events = {"otherRoll", "window"}
  Faults = {"window", "persist"}
SYMMETRY CLSymmetry
INVARIANTS
  FunctionHasItsRoll
PROPERTIES
  NeverRollsBack
