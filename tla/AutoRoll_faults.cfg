SPECIFICATION Spec
CONSTANTS
  Invalid = {}
  N_REVISIONS = 1
  CLs = {c1, c2}
  NoCL = NoCL
  MaxRev = 1
  Threshold <- NoSuccessThrottle
  Strategy = {"batch"}
  Resyncs = TRUE
  Events = {"mode", "land", "unthrottle", "otherRoll"}
  Faults = {"crash", "lostReply", "remote"}
SYMMETRY CLSymmetry
INVARIANTS
  TypeOK
  QuietMeansNoOpenRoll
  ClosedCopyIsClosed
  WaitsForLandedRoll
PROPERTIES
  UnthrottleIsServed
  SafetyThrottleHolds
