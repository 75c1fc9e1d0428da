SPECIFICATION FairSpec
CONSTANTS
  MaxTime = 3
  Duration = 2
  Threshold = 2
  MaxCount = 2
INVARIANTS
  EveryEntryHasATimer
  ThrottledUntilIsExact
PROPERTY
  ThrottleIsReleased
