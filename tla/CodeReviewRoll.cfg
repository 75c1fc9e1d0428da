SPECIFICATION FairSpec
INVARIANTS
  ConversionIsValid
  ClosedIsFinished
PROPERTIES
  ClosedIsRecorded
