SPECIFICATION Spec
INVARIANTS
  TransitionIsDefined
  NoNoopLoop
CHECK_DEADLOCK FALSE
