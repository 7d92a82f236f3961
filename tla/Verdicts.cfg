SPECIFICATION Spec
CONSTANTS
  Dur = 7
  COLLAPSE_MIN_SECS = 2
  None = None
INVARIANTS
  EpisodesExact
  CollapseCriterion
  StableIsMeasured
  TypeOK
CHECK_DEADLOCK FALSE
