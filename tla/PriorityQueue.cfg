\* Eight elements: the array grows up to three times and shrinks again.
\* After an abort nothing happens.
SPECIFICATION Spec
CONSTANTS
  Items <- EightItems
  Key <- EightKeys
  InitSizes <- Sizes
  FreeOutcomes <- BothOutcomes
  None = 0
INVARIANTS
  NoOverrun
  PushKeepsOrder
  CallsConserve
  MatchesHeapOps
CHECK_DEADLOCK FALSE
