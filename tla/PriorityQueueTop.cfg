\* The order of the heap, with an allocator that survives the first pop.
SPECIFICATION Spec
CONSTANTS
  Items <- SixItems
  Key <- SixKeys
  InitSizes <- Sizes
  FreeOutcomes <- Ignored
  None = 0
INVARIANTS
  TopIsFirst
CHECK_DEADLOCK FALSE
