\* Three connections, of which two can be open, and time for two timers to fire.
SPECIFICATION LoopSpec
CONSTANTS
  listener = listener
  t1 = t1
  t2 = t2
  t3 = t3
  None = None
  Requests <- Listener
  Timers <- ThreeTimers
  Timeouts <- OneTimeout
  SGX_TIMEOUT_DEFAULT = 2
  MaxTime = 4
  MaxArrivals = 3
  MaxOpen = 2
  ReturnKept = {FALSE, TRUE}
  FreeOutcomes = {"abort", "ignore"}
INVARIANTS
  Announced
PROPERTIES
  ConnectionsAccepted
CHECK_DEADLOCK FALSE
