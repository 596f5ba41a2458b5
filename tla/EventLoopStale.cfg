\* The event of a connection that comes as the timer of an earlier one is due.
SPECIFICATION LoopSpec
CONSTANTS
  listener = listener
  t1 = t1
  t2 = t2
  t3 = t3
  None = None
  Requests <- Listener
  Timers <- ThreeTimers
  Timeouts <- OneTimeout
  SGX_TIMEOUT_DEFAULT = 2
  MaxTime = 4
  MaxArrivals = 3
  MaxOpen = 2
  ReturnKept = {FALSE, TRUE}
  FreeOutcomes = {"abort", "ignore"}
INVARIANT
  EventsOfLiveRequests
CHECK_DEADLOCK FALSE
