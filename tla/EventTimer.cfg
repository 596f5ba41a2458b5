\* Two requests, three timers, two timeouts: a request can be given a second
\* timer after its first was deleted, or before, and timers are due out of order.
SPECIFICATION Spec
CONSTANTS
  r1 = r1
  r2 = r2
  t1 = t1
  t2 = t2
  t3 = t3
  None = None
  Requests <- TwoRequests
  Timers <- ThreeTimers
  Timeouts <- TwoTimeouts
  MaxTime = 4
  FreeOutcomes <- BothOutcomes
INVARIANTS
  HandlersOnLiveRequests
  FiresOnceWhenDue
  NoneForgotten
  NoEndlessWait
PROPERTIES
  EveryTimerResolved
CHECK_DEADLOCK FALSE
