\* Three workers, two clients, one destroyer, three jobs: two workers can sleep
\* while the third runs a job that adds another.
SPECIFICATION Spec
CONSTANTS
  w1 = w1
  w2 = w2
  w3 = w3
  c1 = c1
  c2 = c2
  d1 = d1
  n1 = n1
  n2 = n2
  n3 = n3
  None = None
  Workers <- ThreeWorkers
  Clients <- TwoClients
  Destroyers <- OneDestroyer
  Works <- ThreeWorks
INVARIANTS
  Ownership
  TakeNonEmpty
  WorkConserving
  NoSleeperLeftBehind
  PoolOutlivesThreads
PROPERTIES
  ImplementsWorkPool
  EveryJobStarts
  DestroyTerminates
