\* Any library call may fail; a failure may leave a call or a worker blocked.
SPECIFICATION Spec
CONSTANTS
  ThreadCount = 2
  QueueSize = 1
  Tasks <- TwoTasks
  Callers <- MainAndOther
  Creator = main
  Destroyers <- MainAndOther
  Faults <- AllFaults
  MaxSpurious = 1
  None = None
  main = main
  other = other
  t1 = t1
  t2 = t2
  t3 = t3
SYMMETRY TaskSymmetry
INVARIANTS
  PoolInv
  StartedCountsLiveWorkers
  PoolOutlivesWorkers
  FailedCreateReleases
CHECK_DEADLOCK FALSE
