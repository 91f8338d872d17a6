\* Both callers may destroy the pool: the second call keeps the mutex.
SPECIFICATION FairSpec
CONSTANTS
  ThreadCount = 2
  QueueSize = 1
  Tasks <- TwoTasks
  Callers <- MainAndOther
  Creator = main
  Destroyers <- MainAndOther
  Faults <- NoFaults
  MaxSpurious = 1
  None = None
  main = main
  other = other
  t1 = t1
  t2 = t2
  t3 = t3
PROPERTIES
  GracefulRunsPending
CHECK_DEADLOCK FALSE
