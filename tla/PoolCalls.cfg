\* Two callers add, one of them has created the pool and may destroy it.
SPECIFICATION FairSpec
CONSTANTS
  ThreadCount = 2
  QueueSize = 2
  Tasks <- ThreeTasks
  Callers <- MainAndOther
  Creator = main
  Destroyers <- Main
  Faults <- NoFaults
  MaxSpurious = 1
  None = None
  main = main
  other = other
  t1 = t1
  t2 = t2
  t3 = t3
INVARIANTS
  TypeOK
  NoTaskLostOrRepeated
  NoLostWakeup
  GracefulDestroyDrains
  DestroyFrees
PROPERTIES
  AcceptedTaskStarts
  DestroyReturns
  ImplementsTaskQueue
