\* Two threads, two midnights, and openLogFile may fail; the bounded calls end.
SPECIFICATION Spec
CONSTANTS
  None = None
  main = main
  worker = worker
  Starter = main
  Threads <- TwoThreads
  MaxDay = 3
  MaxCalls = 3
  MaxMoves = 3
  Faults <- OpenFaults
INVARIANTS TypeOK LineInCurrentFileUnlessTorn ReopenRepairs
CHECK_DEADLOCK FALSE
