\* Two threads and a midnight; the bounded calls end.
SPECIFICATION Spec
CONSTANTS
  None = None
  main = main
  worker = worker
  Starter = main
  Threads <- TwoThreads
  MaxDay = 2
  MaxCalls = 3
  MaxMoves = 3
  Faults <- NoFaults
INVARIANT LineInCurrentFile
CHECK_DEADLOCK FALSE
