\* Clients that pipeline and close at any time while system calls fail; tasks and recvdata race.
SPECIFICATION FairSpec
CONSTANTS
  Clients <- TwoClients
  Script <- ScriptLong
  Habit = "eager"
  MaxEvents = 2
  BufSize = 3
  Workers <- TwoWorkers
  QueueSize = 2
  Faults <- CallFaults
  None = None
  c1 = c1
  c2 = c2
  c3 = c3
  w1 = w1
  w2 = w2
INVARIANTS
  BufferKept
  StatusMatchesTree
PROPERTIES
  EofReaped
CHECK_DEADLOCK FALSE
