\* Clients that send the next packet as soon as the last is answered.
SPECIFICATION Spec
CONSTANTS
  Clients <- TwoClients
  Script <- ScriptOne
  Habit = "reply"
  MaxEvents = 2
  BufSize = 4
  Workers <- OneWorker
  QueueSize = 1
  Faults <- NoFaults
  None = None
  c1 = c1
  c2 = c2
  c3 = c3
  w1 = w1
  w2 = w2
INVARIANTS
  ErrorMeansBadData
CHECK_DEADLOCK FALSE
