\* Clients that wait until the server is done with their packet.
SPECIFICATION FairSpec
CONSTANTS
  Clients <- ThreeClients
  Script <- ScriptOne
  Habit = "patient"
  MaxEvents = 3
  BufSize = 4
  Workers <- OneWorker
  QueueSize = 1
  Faults <- NoFaults
  None = None
  c1 = c1
  c2 = c2
  c3 = c3
  w1 = w1
  w2 = w2
INVARIANTS
  EchoCorrect
  OneSlotPerConnection
PROPERTIES
  DropsOnlyForCause
  PacketAnswered
CHECK_DEADLOCK FALSE
