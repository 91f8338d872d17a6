\* The calls to the kernel; one without a limit may wait for ever, a server may end: the system may stop.
SPECIFICATION CallsSpec
CONSTANTS
  None = None
  t1 = t1
  Threads <- OneThread
  Fns <- EveryFn
  Read_len = 3
  MaxArrived = 6
  MaxCalls = 3
  MaxSignals = 2
  p1 = p1
  p2 = p2
  Procs <- TwoServers
  MaxFd = 5
  MaxFaults = 1
  MaxAsked = 3
  MaxKills = 1
  waiter = waiter
  looker = looker
  sender = sender
  other = other
  Waiters <- OneWaiter
  Lookers <- OneLooker
  Senders <- OneSender
  Others <- OneOther
  Types <- TwoTypes
  Capacity = 1
  MaxMessages = 2
  MaxClears = 1
  MaxFailures = 1
INVARIANTS
  TypeOK
  NoStrayAlarm
  TimeoutIsOwn
  RecordsStayAligned
  NoDescriptorLost
  DescriptorsStay
  
PROPERTIES
  SelectCallsReturn
  PortServed
  SentIsReceived
CHECK_DEADLOCK FALSE
