\* read_t with its alarm: a read that has missed SIGALRM waits for ever.
SPECIFICATION Spec
CONSTANTS
  None = None
  t1 = t1
  Threads <- OneThread
  Fns <- ReadSignal
  Read_len = 2
  MaxArrived = 1
  MaxCalls = 1
  MaxSignals = 1
PROPERTY TimedCallsReturn
CHECK_DEADLOCK FALSE
