\* A message sent by the main program, a packet that arrives meanwhile.
SPECIFICATION FairSpec
CONSTANTS
  FifoSize = 3
  MaxDepth = 3
  MaxPackets = 2
  MaxTimers = 0
  MainOps = {"send"}
PROPERTY InterruptAlwaysReturns
