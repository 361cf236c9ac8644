SPECIFICATION FairSpec
CONSTANTS
  FifoSize = 2
  MaxDepth = 5
  MaxPackets = 3
  MaxTimers = 2
  MainOps = {"send", "setAddress", "radioRun"}
INVARIANTS ChipIdleInOpDone ReceivesWhenIdle
PROPERTIES Drained InterruptReturns
