\* Two nodes, ids that wrap, one restart, one driver with a single buffer.
SPECIFICATION FairSpec
CONSTANTS
  Nodes = {a, b}
  Broadcast = all
  Mod = 3
  Retries = 1
  SharedBuf = {b}
  MaxSends = 4
  MaxRestarts = 1
INVARIANTS AckedIsReceived OnceInOrder Genuine
PROPERTY SendReturns
CHECK_DEADLOCK FALSE
