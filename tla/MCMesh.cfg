SPECIFICATION FairSpec
CONSTANTS
  Addresses <- Nodes
  NoAddress = 0
  Size = 2
  Broadcast = 255
  TestNetwork = 1
  MaxHops = 3
  Requests <- Calls
  MaxLosses = 1
INVARIANTS TablesSound PathIsWalk NotMultiplied
PROPERTY EndsQuiet
CHECK_DEADLOCK FALSE
