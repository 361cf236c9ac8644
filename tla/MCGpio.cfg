\* A node sleeps when no pin changes any more.
SPECIFICATION FairSpec
CONSTANTS
  Pins = {0, 1, 2}
  Handlers <- RadioAndSwitches
  Radio <- RadioPin
  MaxOps = 3
  MaxChanges = 3
INVARIANTS CalledRight EdgesTold
PROPERTY LevelServed
CHECK_DEADLOCK FALSE
