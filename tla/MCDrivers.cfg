SPECIFICATION AnySpec
CONSTANTS
  MaxLen = 2
  MaxFrames = 2
  Fifo = 4
  RxAlmost = 3
  Noise = {"x", "DLE", "STX"}
  Looks = {"DLE", "STX", "x"}
  Me = "DLE"
  MaxFaults = 1
INVARIANTS SentWhole GotWhole
PROPERTIES SendEnds Listens Recovers
CHECK_DEADLOCK FALSE
