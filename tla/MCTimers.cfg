\* A delay below MIN_DELAY and one that may cross an overflow, and a clock that wraps.
SPECIFICATION EitherSpec
CONSTANTS
  Lo = 8
  Hi = 4
  MinDelay = 1
  MaxTimeouts = 2
  Clients = {c1, c2}
  Delays = {0, 5}
  Arduino = FALSE
  BootTop = 2
  MaxOff = 2
  MaxSlip = 1
  MaxCuts = 1
  MaxLate = 11
INVARIANTS ArmedHasHead RegistersRight LateAtMost
PROPERTIES ImplementsTimeouts EventuallyFires
