\* One sender, messages of two fragments, full ids, one acknowledgement lost; the
\* receiver waits, and stops when nothing is sent any more.
SPECIFICATION MixedSpec
CONSTANTS
  FragMax = 28
  TotalMax = 84
  Senders = {s1}
  Calm = s1
  Longest = 40
  Lens = {40}
  IdMod = 128
  FifoSize = 3
  MaxMessages = 2
  MaxLosses = 2
  AckLoss = TRUE
  Timeouts = FALSE
INVARIANT NeverJoined
CHECK_DEADLOCK FALSE
