\* Ids that come round, messages of one, two and three fragments, datagrams that
\* are lost in both kinds of behaviour.
SPECIFICATION MixedSpec
CONSTANTS
  FragMax = 28
  TotalMax = 84
  Senders = {s1, s2}
  Calm = s1
  Longest = 81
  Lens = {20, 40, 81}
  IdMod = 3
  FifoSize = 2
  MaxMessages = 3
  MaxLosses = 2
  AckLoss = TRUE
  Timeouts = TRUE
INVARIANT DeliversRuns
PROPERTY ImplementsDatagrams
CHECK_DEADLOCK FALSE
