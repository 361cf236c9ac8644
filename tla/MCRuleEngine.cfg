\* As many slots as the rules mention variables; the last rule, whose variables
\* others mention too, comes and goes.
SPECIFICATION FairSpec
CONSTANTS
  NaN = NaN
  Rules <- SomeRules
  FirstRules = 4
  Publications <- SomePublications
  Relays = {2}
  Echoes = {6, 7}
  Watched <- Switches
  CacheSize = 6
INVARIANTS  RelayFollows
PROPERTIES ActsWhenTrue Settles
