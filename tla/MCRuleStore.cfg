\* Power fails up to twice, at any byte.  Id 2 is the magic byte's value, id 3 names
\* empty space, id 4 is cut down to 0; two rules fit.
SPECIFICATION FairSpec
CONSTANTS
  Chip = 17
  Base = 1
  Size = 7
  Width = 4
  Magic = 2
  Fresh <- SomeFresh
  Ids = {2, 3, 4}
  Texts <- ShortTexts
  MaxCrashes = 2
INVARIANTS Intact Ended
PROPERTIES ImplementsRules MagicKept Served
