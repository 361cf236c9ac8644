SPECIFICATION BothSpec
CONSTANTS
  Texts <- SomeTexts
  KindOf <- KindOfText
  BufSize = 7
  Half = 2
  RingSize = 2
  MaxTexts = 2
  MaxLost = 1
  NaN = NaN
  Nodes = {1}
  Offered <- SomeServices
  MaxServices = 2
  StoreSize = 60
  Objects <- SomeObjects
  Conditions <- SomeConditions
  Junks = {0}
  Measured = {0, 2}
  MaxTyped = 2
  MaxPressed = 1
INVARIANTS AnsweredOnce AnsweredRight
PROPERTIES AllAnswered
CHECK_DEADLOCK FALSE
