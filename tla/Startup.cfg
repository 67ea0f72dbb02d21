SPECIFICATION Spec
CONSTANTS
  Cases <- AllCases
  MAX_ACTIONS = 4
  MAX_CONNECTIONS = 2
  Limits <- SmallLimits
INVARIANTS
  TypeOK
  CountedComplete
  AllLoaded
  WrongRefused
  RightAccepted
CHECK_DEADLOCK FALSE
