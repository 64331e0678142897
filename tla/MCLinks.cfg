SPECIFICATION MsigSpec
CONSTANTS
  KeyOrder <- MCKeys
  LevelOrder <- MCLevels
  Authority <- MCAuthority
  MaxWeight = 1
  MaxWait = 2
  MaxDepth = 2
  MaxDelay = 1
  Action <- MCActions
  Scenario <- OnlyLinking
INVARIANT LinksResolve
CHECK_DEADLOCK FALSE
