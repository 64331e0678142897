SPECIFICATION MsigSpec
CONSTANTS
  KeyOrder <- MCKeys
  LevelOrder <- MCLevels
  Authority <- MCAuthority
  MaxWeight = 1
  MaxWait = 2
  MaxDepth = 3
  MaxDelay = 1
  Action <- MCActions
  Scenario <- OnlyReverted
INVARIANT RequiredKeysSuffice
CHECK_DEADLOCK FALSE
