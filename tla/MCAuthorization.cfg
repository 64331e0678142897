SPECIFICATION MsigSpec
CONSTANTS
  KeyOrder <- MCKeys
  LevelOrder <- MCLevels
  Authority <- MCAuthority
  MaxWeight = 1
  MaxWait = 2
  MaxDepth = 2
  MaxDelay = 1
  Action <- MCActions
  Scenario <- All
INVARIANTS
    PermissionTree
    CheckerIsExact
PROPERTIES
    OnlyHoldersChange
    RunsAsApproved
CHECK_DEADLOCK FALSE
