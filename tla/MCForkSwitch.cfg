SPECIFICATION Spec
CONSTANTS
    NumBlocks = 6
    MaxInvalid = 1
    MaxLeaves = 2
    Block <- MCBlock
    Genesis <- MCGenesis
    NoBlock <- MCNoBlock
    Trees <- MCTrees
    Trx <- MCTrx
    Speculative = TRUE
    MaxShutdowns = 0
    MayCrash = FALSE
INVARIANT
    IndexFollowsHead
PROPERTIES
    FailedSwitchRestores
    OwnTransactionsKept
    ImplementsSteadyLedger
    HeadCatchesUp
