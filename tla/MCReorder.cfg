SPECIFICATION Spec
CONSTANTS
    NumBlocks = 4
    MaxInvalid = 1
    MaxLeaves = 2
    Block <- MCBlock
    Genesis <- MCGenesis
    NoBlock <- MCNoBlock
    Trees <- MCTrees
    Trx = {}
    Speculative = TRUE
    MaxShutdowns = 2
    MayCrash = FALSE
INVARIANT
    DatabaseIsAtHead
CHECK_DEADLOCK FALSE
