SPECIFICATION Spec
CONSTANTS
    NumBlocks = 6
    MaxInvalid = 1
    MaxLeaves = 2
    Block <- MCBlock
    Genesis <- MCGenesis
    NoBlock <- MCNoBlock
    Trees <- MCTrees
    Trx = {}
    Speculative = TRUE
    MaxShutdowns = 1
    MayCrash = TRUE
INVARIANTS
    ChecksHold
    DatabaseIsAtHead
    DiskHoldsChain
PROPERTY
    ImplementsLedger
CHECK_DEADLOCK FALSE
