SPECIFICATION Spec
CONSTANTS
    Block <- MCBlock
    Genesis <- MCGenesis
    NoBlock <- MCNoBlock
    Trees <- MCTrees
    Trx = {}
    Speculative = TRUE
    MaxShutdowns = 0
    MayCrash = FALSE
INVARIANT
    NeverPopsFinal
ACTION_CONSTRAINT
    InOrder
CHECK_DEADLOCK FALSE
