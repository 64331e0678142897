SPECIFICATION Spec
CONSTANTS
    Starts <- MCStarts
    MaxNum = 8
    Truncations = {0, 2, 5}
INVARIANT
    EveryBlockIsFound
PROPERTIES
    AppendedBlocksStay
    LogComesBack
