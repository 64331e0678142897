SPECIFICATION Spec
CONSTANTS
    a = a
    b = b
    c = c
    d = d
    NoProducer = NoProducer
    Producer <- Two
    InitialProducer = a
    ProducerLists <- TwoOne
    ConsensusTypes = {}
    Repetitions = 1
    MaxTracked = 4
    SlotSkips = {1, 2}
    Confirms = {0, 1, 2, 14}
    MaxBlockNum = 12
INVARIANT
    ProposedHasQuorum
PROPERTY
    CommittedBlockBecomesHead
CHECK_DEADLOCK FALSE
