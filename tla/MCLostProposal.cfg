SPECIFICATION Spec
CONSTANTS
    a = a
    b = b
    c = c
    d = d
    NoProducer = NoProducer
    Producer <- Three
    InitialProducer = a
    ProducerLists <- ThreeOneNone
    ConsensusTypes <- TwoTypes
    Repetitions = 1
    MaxTracked = 2
    SlotSkips = {1, 2}
    Confirms = {0, 1, 2, 9}
    MaxBlockNum = 7
PROPERTY
    AcceptedListIsProposed
CHECK_DEADLOCK FALSE
