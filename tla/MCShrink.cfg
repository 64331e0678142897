SPECIFICATION Spec
CONSTANTS
    a = a
    b = b
    c = c
    d = d
    NoProducer = NoProducer
    Producer <- Four
    InitialProducer = a
    ProducerLists <- FourTwo
    ConsensusTypes = {}
    Repetitions = 1
    MaxTracked = 6
    SlotSkips = {1, 2}
    Confirms = {0, 1, 2, 3}
    MaxBlockNum = 20
PROPERTY
    CommittedBlockBecomesHead
ACTION_CONSTRAINT
    ConfirmsAll
CHECK_DEADLOCK FALSE
