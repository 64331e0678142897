SPECIFICATION Spec
CONSTANTS
    P = P
    Q = Q
    R = R
    NoProducer = NoProducer
    MaxChain = 4
    Branches <- AllChains
    Local = {P}
    Schedules <- Fixed
    FirstSchedule <- Both
    FirstNext <- Both
    Repetitions = 1
    ConfirmSpan = 65536
    Trx = {}
    Expiration <- Soon
    StaleProduction = TRUE
    MayRestart = TRUE
    MaxHeadAge = 3
    MaxAhead = 1
    MaxSlot = 4
    MaxNum = 4
INVARIANT
    NoDoubleSigning
CHECK_DEADLOCK FALSE
