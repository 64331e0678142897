SPECIFICATION Spec
CONSTANTS
    P = P
    Q = Q
    R = R
    NoProducer = NoProducer
    MaxChain = 1
    Branches <- TwoBranches
    Local = {P}
    Schedules <- Replaced
    FirstSchedule <- Others
    FirstNext <- Others
    Repetitions = 1
    ConfirmSpan = 65536
    Trx = {}
    Expiration <- Soon
    StaleProduction = TRUE
    MayRestart = FALSE
    MaxHeadAge = 3
    MaxAhead = 1
    MaxSlot = 9
    MaxNum = 6
CONSTRAINT
    Undisturbed
INVARIANT
    NoDoubleSigning
CHECK_DEADLOCK FALSE
