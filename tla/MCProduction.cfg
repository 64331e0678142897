SPECIFICATION Spec
CONSTANTS
    P = P
    Q = Q
    R = R
    NoProducer = NoProducer
    MaxChain = 4
    Branches <- DenseChains
    Local = {P}
    Schedules <- Alternating
    FirstSchedule <- First
    FirstNext <- First
    Repetitions = 2
    ConfirmSpan = 2
    Trx = {}
    Expiration <- Soon
    StaleProduction = TRUE
    MayRestart = FALSE
    MaxHeadAge = 3
    MaxAhead = 1
    MaxSlot = 4
    MaxNum = 5
CONSTRAINT
    FewDisturbances
INVARIANTS
    NoDoubleSigning
    FirstOpenTurn
CHECK_DEADLOCK FALSE
