SPECIFICATION Spec
CONSTANTS
    P = P
    Q = Q
    R = R
    NoProducer = NoProducer
    MaxChain = 2
    Branches <- JoiningAndTaken
    Local = {P}
    Schedules <- Changing
    FirstSchedule <- Both
    FirstNext <- Others
    Repetitions = 1
    ConfirmSpan = 65536
    Trx = {"t"}
    Expiration <- Soon
    StaleProduction = TRUE
    MayRestart = TRUE
    MaxHeadAge = 1
    MaxAhead = 2
    MaxSlot = 1
    MaxNum = 2
CONSTRAINT
    FewDisturbances
INVARIANTS
    OneLiveHandler
    ExactlyOneAnswer
    AcceptedStays
CHECK_DEADLOCK FALSE
