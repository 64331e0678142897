SPECIFICATION Spec
CONSTANTS
    N = N
    P = P
    Q = Q
    Node = {N, P, Q}
    Link <- MCLink
    LinkOrder <- MCOrder
    Initiator <- MCInitiator
    Acceptor <- MCAcceptor
    ForkAt = 5
    LibLag = 2
    Span = 2
    Times = {1, 2}
    NoLink = NoLink
    Trx = {"t"}
    Scenario <- Healthy
    MaxNum = 6
INVARIANTS
    NoHoleInSync
    NobodyLeftBehind
    TwinsKeepOne
    EveryoneHears
PROPERTY
    CatchesUp
CHECK_DEADLOCK FALSE
