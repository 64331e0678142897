SPECIFICATION Spec
CONSTANTS
    N = N
    P = P
    Q = Q
    Node = {N, P, Q}
    Link <- MCLink
    LinkOrder <- MCOrder
    Initiator <- MCInitiator
    Acceptor <- MCAcceptor
    ForkAt = 5
    LibLag = 2
    Span = 2
    Times = {1, 2}
    NoLink = NoLink
    Trx = {"t"}
    Scenario <- Broken
    MaxNum = 6
CHECK_DEADLOCK FALSE
PROPERTY CatchesUp
