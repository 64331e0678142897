CONSTANTS
    A = A
    B = B
    C = C
    User = {A, B, C}
    Issuer = A
    MaxSupply = 40
    Unit = 1
    Decade = 2
    RefundDelay = 2
    MinProposalStake = 2
    NameOrder <- MCNameOrder
    MinProducerSize = 1
    FreeExecSize = 1
    VotePeriod = 2
    ExecPeriod = 2
    UpdatePeriod = 1
    ClaimPeriod = 1
    GnodeFee = 1
    ProposalFee = 1
    RewardPerBlock = 1
    QuorumDivisor = 4
    NodeKey = {1, 2}
    NoRowWeight <- MCNoRowWeight
    NoSchedule = NoSchedule
    Truncation = 1
    FeeDivisor = 4
    InitialRam = 12
    InitialQuote = 10
    Name = {"n", "m"}
    Scenario <- OnlyRefunding
    Quantity <- MCQuantity
    Amount = {3, 4, 6}
    Bytes = {2, 3}
SPECIFICATION Spec
INVARIANT RefundScheduled
CHECK_DEADLOCK FALSE
