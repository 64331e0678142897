CONSTANTS
    Account = {"u", "c", "s"}
    Precision = 5
    Window <- MCWindow
    MaxBlock <- MCMaxBlock
    Target <- MCTarget
    Periods <- MCPeriods
    Multiplier = 2
    Contract <- MCContract
    Expand <- MCExpand
    System = "s"
    Sender = "c"
    NoSender = "none"
    MaxTrx <- MCMaxTrx
    MinCpu = 1
    BaseNet = 1
    RetireNet = 1
    NetLeeway = 1
    RowSize = 1
    ExpirationWindow = 1
    Lifetime = 2
    Unbounded = 100
    NoBlock = NoBlock
    Program <- MCProgram
    Scenario <- All
SPECIFICATION Spec
INVARIANTS
    AvailableFits
    UsageMatches
    BlockValidates
PROPERTY
    NeverAppliedTwice
CHECK_DEADLOCK FALSE
