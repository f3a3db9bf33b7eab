SPECIFICATION FairSpec
CONSTANTS
    WorkerConfigured = TRUE
    AllowStubReplay = FALSE
    Mode = "exact"
    Tolerance <- DefaultTolerance
    Requests = {"a", "b", "s", "r", "big"}
    Call <- MixedCalls
    Epochs = {"e1"}
    Stakes = {"none", "s1", "s2"}
    NoStakes = "none"
    ChainStakes = {"s1", "s2"}
    StubStakes = "s1"
    Registry <- MCRegistry
    HexIds <- MCHexIds
    AllowUnsigned = FALSE
    AllowStubChain = TRUE
    WorkerAnswers <- MCAnswers
    SlashingEndpoint = TRUE
    SinkStatuses = {"200"}
    MANTISSA = 6
    SampleRate <- FullRate
    MaxCalls = 2
    MaxCrashes = 1
    Idle = "idle"
    NoSalt = "nosalt"
INVARIANTS
    TypeOK
    IndInv
    RetainedIsProduced
    CountersHonest
    AnsweredIsComplete
    OnlyVerifiedSlashed
    SinkAccounts
    SampleStable
PROPERTIES
    SaltsFixed
    LedgerSpec
    RequestsEnd
CHECK_DEADLOCK FALSE
