SPECIFICATION Spec
CONSTANTS
    WorkerConfigured = TRUE
    AllowStubReplay = FALSE
    Mode = "exact"
    Tolerance <- DefaultTolerance
    Requests = {"s", "t"}
    Call <- RerollCalls
    Epochs = {"e1"}
    Stakes = {"none", "s1", "s2"}
    NoStakes = "none"
    ChainStakes = {"s1", "s2"}
    StubStakes = "s1"
    Registry <- MCRegistry
    HexIds <- MCHexIds
    AllowUnsigned = FALSE
    AllowStubChain = FALSE
    WorkerAnswers <- MCAnswers
    SlashingEndpoint = TRUE
    SinkStatuses = {"200"}
    MANTISSA = 6
    SampleRate <- HalfRate
    MaxCalls = 2
    MaxCrashes = 0
    Idle = "idle"
    NoSalt = "nosalt"
INVARIANTS
    SampleFixedPerEpoch
CHECK_DEADLOCK FALSE
