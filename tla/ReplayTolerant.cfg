SPECIFICATION Spec
CONSTANTS
    WorkerConfigured = TRUE
    AllowStubReplay = FALSE
    Mode = "tolerant"
    Tolerance <- HalfTolerance
    MaxLength = 2
    ReceiptCases <- MCReceipts
    InputCases <- MCInputs
    AnswerCases <- MCAnswers
INVARIANTS
    TypeOK
    DivergenceDecides
    FallbackIsExact
    NeverSelfAttests
    OutageNeverFaults
CHECK_DEADLOCK FALSE
