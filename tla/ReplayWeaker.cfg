SPECIFICATION Spec
CONSTANTS
    WorkerConfigured = TRUE
    AllowStubReplay = FALSE
    Mode = "tolerant"
    Tolerance <- DefaultTolerance
    MaxLength = 1
    ReceiptCases <- MCReceipts
    InputCases <- MCInputs
    AnswerCases <- MCAnswers
INVARIANTS
    NeverWeakerThanExact
CHECK_DEADLOCK FALSE
