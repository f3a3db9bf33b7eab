SPECIFICATION Spec
CONSTANTS
    ReceiptLists <- MCReceiptLists
    StakeMaps <- MCStakeMaps
    SampleRate <- HalfRate
    MANTISSA = 3
    MaxReceipts = 3
INVARIANTS
    SizeIsCeiling
CHECK_DEADLOCK FALSE
