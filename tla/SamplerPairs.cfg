SPECIFICATION Spec
CONSTANTS
    ReceiptLists <- MCReceiptLists
    StakeMaps <- MCStakeMaps
    SampleRate <- FiveEighths
    MANTISSA = 3
    MaxReceipts = 3
INVARIANTS
    EntriesArePairs
CHECK_DEADLOCK FALSE
