SPECIFICATION Spec
CONSTANTS
    ReceiptLists <- MCReceiptLists
    StakeMaps <- MCStakeMaps
    SampleRate <- FiveEighths
    MANTISSA = 3
    MaxReceipts = 4
INVARIANTS
    TypeOK
    BagPartition
    SampleIsDrawable
    DrawIsProportional
    NobodyStarves
CHECK_DEADLOCK FALSE
