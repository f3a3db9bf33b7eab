SPECIFICATION Spec
CONSTANTS
    Names <- MCNames
    NoName = "none"
    Account <- MCAccount
    NoAccount = "none"
    VerdictTexts <- MCVerdictTexts
    Lower <- MCLower
    U16_MAX = 15
    MANTISSA = 6
    MAX_EPOCH = 3
    Requests = {"w", "v"}
    Jobs = {"j1", "j2"}
    Contents <- MCContents
    Storages <- MCStorages
    Stub <- MCStub
    Configs <- MCConfigs
    Lengths <- MCLengths
    Absent = Absent
    BACKOFFS = 1
    MaxFlaps = 1
    MaxCrashes = 1
INVARIANTS
    StubVoteWithheld
CHECK_DEADLOCK FALSE
