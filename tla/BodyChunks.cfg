SPECIFICATION Spec
CONSTANTS
    Requests = {"a", "b"}
    Contents <- MCContents
    Configs <- MCConfigs
    max_bytes = 2
    Missing = Missing
    Malformed = Malformed
INVARIANTS
    TypeOK
    CappedBeforeParsing
    LimiterTransparent
    OneResponse
CHECK_DEADLOCK FALSE
