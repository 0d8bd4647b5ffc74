CONSTANTS
    NumBands = 3
    MaxPages = 2
    MaxDocs = 2
    Options <- MCOptions
    Contents <- MCContents
    KeepsDC = FALSE
SPECIFICATION Spec
INVARIANTS TypeOK BandsInPlace OwnBytes SpoolCallsLegal
PROPERTIES PageComplete DuplexEven
CHECK_DEADLOCK FALSE
