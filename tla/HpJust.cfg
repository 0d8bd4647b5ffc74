CONSTANTS
    Extras <- MCExtras
    Counts <- MCCounts
    MaxChars = 6
SPECIFICATION Spec
INVARIANTS TypeOK AllSpread SpreadEvenly
CHECK_DEADLOCK FALSE
