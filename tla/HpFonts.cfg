CONSTANTS
    fA = fA
    fB = fB
    fC = fC
    fD = fD
    fP = fP
    DCs = {d1}
    Temp = {fA, fB, fC, fD}
    Perm = {fP}
    Mem <- MCMem
    AvailMem = 7
    MINMEM = 2
    MaxSoft = 3
    MaxPgSoft = 2
    Courier = Courier
    Missing = Missing
    NoFont = NoFont
    NoFile = {fD}
    MaxAge = 4
    MaxScans = 4
    LowMem <- MCLowMem
SPECIFICATION Spec
INVARIANTS TypeOK FontAsAsked PageFontsKept PrinterFits
CHECK_DEADLOCK FALSE
