CONSTANTS
    DEPTH = 4
    BYTE = 2
    GAP = 1
    POSSIZE = 2
    Devices <- MCDevices
    Inks <- MCInks
    Texts <- MCTexts
SPECIFICATION Spec
INVARIANTS TypeOK DotsInPlace AllPrinted DrawnInBitmap
PROPERTY BandsJoin
CHECK_DEADLOCK FALSE
