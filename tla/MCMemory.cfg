CONSTANTS
    WordBytes = 2
    UsizeMod = 4096
    AllocLimit = 6
    OverflowChecks = FALSE
    Offsets <- MCOffsets
    Sizes <- MCSizes
    Data <- MCData
    Positions <- MCPositions

SPECIFICATION MemorySpec
PROPERTY IsAnArray
CHECK_DEADLOCK FALSE
