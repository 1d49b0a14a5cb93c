CONSTANTS
    WordBytes = 2
    PowLimit = 3
    Operations <- PairOperations
    Operands <- PairOperands

SPECIFICATION WordsSpec
INVARIANT Shifts
INVARIANT Bytes
CHECK_DEADLOCK FALSE
