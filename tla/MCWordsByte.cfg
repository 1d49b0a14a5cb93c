CONSTANTS
    WordBytes = 1
    PowLimit = 3
    Operations <- ByteOperations
    Operands <- ByteOperands

SPECIFICATION WordsSpec
INVARIANT WordsTyped
INVARIANT SignedDivision
INVARIANT SignedOrder
INVARIANT Shifts
INVARIANT Powers
INVARIANT ModularArithmetic
CHECK_DEADLOCK FALSE
