CONSTANTS
    a = a
    b = b
    c = c
    Values <- MCValues
    StackSize = 4
    MaxArity = 5

SPECIFICATION StackSpec
INVARIANT TopIsLast
PROPERTY WorksAtOnce
