CONSTANTS
    WordBytes = 3
    WordMod = 16777216
    UsizeMod = 786432
    AddressMod = 1048576
    AllocLimit = 2400
    StackSize = 17
    OverflowChecks = TRUE
    ChainId = 4
    Block <- MCBlock
    GenesisAccounts <- MCAccounts
    GenesisStorage <- MCStorage
    Transactions <- CuratedTransactions
    Holders <- MCHolders
    Keys <- MCKeys
    Alu <- MCAlu
    Keccak <- MCKeccak
    CreateAddress <- MCCreateAddress

SPECIFICATION Spec
CONSTRAINT OneRun
INVARIANT TypeOK
INVARIANT EverythingPaidFor
PROPERTY KeepsTheWorld
PROPERTY KeepsTheBooks
PROPERTY ReadsAreZeroPadded
CHECK_DEADLOCK FALSE
