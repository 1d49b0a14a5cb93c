CONSTANTS
    WordBytes = 3
    WordMod = 16777216
    UsizeMod = 786432
    AddressMod = 1048576
    AllocLimit = 2400
    StackSize = 3
    OverflowChecks = TRUE
    ChainId = 4
    Block <- MCBlock
    GenesisAccounts <- MCAccounts
    GenesisStorage <- MCStorage
    Transactions <- ProgramTransactions
    Holders <- MCHolders
    Keys <- MCKeys
    Alu <- MCAlu
    Keccak <- MCKeccak
    CreateAddress <- MCCreateAddress

SPECIFICATION Spec
CONSTRAINT OneRun
INVARIANT FundsCoverGas
INVARIANT EverythingPaidFor
INVARIANT Isolation
INVARIANT Aligned
CHECK_DEADLOCK FALSE
