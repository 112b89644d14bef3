SPECIFICATION AllocationSpec
CONSTANTS
    MaxWallets = 2
    MaxPerWallet = 2
    MaxAvailable = 2
    MaxAmount = 5
INVARIANTS
    ReturnsPlan
    ThrowsOnlyWhenShort
    OutcomeIsDetermined
CHECK_DEADLOCK FALSE
